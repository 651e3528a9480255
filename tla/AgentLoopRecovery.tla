-------------------------- MODULE AgentLoopRecovery --------------------------
(***************************************************************************)
(* Theorems of AgentLoop for every value of its constants: a crash loses   *)
(* nothing of a step, what the working state claims was observed, the      *)
(* model decides with the latest answer of the user and with the outcome   *)
(* of the last action, and nothing is performed without consent.           *)
(*                                                                         *)
(* Three inductive invariants, each over the one before.  KnowInv says     *)
(* what each stored state claims, and which events each point of a call    *)
(* may find behind the last snapshot.  ConsentInv says what a granted      *)
(* request, a reservation and a result have in common, so that no call     *)
(* meets an action again that it believes to be new.  OutcomeInv says that *)
(* the last snapshot tells the newest observation before it.               *)
(***************************************************************************)
EXTENDS AgentLoopProofs

-----------------------------------------------------------------------------
(* What a state claims, and what a log shows.                              *)

(* A list of a stored state: within its limit.                             *)
IsList(q, limit) == q \in Seq(Range(q)) /\ Len(q) <= limit

(* A plan: an item is completed by evidence that succeeded.                *)
PlanTrue(l, q) ==
  /\ IsList(q, MaxPlan)
  /\ \A t \in Range(q) : t.status = "completed" =>
       /\ t.evidence # {}
       /\ \A id \in t.evidence : Succeeded(l, id, EvidenceKinds, NoRef)

(* Criteria: without evidence they are pending, and what passed has some   *)
(* that succeeded.                                                         *)
CriterionFields == {"id", "kind", "required", "status", "evidence", "ref"}
CriterionTrue(l, c) ==
  /\ c = [k \in CriterionFields |-> c[k]]
  /\ c.evidence = {} => c.status = "pending"
  /\ c.status = "passed" => \A id \in c.evidence :
       IF c.kind = "validation" THEN Succeeded(l, id, {"validate"}, c.ref)
       ELSE Succeeded(l, id, EvidenceKinds, NoRef)
CriteriaTrue(l, q) ==
  /\ IsList(q, MaxCriteria)
  /\ \A c \in Range(q) : CriterionTrue(l, c)

(* Recent observations: a success is one that the log shows.               *)
Shown(l, o) ==
  \E i \in DOMAIN l :
    /\ l[i].type \in TerminalTypes
    /\ l[i].action.id = o.id /\ l[i].action.kind = o.kind
    /\ l[i].action.ref = o.ref /\ l[i].obs.status = o.status
RecentTrue(l, q) ==
  /\ IsList(q, MaxRecent)
  /\ \A o \in Range(q) : o.status \in SuccessStatuses => Shown(l, o)

(* Answers: the user gave them.                                            *)
Given(l, r) ==
  \E i \in DOMAIN l :
    /\ l[i].type = "input_received"
    /\ l[i].action.id = r.id /\ l[i].answer = r.answer
InputsTrue(l, q) ==
  /\ IsList(q, MaxInputs)
  /\ \A r \in Range(q) : Given(l, r)

(* Such a state is also what its record gives back.                        *)
IsTrue(l, s) ==
  /\ s = [k \in StateFields |-> s[k]] /\ IsState(s)
  /\ PlanTrue(l, s.plan) /\ CriteriaTrue(l, s.criteria)
  /\ RecentTrue(l, s.recent) /\ InputsTrue(l, s.inputs)

(* s has the newest of the first n answers.                                *)
HasAnswer(l, n, s) ==
  \A i \in DOMAIN l :
    (/\ l[i].type = "input_received" /\ i <= n
     /\ \A j \in DOMAIN l : l[j].type = "input_received" /\ j <= n => j <= i) =>
       \E r \in Range(s.inputs) : r.id = l[i].action.id /\ r.answer = l[i].answer

(* The events that a state may have to learn.                              *)
Learnt == Observations \union {"input_received"}
Late(l) == {i \in SnapshotAt(l) + 1 .. Len(l) : l[i].type \in Learnt}

IsUpdate(u) ==
  u # NoUpdate =>
    \A c \in u.criteria : c.kind = "validation" => c.evidence # {}

LearntOK(l) ==
  \A i \in DOMAIN l :
    /\ l[i].type \in Learnt => l[i].action # NoAction
    /\ l[i].type \in WaitingTypes => l[i].obs.status \notin SuccessStatuses
    /\ l[i].type = "decision_recorded" => IsUpdate(l[i].update)
    /\ l[i].type = "input_received" =>
         \A j \in DOMAIN l :
           (l[j].type = "input_received" /\ l[j].action.id = l[i].action.id) =>
             i = j
StatesTrue(l) ==
  \A i \in DOMAIN l :
    l[i].type = "working_state_updated" => IsTrue(l, l[i].state)
TrueLog(l) ==
  LearntOK(l) /\ StatesTrue(l) /\ HasAnswer(l, SnapshotAt(l), LatestState(l))

(* The decision of the call is the one that recovery would find.           *)
Decided(l) ==
  /\ Has(l, job.action.id, {"decision_recorded"})
  /\ At(l, job.action.id, {"decision_recorded"}) > SnapshotAt(l)
  /\ l[At(l, job.action.id, {"decision_recorded"})].update = job.update
  /\ UpdateFits(job.state, job.update) /\ IsUpdate(job.update)

Reports(l) ==
  /\ Len(l) > 0 /\ l[Len(l)].type \in Observations
  /\ l[Len(l)].action = job.action /\ l[Len(l)].obs = job.obs

(* The newest answer of the user is to this question.                      *)
NewestAnswer(l, id) ==
  \E i \in DOMAIN l :
    /\ l[i].type = "input_received" /\ l[i].action.id = id
    /\ \A j \in DOMAIN l : l[j].type = "input_received" => j <= i

(* Points at which every event is in the last snapshot ...                 *)
Learned ==
  \/ pc \in {"resume", "wait", "step", "gate", "end", "close", "observed",
             "rejected"}
  \/ pc \in Executes /\ job.then # "resumed"
  \/ pc = "idle" /\ OfferedPending
(* ... and at which the call holds the state of that snapshot.             *)
Holds ==
  \/ InLoop
  \/ pc \in {"resume", "wait", "step", "end", "diffed", "close"}
  \/ pc \in Executes /\ job.then = "diffed"

(* The action in execution, and the reservations.                          *)
KnowsActions ==
  /\ \A r \in reservations : r.action \in Recorded(log)
  /\ (pc = "gate" \/ pc \in Executes \ {"execute"}) =>
       job.action \in Recorded(log)
  /\ (\/ pc = "gate"
      \/ pc \in {"execute", "ask", "reserve"} /\ job.then = "advance") =>
        Reserved(job.action) = {}
  /\ (\/ pc = "written"
      \/ pc \in Executes /\ job.then = "written") =>
        job.action.kind \in SideEffects

(* When the execution has returned, its observation is the one event that  *)
(* the last snapshot misses, unless the call has to stop.                  *)
KnowsOutcome ==
  pc \in ReturnsTo \ {"resumed"} =>
    \/ Reports(log) /\ Late(log) \subseteq {Len(log)}
    \/ job.obs.status = "recovery_required" /\ pc # "advance"
         /\ Late(log) = {}

(* The question of the run is unanswered, or the last that was answered.   *)
KnowsAnswer ==
  /\ (run.question # NoAction /\ Has(log, run.question.id, {"input_received"}))
       => NewestAnswer(log, run.question.id)
  /\ pc = "answered" => NewestAnswer(log, job.action.id)

KnowInv ==
  /\ TrueLog(log)
  /\ job.state # NoState => IsTrue(log, job.state)
  /\ Learned => Late(log) = {}
  /\ Holds => job.state = LatestState(log)
  /\ InLoop => Decided(log)
  /\ KnowsActions
  /\ KnowsOutcome
  /\ KnowsAnswer

-----------------------------------------------------------------------------
(* Lists.                                                                  *)

LEMMA ListItems ==
  ASSUME NEW q, q \in Seq(Range(q))
  PROVE  /\ Len(q) \in Nat /\ DOMAIN q = 1..Len(q)
         /\ \A i \in 1..Len(q) : q[i] \in Range(q)
         /\ q = [i \in 1..Len(q) |-> q[i]]
BY DEF Range

LEMMA ItemsList ==
  ASSUME NEW n \in Nat, NEW q, q = [i \in 1..n |-> q[i]]
  PROVE  q \in Seq(Range(q)) /\ Len(q) = n
<1>1. DOMAIN q = 1..n /\ \A i \in 1..n : q[i] \in Range(q)
  BY DEF Range
<1>2. q \in [1..n -> Range(q)]
  BY <1>1
<1> QED BY <1>2

LEMMA LastNFits ==
  ASSUME NEW q, q \in Seq(Range(q)), NEW n \in Nat \ {0}
  PROVE  /\ IsList(LastN(q, n), n)
         /\ Range(LastN(q, n)) \subseteq Range(q)
         /\ Len(q) > 0 => q[Len(q)] \in Range(LastN(q, n))
         /\ Len(q) <= n => LastN(q, n) = q
<1>1. CASE Len(q) <= n
  BY <1>1, ListItems DEF LastN, IsList
<1>2. CASE ~(Len(q) <= n)
  <2> DEFINE m == Len(q) - n + 1
             t == SubSeq(q, m, Len(q))
  <2>1. Len(q) \in Nat /\ m \in 1..Len(q) /\ Len(q) - m + 1 = n
    BY <1>2, ListItems
  <2> HIDE DEF m
  <2>2. Len(t) = n /\ t = [i \in 1..n |-> q[i + m - 1]]
    BY <2>1
  <2>3. LastN(q, n) = t
    BY <1>2, <2>1 DEF LastN
  <2> HIDE DEF t
  <2>4. t \in Seq(Range(t))
    BY <2>2, ItemsList
  <2>5. \A i \in 1..n : i + m - 1 \in 1..Len(q)
    BY <2>1
  <2>6. Range(t) \subseteq Range(q)
    <3>1. \A i \in DOMAIN t : t[i] \in Range(q)
      BY <2>2, <2>5, ListItems
    <3> QED BY <3>1 DEF Range
  <2>7. q[Len(q)] \in Range(t)
    <3>1. n \in DOMAIN t /\ t[n] = q[Len(q)]
      BY <2>1, <2>2
    <3> QED BY <3>1 DEF Range
  <2> QED BY <1>2, <2>2, <2>3, <2>4, <2>6, <2>7 DEF IsList
<1> QED BY <1>1, <1>2

LEMMA JoinedItems ==
  ASSUME NEW p, p \in Seq(Range(p)), NEW q, q \in Seq(Range(q))
  PROVE  /\ p \o q \in Seq(Range(p \o q))
         /\ Range(p \o q) \subseteq Range(p) \union Range(q)
<1> DEFINE S == Range(p) \union Range(q)
           r == p \o q
<1>1. p \in Seq(S) /\ q \in Seq(S)
  <2>1. \A i \in 1..Len(p) : p[i] \in S
    BY ListItems
  <2>2. \A i \in 1..Len(q) : q[i] \in S
    BY ListItems
  <2> HIDE DEF S
  <2> QED BY <2>1, <2>2, ListItems
<1> HIDE DEF S
<1>2. r \in Seq(S)
  BY <1>1
<1> HIDE DEF r
<1>3. r = [i \in 1..Len(r) |-> r[i]] /\ Len(r) \in Nat
      /\ \A i \in DOMAIN r : r[i] \in S
  BY <1>2
<1>4. r \in Seq(Range(r))
  BY <1>3, ItemsList
<1> QED BY <1>3, <1>4 DEF Range, S, r

LEMMA AppendedItem ==
  ASSUME NEW q, q \in Seq(Range(q)), NEW x
  PROVE  /\ Append(q, x) \in Seq(Range(Append(q, x)))
         /\ Len(Append(q, x)) = Len(q) + 1
         /\ Append(q, x)[Len(q) + 1] = x
         /\ Range(Append(q, x)) = Range(q) \union {x}
<1> DEFINE S == Range(q) \union {x}
           r == Append(q, x)
<1>1. Len(q) \in Nat /\ q \in Seq(S) /\ x \in S
  <2>1. \A i \in 1..Len(q) : q[i] \in S
    BY ListItems
  <2> HIDE DEF S
  <2> QED BY <2>1, ListItems DEF S
<1> HIDE DEF S
<1>2. r \in Seq(S) /\ Len(r) = Len(q) + 1 /\ r[Len(q) + 1] = x
      /\ \A i \in 1..Len(q) : r[i] = q[i]
  BY <1>1
<1> HIDE DEF r
<1>3. r = [i \in 1..Len(r) |-> r[i]] /\ Len(r) \in Nat /\ DOMAIN r = 1..(Len(q) + 1)
      /\ \A i \in DOMAIN r : r[i] \in S
  BY <1>2
<1>4. r \in Seq(Range(r))
  BY <1>3, ItemsList
<1>5. Range(r) = S
  <2>1. DOMAIN q = 1..Len(q)
    BY ListItems
  <2> QED BY <1>1, <1>2, <1>3, <2>1 DEF Range, S
<1> QED BY <1>2, <1>3, <1>4, <1>5 DEF Range, S, r

LEMMA SeqItems ==
  ASSUME NEW S, NEW q \in Seq(S)
  PROVE  q \in Seq(Range(q)) /\ Range(q) \subseteq S
<1>1. q = [i \in 1..Len(q) |-> q[i]] /\ Len(q) \in Nat
      /\ \A i \in DOMAIN q : q[i] \in S
  OBVIOUS
<1> QED BY <1>1, ItemsList DEF Range

LEMMA KeptItems ==
  ASSUME NEW q, q \in Seq(Range(q)), NEW kept
  PROVE  /\ Keep(q, kept) \in Seq(Range(Keep(q, kept)))
         /\ Range(Keep(q, kept)) \subseteq Range(q)
<1> DEFINE X == Seq(Range(q))
           F(f) == [n \in 0..Len(q) |->
                      IF n = 0 THEN <<>>
                      ELSE IF q[n] \in kept THEN Append(f[n - 1], q[n])
                           ELSE f[n - 1]]
           some == CHOOSE f : f = F(f)
           G == [k \in 1..Len(q) |-> [o \in X |->
                   IF q[k] \in kept THEN Append(o, q[k]) ELSE o]]
<1>1. Len(q) \in Nat /\ \A k \in 1..Len(q) : q[k] \in Range(q)
  BY ListItems
<1>2. G \in [1..Len(q) -> [X -> X]] /\ <<>> \in X
  <2>1. \A k \in 1..Len(q), o \in X : Append(o, q[k]) \in X
    BY <1>1
  <2> HIDE DEF X
  <2>2. G \in [1..Len(q) -> [X -> X]]
    BY <2>1
  <2> QED BY <2>2 DEF X
<1>3. PICK f : Iterates(f, Len(q), X, <<>>, G)
  <2> HIDE DEF G, X
  <2> QED BY <1>1, <1>2, IterationExists
<1> HIDE DEF X
<1>4. f = F(f)
  <2>1. \A k \in 1..Len(q) : f[k - 1] \in X
    <3> HIDE DEF G
    <3> QED BY <1>1, <1>3 DEF Iterates
  <2>2. \A k \in 1..Len(q) :
          f[k] = IF q[k] \in kept THEN Append(f[k - 1], q[k]) ELSE f[k - 1]
    BY <1>3, <2>1 DEF Iterates
  <2> HIDE DEF G
  <2>3. f = [n \in 0..Len(q) |-> f[n]] /\ f[0] = <<>>
    BY <1>1, <1>3 DEF Iterates
  <2>4. \A n \in 0..Len(q) :
          f[n] = IF n = 0 THEN <<>>
                 ELSE IF q[n] \in kept THEN Append(f[n - 1], q[n])
                      ELSE f[n - 1]
    BY <1>1, <2>2, <2>3
  <2> QED BY <2>3, <2>4
<1>5. some = F(some)
  <2> HIDE DEF F
  <2> QED BY <1>4
<1>6. Keep(q, kept) = some[Len(q)]
  BY DEF Keep
<1> DEFINE S == {k \in Nat : k <= Len(q) => some[k] \in X}
<1>7. \A k \in 0..Len(q) :
        some[k] = IF k = 0 THEN <<>>
                  ELSE IF q[k] \in kept THEN Append(some[k - 1], q[k])
                       ELSE some[k - 1]
  <2> HIDE DEF some
  <2> QED BY <1>5
<1> HIDE DEF some, F, G
<1>8. 0 \in S
  BY <1>1, <1>2, <1>7
<1>9. ASSUME NEW k \in Nat, k \in S PROVE k + 1 \in S
  <2>1. SUFFICES ASSUME k + 1 <= Len(q) PROVE some[k + 1] \in X
    OBVIOUS
  <2>2. k + 1 \in 0..Len(q) /\ k + 1 # 0 /\ (k + 1) - 1 = k
        /\ k + 1 \in 1..Len(q) /\ k <= Len(q)
    BY <1>1, <2>1
  <2>3. some[k] \in X /\ q[k + 1] \in Range(q)
    BY <1>1, <1>9, <2>2
  <2>4. some[k + 1] \in {Append(some[k], q[k + 1]), some[k]}
    BY <1>7, <2>2
  <2>5. Append(some[k], q[k + 1]) \in X
    BY <2>3 DEF X
  <2> QED BY <2>3, <2>4, <2>5
<1> HIDE DEF S
<1>10. Len(q) \in S
  BY <1>1, <1>8, <1>9, SetInduction
<1>11. Keep(q, kept) \in X
  BY <1>1, <1>6, <1>10 DEF S
<1> QED BY <1>11, SeqItems DEF X

LEMMA PutItems ==
  ASSUME NEW q, q \in Seq(Range(q)), NEW item, NEW n \in Nat \ {0}
  PROVE  /\ IsList(Put(q, item, n), n)
         /\ Range(Put(q, item, n)) \subseteq Range(q) \union {item}
<1> DEFINE replaced == [i \in DOMAIN q |->
                          IF q[i].id = item.id THEN item ELSE q[i]]
           added == Append(q, item)
<1>1. Len(q) \in Nat /\ DOMAIN q = 1..Len(q)
      /\ \A i \in 1..Len(q) : q[i] \in Range(q)
  BY ListItems
<1>2. /\ replaced \in Seq(Range(replaced))
      /\ Range(replaced) \subseteq Range(q) \union {item}
  <2>1. replaced = [i \in 1..Len(q) |-> replaced[i]]
    BY <1>1
  <2>2. replaced \in Seq(Range(replaced))
    <3> HIDE DEF replaced
    <3> QED BY <1>1, <2>1, ItemsList
  <2>3. \A i \in DOMAIN replaced : replaced[i] \in Range(q) \union {item}
    BY <1>1
  <2> QED BY <2>2, <2>3 DEF Range
<1>3. /\ added \in Seq(Range(added))
      /\ Range(added) = Range(q) \union {item}
  BY AppendedItem
<1>4. Put(q, item, n) \in {LastN(replaced, n), LastN(added, n)}
  BY DEF Put
<1> HIDE DEF replaced, added
<1>5. IsList(LastN(replaced, n), n)
      /\ Range(LastN(replaced, n)) \subseteq Range(replaced)
  BY <1>2, LastNFits
<1>6. IsList(LastN(added, n), n)
      /\ Range(LastN(added, n)) \subseteq Range(added)
  BY <1>3, LastNFits
<1> QED BY <1>2, <1>3, <1>4, <1>5, <1>6

-----------------------------------------------------------------------------
(* The functions of the working state keep what it claims true.            *)

LEMMA TrueIsBacked ==
  ASSUME NEW l, NEW s, IsTrue(l, s)
  PROVE  Backed(l, s)
<1>1. \A t \in Range(s.plan) : t.status = "completed" =>
        /\ t.evidence # {}
        /\ \A id \in t.evidence : Succeeded(l, id, EvidenceKinds, NoRef)
  BY DEF IsTrue, PlanTrue
<1>2. \A c \in Range(s.criteria) : c.status = "passed" =>
        /\ c.evidence # {}
        /\ \A id \in c.evidence :
             IF c.kind = "validation" THEN Succeeded(l, id, {"validate"}, c.ref)
             ELSE Succeeded(l, id, EvidenceKinds, NoRef)
  BY DEF IsTrue, CriteriaTrue, CriterionTrue
<1> QED BY <1>1, <1>2 DEF Backed

LEMMA CreatedIsTrue ==
  ASSUME NEW l
  PROVE  IsTrue(l, CreateState)
<1> DEFINE t == PlanItem(<<"investigate">>, "in_progress", {})
           c == Criterion(<<"analysis">>, "analysis", TRUE, "pending", {},
                          NoRef)
<1>1. \A x : <<x>> \in Seq(Range(<<x>>)) /\ Len(<<x>>) = 1
             /\ Range(<<x>>) = {x}
  BY DEF Range
<1>2. PlanTrue(l, <<t>>)
  <2>1. t.status # "completed"
    BY DEF PlanItem
  <2> HIDE DEF t
  <2> QED BY <1>1, <2>1, WorkingStateAssumption DEF PlanTrue, IsList
<1>3. CriteriaTrue(l, <<c>>)
  <2>1. CriterionTrue(l, c)
    BY DEF Criterion, CriterionTrue, CriterionFields
  <2> HIDE DEF c
  <2> QED BY <1>1, <2>1, WorkingStateAssumption DEF CriteriaTrue, IsList
<1>4. RecentTrue(l, <<>>) /\ InputsTrue(l, <<>>)
  BY WorkingStateAssumption DEF RecentTrue, InputsTrue, IsList, Range
<1>5. /\ CreateState.plan = <<t>> /\ CreateState.criteria = <<c>>
      /\ CreateState.recent = <<>> /\ CreateState.inputs = <<>>
  BY DEF CreateState
<1>6. CreateState = [k \in StateFields |-> CreateState[k]]
  BY DEF CreateState, StateFields
<1> HIDE DEF t, c
<1> QED BY <1>2, <1>3, <1>4, <1>5, <1>6, CreatedIsState DEF IsTrue

(* A record with a true state is read as it was written.                   *)
LEMMA TrueIsNormal ==
  ASSUME NEW l, NEW s, IsTrue(l, s)
  PROVE  FromRecord(s) = s
<1> DEFINE plan == [i \in DOMAIN s.plan |->
                      IF s.plan[i].status = "completed"
                         /\ s.plan[i].evidence = {}
                      THEN [s.plan[i] EXCEPT !.status = "pending"]
                      ELSE s.plan[i]]
           criteria == [i \in DOMAIN s.criteria |->
                          IF s.criteria[i].evidence = {}
                          THEN [s.criteria[i] EXCEPT !.status = "pending"]
                          ELSE s.criteria[i]]
<1>1. plan = s.plan
  <2>1. s.plan = [i \in DOMAIN s.plan |-> s.plan[i]]
    BY ListItems DEF IsTrue, PlanTrue, IsList
  <2>2. \A i \in DOMAIN s.plan :
          ~(s.plan[i].status = "completed" /\ s.plan[i].evidence = {})
    BY DEF IsTrue, PlanTrue, Range
  <2> QED BY <2>1, <2>2
<1>2. criteria = s.criteria
  <2>1. s.criteria = [i \in DOMAIN s.criteria |-> s.criteria[i]]
    BY ListItems DEF IsTrue, CriteriaTrue, IsList
  <2>2. ASSUME NEW i \in DOMAIN s.criteria, s.criteria[i].evidence = {}
        PROVE  [s.criteria[i] EXCEPT !.status = "pending"] = s.criteria[i]
    <3> DEFINE c == s.criteria[i]
    <3>1. CriterionTrue(l, c)
      BY DEF IsTrue, CriteriaTrue, Range
    <3>2. c.status = "pending"
      BY <2>2, <3>1 DEF CriterionTrue
    <3>3. c = [k \in CriterionFields |-> c[k]]
      BY <3>1 DEF CriterionTrue
    <3> HIDE DEF c
    <3>4. [c EXCEPT !.status = "pending"] = c
      BY <3>2, <3>3
    <3> QED BY <3>4 DEF c
  <2>3. \A i \in DOMAIN s.criteria : criteria[i] = s.criteria[i]
    BY <2>2
  <2>4. criteria = [i \in DOMAIN s.criteria |-> criteria[i]]
    OBVIOUS
  <2> HIDE DEF criteria
  <2> QED BY <2>1, <2>3, <2>4
<1>3. LastN(s.plan, MaxPlan) = s.plan
      /\ LastN(s.criteria, MaxCriteria) = s.criteria
      /\ LastN(s.inputs, MaxInputs) = s.inputs
      /\ LastN(s.recent, MaxRecent) = s.recent
  BY DEF IsTrue, PlanTrue, CriteriaTrue, InputsTrue, RecentTrue, IsList, LastN
<1>4. FromRecord(s) =
        [s EXCEPT !.plan = LastN(plan, MaxPlan),
                  !.criteria = LastN(criteria, MaxCriteria),
                  !.inputs = LastN(s.inputs, MaxInputs),
                  !.recent = LastN(s.recent, MaxRecent)]
  BY DEF FromRecord
<1>5. s = [k \in StateFields |-> s[k]]
  BY DEF IsTrue
<1>6. [s EXCEPT !.plan = s.plan, !.criteria = s.criteria,
                !.inputs = s.inputs, !.recent = s.recent] = s
  BY <1>5
<1> HIDE DEF plan, criteria
<1> QED BY <1>1, <1>2, <1>3, <1>4, <1>6

(* What a shorter log shows, a longer one shows.                           *)
LEMMA TrueStays ==
  ASSUME NEW l, LogsEvents(l), NEW e, NEW s, IsTrue(l, s)
  PROVE  IsTrue(Append(l, e), s)
<1> DEFINE m == Append(l, e)
<1>1. DOMAIN l \subseteq DOMAIN m /\ \A i \in DOMAIN l : m[i] = l[i]
  BY AppendGrows DEF LogsEvents
<1> HIDE DEF m
<1>2. \A id, kinds, ref : Succeeded(l, id, kinds, ref) =>
                          Succeeded(m, id, kinds, ref)
  BY <1>1 DEF Succeeded
<1>3. \A o : Shown(l, o) => Shown(m, o)
  BY <1>1 DEF Shown
<1>4. \A r : Given(l, r) => Given(m, r)
  BY <1>1 DEF Given
<1>5. PlanTrue(m, s.plan)
  BY <1>2 DEF IsTrue, PlanTrue
<1>6. CriteriaTrue(m, s.criteria)
  <2>1. \A c : CriterionTrue(l, c) => CriterionTrue(m, c)
    BY <1>2 DEF CriterionTrue
  <2> QED BY <2>1 DEF IsTrue, CriteriaTrue
<1>7. RecentTrue(m, s.recent) /\ InputsTrue(m, s.inputs)
  BY <1>3, <1>4 DEF IsTrue, RecentTrue, InputsTrue
<1> QED BY <1>5, <1>6, <1>7 DEF IsTrue, m

(* Evidence the model may cite succeeded.                                  *)
LEMMA EvidenceSucceeded ==
  ASSUME NEW l, NEW s, IsTrue(l, s), NEW id \in Evidence(s)
  PROVE  Succeeded(l, id, EvidenceKinds, NoRef)
<1>1. PICK o \in Range(s.recent) :
        o.id = id /\ o.status \in SuccessStatuses /\ o.kind \in EvidenceKinds
  BY DEF Evidence
<1>2. Shown(l, o)
  BY <1>1 DEF IsTrue, RecentTrue
<1> QED BY <1>1, <1>2 DEF Shown, Succeeded

LEMMA ValidationSucceeded ==
  ASSUME NEW l, NEW s, IsTrue(l, s), NEW ids, ids \subseteq Evidence(s),
         NEW ref, ValidatesRef(s, ids, ref), NEW id \in ids
  PROVE  Succeeded(l, id, {"validate"}, ref)
<1> DEFINE at == {i \in DOMAIN s.recent : s.recent[i].id = id}
           o == LastObservation(s, id)
<1>1. DOMAIN s.recent = 1..Len(s.recent) /\ Len(s.recent) \in Nat
  BY ListItems DEF IsTrue, RecentTrue, IsList
<1>2. at \subseteq 1..Len(s.recent) /\ at # {}
  BY <1>1 DEF Evidence, Range
<1>3. o = s.recent[Newest(at)]
  BY DEF LastObservation, Newest
<1>4. Newest(at) \in at
  <2> HIDE DEF at
  <2> QED BY <1>1, <1>2, NewestIsLast
<1>5. o \in Range(s.recent) /\ o.id = id
  BY <1>3, <1>4 DEF Range
<1>6. o.kind = "validate" /\ o.status = "completed" /\ o.ref = ref
  BY DEF ValidatesRef
<1> HIDE DEF o, at
<1>7. Shown(l, o)
  BY <1>5, <1>6 DEF IsTrue, RecentTrue, SuccessStatuses
<1> QED BY <1>5, <1>6, <1>7 DEF Shown, Succeeded, SuccessStatuses

LEMMA MergedIsTrue ==
  ASSUME NEW l, NEW s, IsTrue(l, s), NEW u, CriterionUpdateFits(s, u),
         u.kind = "validation" => u.evidence # {}
  PROVE  CriterionTrue(l, MergedCriterion(s, u))
<1> DEFINE known == HasCriterion(s, u.id)
           old == CriterionOf(s, u.id)
           c == MergedCriterion(s, u)
<1> SUFFICES CriterionTrue(l, c)
  OBVIOUS
<1>1. known => CriterionTrue(l, old)
  <2>1. known => old \in Range(s.criteria)
    BY DEF HasCriterion, CriterionOf
  <2> QED BY <2>1 DEF IsTrue, CriteriaTrue
<1>2. /\ c = [k \in CriterionFields |-> c[k]]
      /\ c.kind = u.kind
      /\ c.status = IF u.evidence # {} THEN "passed"
                    ELSE IF known THEN old.status ELSE "pending"
      /\ c.evidence = IF u.evidence # {} THEN u.evidence
                      ELSE IF known THEN old.evidence ELSE {}
      /\ c.ref = IF known THEN old.ref ELSE NoRef
  BY DEF MergedCriterion, Criterion, CriterionFields
<1> HIDE DEF c, known, old
<1>3. CASE u.evidence # {}
  <2>1. \A id \in u.evidence : Succeeded(l, id, EvidenceKinds, NoRef)
    BY EvidenceSucceeded DEF CriterionUpdateFits
  <2>2. ASSUME u.kind = "validation", NEW id \in u.evidence
        PROVE  Succeeded(l, id, {"validate"}, c.ref)
    <3>1. known /\ ValidatesRef(s, u.evidence, old.ref)
          /\ u.evidence \subseteq Evidence(s)
      BY <1>3, <2>2 DEF CriterionUpdateFits, known, old
    <3>2. c.ref = old.ref
      BY <1>2, <3>1
    <3> QED BY <2>2, <3>1, <3>2, ValidationSucceeded
  <2> QED BY <1>2, <1>3, <2>1, <2>2 DEF CriterionTrue
<1>4. CASE u.evidence = {} /\ known
  <2>1. \A id, ref : Succeeded(l, id, {"validate"}, ref) =>
                     Succeeded(l, id, EvidenceKinds, NoRef)
    BY DEF Succeeded, EvidenceKinds
  <2>2. CriterionTrue(l, old) /\ u.kind # "validation"
    BY <1>1, <1>4
  <2>3. old.status = "passed" =>
          \A id \in old.evidence : Succeeded(l, id, EvidenceKinds, NoRef)
    BY <2>1, <2>2 DEF CriterionTrue
  <2>4. c.status = old.status /\ c.evidence = old.evidence
        /\ c.kind # "validation"
    BY <1>2, <1>4, <2>2
  <2>5. old.evidence = {} => old.status = "pending"
    BY <2>2 DEF CriterionTrue
  <2> QED BY <1>2, <2>3, <2>4, <2>5 DEF CriterionTrue
<1>5. CASE u.evidence = {} /\ ~known
  BY <1>2, <1>5 DEF CriterionTrue
<1> QED BY <1>3, <1>4, <1>5

LEMMA UpdatedIsTrue ==
  ASSUME NEW l, NEW s, IsTrue(l, s), NEW u, UpdateFits(s, u), IsUpdate(u)
  PROVE  /\ IsTrue(l, ApplyUpdate(s, u))
         /\ ApplyUpdate(s, u).recent = s.recent
         /\ ApplyUpdate(s, u).inputs = s.inputs
<1> DEFINE plan == ApplyPlan(s, u.plan)
           criteria == ApplyCriteria(s, u.criteria)
<1>1. CASE u = NoUpdate
  BY <1>1 DEF ApplyUpdate
<1>2. CASE u # NoUpdate
  <2>1. PlanTrue(l, plan)
    <3>1. CASE u.plan = {}
      BY <3>1 DEF ApplyPlan, IsTrue
    <3>2. CASE u.plan # {}
      <4> DEFINE x == CHOOSE x \in u.plan : TRUE
                 t == PlanItem(x.id, x.status, x.evidence)
      <4>1. x \in u.plan /\ PlanUpdateFits(s, x)
        BY <1>2, <3>2 DEF UpdateFits
      <4>2. plan = Put(s.plan, t, MaxPlan)
        BY <3>2 DEF ApplyPlan
      <4>3. t.status = x.status /\ t.evidence = x.evidence
        BY DEF PlanItem
      <4> HIDE DEF x, t, plan
      <4>4. t.status = "completed" =>
              /\ t.evidence # {}
              /\ \A id \in t.evidence : Succeeded(l, id, EvidenceKinds, NoRef)
        BY <4>1, <4>3, EvidenceSucceeded DEF PlanUpdateFits
      <4>5. PlanTrue(l, s.plan)
        BY DEF IsTrue
      <4>6. /\ IsList(plan, MaxPlan)
            /\ Range(plan) \subseteq Range(s.plan) \union {t}
        BY <4>2, <4>5, PutItems, WorkingStateAssumption DEF PlanTrue, IsList
      <4> QED BY <4>4, <4>5, <4>6 DEF PlanTrue
    <3> QED BY <3>1, <3>2
  <2>2. CriteriaTrue(l, criteria)
    <3>1. CASE u.criteria = {}
      BY <3>1 DEF ApplyCriteria, IsTrue
    <3>2. CASE u.criteria # {}
      <4> DEFINE x == CHOOSE x \in u.criteria : TRUE
                 c == MergedCriterion(s, x)
      <4>1. /\ CriterionUpdateFits(s, x)
            /\ x.kind = "validation" => x.evidence # {}
        BY <1>2, <3>2 DEF UpdateFits, IsUpdate
      <4>2. criteria = Put(s.criteria, c, MaxCriteria)
        BY <3>2 DEF ApplyCriteria
      <4> HIDE DEF x, criteria
      <4>3. CriterionTrue(l, c)
        BY <4>1, MergedIsTrue
      <4> HIDE DEF c
      <4>4. CriteriaTrue(l, s.criteria)
        BY DEF IsTrue
      <4>5. /\ IsList(criteria, MaxCriteria)
            /\ Range(criteria) \subseteq Range(s.criteria) \union {c}
        BY <4>2, <4>4, PutItems, WorkingStateAssumption
           DEF CriteriaTrue, IsList
      <4> QED BY <4>3, <4>4, <4>5 DEF CriteriaTrue
    <3> QED BY <3>1, <3>2
  <2>3. ApplyUpdate(s, u) = [s EXCEPT !.plan = plan, !.criteria = criteria]
    BY <1>2 DEF ApplyUpdate
  <2> HIDE DEF plan, criteria
  <2> QED BY <2>1, <2>2, <2>3 DEF IsTrue, IsState, StateFields
<1> QED BY <1>1, <1>2

LEMMA AdvancedIsTrue ==
  ASSUME NEW l, NEW s, IsTrue(l, s), NEW u, UpdateFits(s, u), IsUpdate(u),
         NEW a, NEW obs,
         obs.status \in SuccessStatuses =>
           Shown(l, [id |-> a.id, kind |-> a.kind, status |-> obs.status,
                     ref |-> a.ref])
  PROVE  /\ IsTrue(l, Advance(s, a, obs, u))
         /\ Advance(s, a, obs, u).inputs = s.inputs
         /\ [id |-> a.id, kind |-> a.kind, status |-> obs.status,
             ref |-> a.ref] \in Range(Advance(s, a, obs, u).recent)
<1> DEFINE t == ApplyUpdate(s, u)
           o == [id |-> a.id, kind |-> a.kind, status |-> obs.status,
                 ref |-> a.ref]
           after == Outcome(a, obs)
           criteria == AdvanceCriteria(t.criteria, a, obs)
           edits == AdvanceEdits(t.edits, a, obs)
           recent == LastN(Append(s.recent, o), MaxRecent)
           n == s.iteration + 1
<1>1. IsTrue(l, t) /\ t.inputs = s.inputs
  BY UpdatedIsTrue
<1>2. RecentTrue(l, recent) /\ o \in Range(recent)
  <2> DEFINE q == Append(s.recent, o)
  <2>1. /\ q \in Seq(Range(q)) /\ Range(q) = Range(s.recent) \union {o}
        /\ Len(q) = Len(s.recent) + 1 /\ q[Len(s.recent) + 1] = o
        /\ Len(s.recent) \in Nat
    BY AppendedItem, ListItems DEF IsTrue, RecentTrue, IsList
  <2>2. recent = LastN(q, MaxRecent)
    OBVIOUS
  <2> HIDE DEF q, recent
  <2>3. /\ IsList(recent, MaxRecent) /\ Range(recent) \subseteq Range(q)
        /\ q[Len(q)] \in Range(recent)
    BY <2>1, <2>2, LastNFits, WorkingStateAssumption
  <2>4. o.status \in SuccessStatuses => Shown(l, o)
    OBVIOUS
  <2> HIDE DEF o
  <2> QED BY <2>1, <2>3, <2>4 DEF IsTrue, RecentTrue
<1>3. CriteriaTrue(l, criteria)
  <2>1. CASE a.kind # "validate"
    BY <1>1, <2>1 DEF AdvanceCriteria, IsTrue
  <2>2. CASE a.kind = "validate"
    <3> DEFINE q == t.criteria
               status == IF obs.status = "completed" THEN "passed"
                         ELSE "failed"
               item(i) == IF q[i].kind = "validation" /\ q[i].ref = a.ref
                          THEN [q[i] EXCEPT !.status = status,
                                            !.evidence = {a.id}]
                          ELSE q[i]
    <3>1. criteria = [i \in DOMAIN q |-> item(i)]
      BY <2>2 DEF AdvanceCriteria
    <3>2. /\ IsList(q, MaxCriteria) /\ DOMAIN q = 1..Len(q)
          /\ Len(q) \in Nat
          /\ \A i \in DOMAIN q : CriterionTrue(l, q[i])
      BY <1>1, ListItems DEF IsTrue, CriteriaTrue, IsList, Range
    <3>3. ASSUME NEW i \in DOMAIN q PROVE CriterionTrue(l, item(i))
      <4>1. CASE q[i].kind = "validation" /\ q[i].ref = a.ref
        <5> DEFINE c == q[i]
                   d == [c EXCEPT !.status = status, !.evidence = {a.id}]
        <5>1. c = [k \in CriterionFields |-> c[k]]
          BY <3>2 DEF CriterionTrue
        <5>2. d = [k \in CriterionFields |-> d[k]] /\ d.status = status
              /\ d.evidence = {a.id} /\ d.kind = "validation"
              /\ d.ref = a.ref
          <6> HIDE DEF c, status
          <6> QED BY <4>1, <5>1 DEF CriterionFields, c
        <5>3. item(i) = d
          BY <4>1
        <5>4. obs.status = "completed" =>
                Succeeded(l, a.id, {"validate"}, a.ref)
          BY <2>2 DEF SuccessStatuses, Shown, Succeeded
        <5>5. status = "passed" => obs.status = "completed"
          OBVIOUS
        <5> HIDE DEF c, d, item, status
        <5> QED BY <5>2, <5>3, <5>4, <5>5 DEF CriterionTrue
      <4>2. CASE ~(q[i].kind = "validation" /\ q[i].ref = a.ref)
        BY <3>2, <4>2
      <4> QED BY <4>1, <4>2
    <3> HIDE DEF q, item, criteria
    <3>4. criteria = [i \in 1..Len(q) |-> criteria[i]]
      BY <3>1, <3>2
    <3>5. criteria \in Seq(Range(criteria)) /\ Len(criteria) = Len(q)
      BY <3>2, <3>4, ItemsList
    <3>6. \A c \in Range(criteria) : CriterionTrue(l, c)
      BY <3>1, <3>3 DEF Range
    <3> QED BY <3>2, <3>5, <3>6 DEF CriteriaTrue, IsList
  <2> QED BY <2>1, <2>2
<1>4. Advance(s, a, obs, u) =
        [t EXCEPT !.status = after[1], !.stop = after[2], !.iteration = n,
                  !.criteria = criteria, !.edits = edits, !.recent = recent]
  BY DEF Advance
<1>5. n \in Nat
  BY DEF IsTrue, IsState
<1> HIDE DEF t, after, criteria, edits, recent, n, o
<1>6. IsTrue(l, [t EXCEPT !.status = after[1], !.stop = after[2],
                          !.iteration = n, !.criteria = criteria,
                          !.edits = edits, !.recent = recent])
      /\ [t EXCEPT !.status = after[1], !.stop = after[2],
                   !.iteration = n, !.criteria = criteria,
                   !.edits = edits, !.recent = recent].inputs = t.inputs
      /\ [t EXCEPT !.status = after[1], !.stop = after[2],
                   !.iteration = n, !.criteria = criteria,
                   !.edits = edits, !.recent = recent].recent = recent
  BY <1>1, <1>2, <1>3, <1>5 DEF IsTrue, IsState, StateFields
<1> QED BY <1>1, <1>2, <1>4, <1>6 DEF o

LEMMA StoppedIsTrue ==
  ASSUME NEW l, NEW s, IsTrue(l, s), NEW reason
  PROVE  /\ IsTrue(l, Stop(s, reason))
         /\ Stop(s, reason).inputs = s.inputs
         /\ Stop(s, reason).recent = s.recent
<1> PICK status : Stop(s, reason) = [s EXCEPT !.stop = reason,
                                              !.status = status]
  BY DEF Stop
<1> QED BY DEF IsTrue, IsState, StateFields

LEMMA AnsweredIsTrue ==
  ASSUME NEW l, NEW s, IsTrue(l, s), NEW id, NEW answer,
         Given(l, [id |-> id, answer |-> answer])
  PROVE  /\ IsTrue(l, RecordAnswer(s, id, answer))
         /\ [id |-> id, answer |-> answer] \in
              Range(RecordAnswer(s, id, answer).inputs)
<1> DEFINE r == [id |-> id, answer |-> answer]
           kept == Keep(s.inputs, {x \in Range(s.inputs) : x.id # id})
           q == Append(kept, r)
           inputs == LastN(q, MaxInputs)
<1>1. s.inputs \in Seq(Range(s.inputs)) /\ \A x \in Range(s.inputs) : Given(l, x)
  BY DEF IsTrue, InputsTrue, IsList
<1>2. kept \in Seq(Range(kept)) /\ Range(kept) \subseteq Range(s.inputs)
  BY <1>1, KeptItems
<1>3. RecordAnswer(s, id, answer) =
        [s EXCEPT !.status = "running", !.stop = "none", !.inputs = inputs]
  BY DEF RecordAnswer
<1> HIDE DEF kept
<1>4. /\ q \in Seq(Range(q)) /\ Range(q) = Range(kept) \union {r}
      /\ Len(kept) \in Nat /\ Len(q) = Len(kept) + 1
      /\ q[Len(kept) + 1] = r
  BY <1>2, AppendedItem, ListItems
<1> HIDE DEF q
<1>5. /\ IsList(inputs, MaxInputs) /\ Range(inputs) \subseteq Range(q)
      /\ r \in Range(inputs)
  BY <1>4, LastNFits, WorkingStateAssumption
<1> HIDE DEF inputs, r
<1>6. InputsTrue(l, inputs)
  BY <1>1, <1>2, <1>4, <1>5 DEF InputsTrue, r
<1>7. IsTrue(l, [s EXCEPT !.status = "running", !.stop = "none",
                          !.inputs = inputs])
      /\ [s EXCEPT !.status = "running", !.stop = "none",
                   !.inputs = inputs].inputs = inputs
  BY <1>6 DEF IsTrue, IsState, StateFields
<1> QED BY <1>3, <1>5, <1>7 DEF r

LEMMA PostWriteIsTrue ==
  ASSUME NEW l, NEW s, IsTrue(l, s), NEW id, NEW changed,
         Succeeded(l, id, EvidenceKinds, NoRef),
         NEW commands, commands \in Seq(Range(commands))
  PROVE  /\ IsTrue(l, PostWrite(s, id, changed, commands))
         /\ PostWrite(s, id, changed, commands).inputs = s.inputs
         /\ PostWrite(s, id, changed, commands).recent = s.recent
<1> DEFINE kept == Keep(s.criteria, {c \in Range(s.criteria) : ~Generated(c)})
           change == Criterion(<<"task_change">>, "change", TRUE,
                               IF changed THEN "passed" ELSE "failed", {id},
                               NoRef)
           scoped == Criterion(<<"approval_scope">>, "safety", TRUE, "passed",
                               {id}, NoRef)
           scope == <<change, scoped>>
           check(i) == Criterion(<<"validation", i>>, "validation", TRUE,
                                 "pending", {}, commands[i])
           checks == [i \in DOMAIN commands |-> check(i)]
           hand == Criterion(<<"manual_validation">>, "manual", FALSE,
                             "pending", {}, NoRef)
           manual == IF commands # <<>> THEN <<>> ELSE <<hand>>
           all == kept \o scope \o checks \o manual
           criteria == LastN(all, MaxCriteria)
<1>1. PostWrite(s, id, changed, commands) = [s EXCEPT !.criteria = criteria]
  BY DEF PostWrite
<1>2. CriterionTrue(l, change) /\ CriterionTrue(l, scoped)
  BY DEF CriterionTrue, Criterion, CriterionFields
<1>3. \A i \in DOMAIN commands : CriterionTrue(l, check(i))
  BY DEF CriterionTrue, Criterion, CriterionFields
<1>4. CriterionTrue(l, hand)
  BY DEF CriterionTrue, Criterion, CriterionFields
<1> HIDE DEF change, scoped, check, hand
<1>5. kept \in Seq(Range(kept)) /\ \A c \in Range(kept) : CriterionTrue(l, c)
  <2>1. s.criteria \in Seq(Range(s.criteria))
        /\ \A c \in Range(s.criteria) : CriterionTrue(l, c)
    BY DEF IsTrue, CriteriaTrue, IsList
  <2> QED BY <2>1, KeptItems
<1>6. scope \in Seq(Range(scope)) /\ \A c \in Range(scope) : CriterionTrue(l, c)
  <2>1. scope \in Seq({change, scoped})
    OBVIOUS
  <2> HIDE DEF scope
  <2> QED BY <1>2, <2>1, SeqItems
<1>7. checks \in Seq(Range(checks))
      /\ \A c \in Range(checks) : CriterionTrue(l, c)
  <2>1. Len(commands) \in Nat /\ checks = [i \in 1..Len(commands) |-> checks[i]]
    BY ListItems
  <2>2. checks \in Seq(Range(checks))
    <3> HIDE DEF checks
    <3> QED BY <2>1, ItemsList
  <2> QED BY <1>3, <2>2 DEF Range
<1>8. manual \in Seq(Range(manual))
      /\ \A c \in Range(manual) : CriterionTrue(l, c)
  <2>1. manual \in Seq({hand})
    <3>1. CASE commands = <<>>
      BY <3>1
    <3>2. CASE commands # <<>>
      BY <3>2
    <3> QED BY <3>1, <3>2
  <2> HIDE DEF manual
  <2> QED BY <1>4, <2>1, SeqItems
<1> HIDE DEF kept, scope, checks, manual
<1>9. kept \o scope \in Seq(Range(kept \o scope))
      /\ \A c \in Range(kept \o scope) : CriterionTrue(l, c)
  BY <1>5, <1>6, JoinedItems
<1> DEFINE two == kept \o scope
<1> HIDE DEF two
<1>10. two \o checks \in Seq(Range(two \o checks))
       /\ \A c \in Range(two \o checks) : CriterionTrue(l, c)
  BY <1>7, <1>9, JoinedItems DEF two
<1> DEFINE three == two \o checks
<1> HIDE DEF three
<1>11. three \o manual \in Seq(Range(three \o manual))
       /\ \A c \in Range(three \o manual) : CriterionTrue(l, c)
  BY <1>8, <1>10, JoinedItems DEF three
<1>12. all = three \o manual
  BY DEF two, three
<1> HIDE DEF all
<1>13. IsList(criteria, MaxCriteria) /\ Range(criteria) \subseteq Range(all)
  BY <1>11, <1>12, LastNFits, WorkingStateAssumption
<1> HIDE DEF criteria
<1>14. CriteriaTrue(l, criteria)
  BY <1>11, <1>12, <1>13 DEF CriteriaTrue
<1>15. IsTrue(l, [s EXCEPT !.criteria = criteria])
       /\ [s EXCEPT !.criteria = criteria].inputs = s.inputs
       /\ [s EXCEPT !.criteria = criteria].recent = s.recent
  BY <1>14 DEF IsTrue, IsState, StateFields
<1> QED BY <1>1, <1>15

-----------------------------------------------------------------------------
(* How an event changes what a log shows.                                  *)

LEMMA SnapshotIsLast ==
  ASSUME NEW l, LogsEvents(l), SnapshotsOK(l)
  PROVE  /\ SnapshotAt(l) \in 0..Len(l)
         /\ SnapshotAt(l) # 0 =>
              /\ SnapshotAt(l) \in DOMAIN l
              /\ l[SnapshotAt(l)].type = "working_state_updated"
<1> DEFINE at == {i \in DOMAIN l : l[i].type = "working_state_updated"}
<1>1. SnapshotAt(l) \in 0..Len(l) /\ Len(l) \in Nat /\ DOMAIN l = 1..Len(l)
  BY LatestIsState, LogIsCharged
<1>2. CASE at = {}
  BY <1>1, <1>2 DEF SnapshotAt
<1>3. CASE at # {}
  <2>1. at \subseteq 1..Len(l)
    BY <1>1
  <2>2. SnapshotAt(l) = Newest(at)
    BY <1>3 DEF SnapshotAt
  <2> HIDE DEF at
  <2>3. SnapshotAt(l) \in at
    BY <1>1, <1>3, <2>1, <2>2, NewestIsLast
  <2> QED BY <1>1, <2>3 DEF at
<1> QED BY <1>2, <1>3

LEMMA LatestIsTrue ==
  ASSUME NEW l, LogsEvents(l), SnapshotsOK(l), StatesTrue(l)
  PROVE  IsTrue(l, LatestState(l))
<1> DEFINE s == l[SnapshotAt(l)].state
<1>1. CASE SnapshotAt(l) = 0
  BY <1>1, CreatedIsTrue DEF LatestState
<1>2. CASE SnapshotAt(l) # 0
  <2>1. IsTrue(l, s)
    BY <1>2, SnapshotIsLast DEF StatesTrue
  <2>2. LatestState(l) = FromRecord(s)
    BY <1>2 DEF LatestState
  <2> HIDE DEF s
  <2> QED BY <2>1, <2>2, TrueIsNormal
<1> QED BY <1>1, <1>2

(* What the invariant of a log asks of an event that may be logged.        *)
TrueEvent(l, e) ==
  /\ e.type # "working_state_updated"
  /\ e.type \in Learnt => e.action # NoAction
  /\ e.type \in WaitingTypes => e.obs.status \notin SuccessStatuses
  /\ e.type = "decision_recorded" => IsUpdate(e.update)
  /\ e.type = "input_received" =>
       \A j \in DOMAIN l :
         l[j].type = "input_received" => l[j].action.id # e.action.id

LEMMA LearntGrows ==
  ASSUME NEW l, LogsEvents(l), LearntOK(l), NEW e,
         e.type \in Learnt => e.action # NoAction,
         e.type \in WaitingTypes => e.obs.status \notin SuccessStatuses,
         e.type = "decision_recorded" => IsUpdate(e.update),
         e.type = "input_received" =>
           \A j \in DOMAIN l :
             l[j].type = "input_received" => l[j].action.id # e.action.id
  PROVE  LearntOK(Append(l, e))
<1> DEFINE m == Append(l, e)
           n == Len(l)
<1>1. /\ n \in Nat /\ DOMAIN l = 1..n /\ DOMAIN m = 1..(n + 1)
      /\ \A i \in 1..n : m[i] = l[i]
      /\ m[n + 1] = e
  BY AppendGrows DEF LogsEvents
<1> HIDE DEF m, n
<1>2. ASSUME NEW i \in DOMAIN m
      PROVE  /\ m[i].type \in Learnt => m[i].action # NoAction
             /\ m[i].type \in WaitingTypes =>
                  m[i].obs.status \notin SuccessStatuses
             /\ m[i].type = "decision_recorded" => IsUpdate(m[i].update)
  <2>1. CASE i = n + 1
    BY <1>1, <2>1
  <2>2. CASE i # n + 1
    <3>1. i \in DOMAIN l /\ m[i] = l[i]
      BY <1>1, <2>2
    <3> QED BY <3>1 DEF LearntOK
  <2> QED BY <2>1, <2>2
<1>3. ASSUME NEW i \in DOMAIN m, NEW j \in DOMAIN m,
             m[i].type = "input_received", m[j].type = "input_received",
             m[i].action.id = m[j].action.id
      PROVE  i = j
  <2>1. CASE i = n + 1 /\ j # n + 1
    <3>1. j \in DOMAIN l /\ m[j] = l[j]
      BY <1>1, <2>1
    <3> QED BY <1>1, <1>3, <2>1, <3>1
  <2>2. CASE j = n + 1 /\ i # n + 1
    <3>1. i \in DOMAIN l /\ m[i] = l[i]
      BY <1>1, <2>2
    <3> QED BY <1>1, <1>3, <2>2, <3>1
  <2>3. CASE i # n + 1 /\ j # n + 1
    <3>1. i \in DOMAIN l /\ m[i] = l[i] /\ j \in DOMAIN l /\ m[j] = l[j]
      BY <1>1, <2>3
    <3> QED BY <1>3, <3>1 DEF LearntOK
  <2> QED BY <2>1, <2>2, <2>3
<1> HIDE DEF m
<1>4. LearntOK(m)
  BY <1>2, <1>3 DEF LearntOK
<1> QED BY <1>4 DEF m

LEMMA StatesGrow ==
  ASSUME NEW l, LogsEvents(l), StatesTrue(l), NEW e,
         e.type = "working_state_updated" => IsTrue(l, e.state)
  PROVE  StatesTrue(Append(l, e))
<1> DEFINE m == Append(l, e)
           n == Len(l)
<1>1. /\ n \in Nat /\ DOMAIN l = 1..n /\ DOMAIN m = 1..(n + 1)
      /\ \A i \in 1..n : m[i] = l[i]
      /\ m[n + 1] = e
  BY AppendGrows DEF LogsEvents
<1>2. \A s : IsTrue(l, s) => IsTrue(m, s)
  BY TrueStays
<1> HIDE DEF m, n
<1>3. ASSUME NEW i \in DOMAIN m, m[i].type = "working_state_updated"
      PROVE  IsTrue(m, m[i].state)
  <2>1. CASE i = n + 1
    BY <1>1, <1>2, <1>3, <2>1
  <2>2. CASE i # n + 1
    <3>1. i \in DOMAIN l /\ m[i] = l[i]
      BY <1>1, <2>2
    <3> QED BY <1>2, <1>3, <3>1 DEF StatesTrue
  <2> QED BY <2>1, <2>2
<1> HIDE DEF m
<1>4. StatesTrue(m)
  BY <1>3 DEF StatesTrue
<1> QED BY <1>4 DEF m

(* A logged event keeps the invariant of the log; a state has to learn it  *)
(* if it is an observation or an answer.                                   *)
LEMMA TrueLogGrows ==
  ASSUME NEW l, LogsEvents(l), SnapshotsOK(l), TrueLog(l),
         NEW e, TrueEvent(l, e)
  PROVE  LET m == Append(l, e)
         IN  /\ TrueLog(m) /\ LatestState(m) = LatestState(l)
             /\ SnapshotAt(m) = SnapshotAt(l)
             /\ Late(m) = Late(l) \union
                            (IF e.type \in Learnt THEN {Len(l) + 1} ELSE {})
             /\ \A s : IsTrue(l, s) => IsTrue(m, s)
<1> DEFINE m == Append(l, e)
           n == Len(l)
<1>1. /\ n \in Nat /\ DOMAIN l = 1..n /\ DOMAIN m = 1..(n + 1)
      /\ Len(m) = n + 1
      /\ \A i \in 1..n : m[i] = l[i]
      /\ m[n + 1] = e
  BY AppendGrows DEF LogsEvents
<1>2. SnapshotAt(m) = SnapshotAt(l) /\ LatestState(m) = LatestState(l)
      /\ SnapshotAt(l) \in 0..n
  BY SnapshotKept, LatestIsState DEF TrueEvent
<1>3. LearntOK(m)
  BY LearntGrows DEF TrueLog, TrueEvent
<1>4. StatesTrue(m)
  BY StatesGrow DEF TrueLog, TrueEvent
<1>5. \A s : IsTrue(l, s) => IsTrue(m, s)
  BY TrueStays
<1> HIDE DEF m, n
<1>6. HasAnswer(m, SnapshotAt(m), LatestState(m))
  <2> DEFINE p == SnapshotAt(l)
             s == LatestState(l)
  <2>1. HasAnswer(l, p, s) /\ p \in 0..n
    BY <1>2 DEF TrueLog
  <2> HIDE DEF p, s
  <2>2. \A i \in DOMAIN m : i <= p => i \in DOMAIN l /\ m[i] = l[i]
    BY <1>1, <2>1
  <2>3. \A i \in DOMAIN l : i \in DOMAIN m /\ m[i] = l[i]
    BY <1>1
  <2>4. HasAnswer(m, p, s)
    BY <2>1, <2>2, <2>3 DEF HasAnswer
  <2> QED BY <1>2, <2>4 DEF p, s
<1>7. Late(m) = Late(l) \union (IF e.type \in Learnt THEN {n + 1} ELSE {})
  <2> DEFINE p == SnapshotAt(l)
  <2>1. p \in 0..n
    BY <1>2
  <2>2. Late(m) = {i \in p + 1 .. n + 1 : m[i].type \in Learnt}
    BY <1>1, <1>2 DEF Late
  <2>3. Late(l) = {i \in p + 1 .. n : l[i].type \in Learnt}
    BY DEF Late, n
  <2> HIDE DEF p
  <2> QED BY <1>1, <2>1, <2>2, <2>3
<1> QED BY <1>2, <1>3, <1>4, <1>5, <1>6, <1>7 DEF TrueLog, m, n

(* A recorded state leaves nothing to learn.                               *)
LEMMA TrueLogRecords ==
  ASSUME NEW l, LogsEvents(l), SnapshotsOK(l), TrueLog(l),
         NEW s, IsTrue(l, s), HasAnswer(l, Len(l), s)
  PROVE  LET m == Append(l, Snapshot(s))
         IN  /\ TrueLog(m) /\ LatestState(m) = s /\ Late(m) = {}
             /\ IsTrue(m, s)
<1> DEFINE e == Snapshot(s)
           m == Append(l, e)
           n == Len(l)
<1>1. e.type = "working_state_updated" /\ e.state = s
  BY EventFields
<1> HIDE DEF e
<1>2. /\ n \in Nat /\ DOMAIN l = 1..n /\ DOMAIN m = 1..(n + 1)
      /\ Len(m) = n + 1
      /\ \A i \in 1..n : m[i] = l[i]
      /\ m[n + 1] = e
  BY AppendGrows DEF LogsEvents
<1>3. IsTrue(m, s)
  BY TrueStays
<1>4. SnapshotAt(m) = n + 1
  BY SnapshotTaken DEF IsTrue, e
<1>5. LearntOK(m)
  BY <1>1, LearntGrows DEF TrueLog, Learnt, Observations, TerminalTypes,
                          WaitingTypes
<1>6. StatesTrue(m)
  BY <1>1, StatesGrow DEF TrueLog
<1> HIDE DEF m, n
<1>7. LatestState(m) = s
  <2>1. LatestState(m) = FromRecord(s)
    BY <1>1, <1>2, <1>4 DEF LatestState
  <2> QED BY <1>3, <2>1, TrueIsNormal
<1>8. Late(m) = {}
  BY <1>2, <1>4 DEF Late
<1>9. HasAnswer(m, n + 1, s)
  <2>1. HasAnswer(l, n, s)
    BY DEF n
  <2>2. \A i \in DOMAIN m : m[i].type = "input_received" =>
          i \in DOMAIN l /\ m[i] = l[i]
    BY <1>1, <1>2
  <2>3. \A i \in DOMAIN l : i \in DOMAIN m /\ m[i] = l[i] /\ i <= n
                            /\ i <= n + 1
    BY <1>2
  <2> QED BY <2>1, <2>2, <2>3 DEF HasAnswer
<1> QED BY <1>3, <1>4, <1>5, <1>6, <1>7, <1>8, <1>9 DEF TrueLog, m, e

(* A state with the inputs of the last snapshot has the newest answer, if  *)
(* no answer came since.                                                   *)
LEMMA AnswerKept ==
  ASSUME NEW l, LogsEvents(l), SnapshotsOK(l), TrueLog(l),
         \A i \in Late(l) : l[i].type # "input_received",
         NEW s, s.inputs = LatestState(l).inputs
  PROVE  HasAnswer(l, Len(l), s)
<1> DEFINE p == SnapshotAt(l)
           n == Len(l)
<1>1. n \in Nat /\ DOMAIN l = 1..n /\ p \in 0..n
  BY LogIsCharged, LatestIsState
<1>2. \A i \in DOMAIN l : l[i].type = "input_received" => i <= p
  <2>1. ASSUME NEW i \in DOMAIN l, l[i].type = "input_received", ~(i <= p)
        PROVE  FALSE
    <3>1. i \in p + 1 .. n
      BY <1>1, <2>1
    <3>2. i \in Late(l)
      BY <2>1, <3>1 DEF Late, Learnt
    <3> QED BY <2>1, <3>2
  <2> QED BY <2>1
<1>3. HasAnswer(l, p, LatestState(l))
  BY DEF TrueLog
<1> HIDE DEF p, n
<1>4. \A i \in DOMAIN l : i <= n
  BY <1>1
<1>5. HasAnswer(l, n, s)
  BY <1>2, <1>3, <1>4 DEF HasAnswer
<1> QED BY <1>5 DEF n

-----------------------------------------------------------------------------
(* What recovery rebuilds.                                                 *)

(* Every answer, and with every observation some event of its action, is   *)
(* unseen until a snapshot follows it.                                     *)
LEMMA LateIsUnseen ==
  ASSUME NEW l, LogsEvents(l), SnapshotsOK(l), LearntOK(l)
  PROVE  /\ Unseen(l) \subseteq Late(l)
         /\ \A i \in Late(l) : l[i].type = "input_received" => i \in Unseen(l)
         /\ Unseen(l) = {} => Late(l) = {}
<1> DEFINE p == SnapshotAt(l)
           n == Len(l)
<1>1. n \in Nat /\ DOMAIN l = 1..n /\ p \in 0..n
  BY LogIsCharged, LatestIsState
<1>2. Unseen(l) \subseteq Late(l)
  BY DEF Unseen, Late, Learnt, Observations, ObservedAt, Of
<1>3. ASSUME NEW i \in Late(l), l[i].type = "input_received"
      PROVE  i \in Unseen(l)
  <2> DEFINE id == l[i].action.id
             at == Of(l, id, {"input_received"})
  <2>1. i \in p + 1 .. n /\ i \in DOMAIN l /\ l[i].action # NoAction
    BY <1>1, <1>3 DEF Late, LearntOK
  <2>2. at = {i}
    BY <1>3, <2>1 DEF Of, LearntOK
  <2>3. Newest({i}) = i
    <3>1. \A x \in {i} : x = i
      OBVIOUS
    <3>2. i <= i
      BY <1>1, <2>1
    <3> QED BY <3>1, <3>2 DEF Newest
  <2>4. i = At(l, id, {"input_received"})
    <3> HIDE DEF at
    <3>1. At(l, id, {"input_received"}) = Newest(at)
      BY DEF At, at
    <3> QED BY <2>2, <2>3, <3>1
  <2> QED BY <1>3, <2>1, <2>4 DEF Unseen
<1>4. ASSUME NEW i \in Late(l), Unseen(l) = {} PROVE FALSE
  <2>1. /\ i \in DOMAIN l /\ i > p /\ l[i].action # NoAction
        /\ l[i].type \in Observations \/ l[i].type = "input_received"
    BY <1>1 DEF Late, LearntOK, Learnt
  <2>2. CASE l[i].type = "input_received"
    BY <1>3, <1>4, <2>2
  <2>3. CASE l[i].type \in Observations
    BY <1>4, <2>1, <2>3, ObservationIsUnseen
  <2> QED BY <2>1, <2>2, <2>3
<1> QED BY <1>2, <1>3, <1>4

LEMMA FoldedFits ==
  ASSUME NEW l, LogsEvents(l), LearntOK(l), NEW s, NEW i
  PROVE  /\ UpdateFits(s, FoldedUpdate(l, s, i))
         /\ IsUpdate(FoldedUpdate(l, s, i))
<1> DEFINE id == l[i].action.id
           at == At(l, id, {"decision_recorded"})
           u == l[at].update
<1>1. UpdateFits(s, NoUpdate) /\ IsUpdate(NoUpdate)
  BY DEF UpdateFits, IsUpdate
<1>2. Has(l, id, {"decision_recorded"}) => IsUpdate(u)
  <2>1. SUFFICES ASSUME Has(l, id, {"decision_recorded"}) PROVE IsUpdate(u)
    OBVIOUS
  <2> DEFINE found == Of(l, id, {"decision_recorded"})
  <2>2. found \subseteq 1..Len(l) /\ Len(l) \in Nat /\ DOMAIN l = 1..Len(l)
    BY LogIsCharged DEF Of
  <2>3. found # {} /\ at = Newest(found)
    BY <2>1 DEF Has, At
  <2> HIDE DEF found, at
  <2>4. at \in found
    BY <2>2, <2>3, NewestIsLast
  <2>5. at \in DOMAIN l /\ l[at].type = "decision_recorded"
    BY <2>4 DEF found, Of
  <2> QED BY <2>5 DEF LearntOK
<1>3. \/ FoldedUpdate(l, s, i) = NoUpdate
      \/ /\ Has(l, id, {"decision_recorded"})
         /\ FoldedUpdate(l, s, i) = u /\ UpdateFits(s, u)
  BY DEF FoldedUpdate
<1> HIDE DEF id, at, u
<1> QED BY <1>1, <1>2, <1>3

LEMMA FoldIsTrue ==
  ASSUME NEW l, LogsEvents(l), SnapshotsOK(l), LearntOK(l),
         NEW s, IsTrue(l, s), NEW i \in Unseen(l)
  PROVE  /\ IsTrue(l, Fold(l, s, i))
         /\ l[i].type # "input_received" => Fold(l, s, i).inputs = s.inputs
         /\ l[i].type = "input_received" =>
              \E r \in Range(Fold(l, s, i).inputs) :
                r.id = l[i].action.id /\ r.answer = l[i].answer
<1> DEFINE a == l[i].action
           obs == l[i].obs
           answer == l[i].answer
<1>1. i \in DOMAIN l /\ l[i].type \in Learnt
  <2>1. i \in Late(l)
    BY LateIsUnseen
  <2>2. Len(l) \in Nat /\ DOMAIN l = 1..Len(l) /\ SnapshotAt(l) \in 0..Len(l)
    BY LogIsCharged, LatestIsState
  <2> QED BY <2>1, <2>2 DEF Late
<1>2. CASE l[i].type # "input_received"
  <2> DEFINE u == FoldedUpdate(l, s, i)
             o == [id |-> a.id, kind |-> a.kind, status |-> obs.status,
                   ref |-> a.ref]
  <2>1. UpdateFits(s, u) /\ IsUpdate(u)
    BY FoldedFits
  <2>2. obs.status \in SuccessStatuses => Shown(l, o)
    <3>1. SUFFICES ASSUME obs.status \in SuccessStatuses PROVE Shown(l, o)
      OBVIOUS
    <3>2. l[i].type \in TerminalTypes
      BY <1>1, <1>2, <3>1 DEF Learnt, Observations, LearntOK
    <3> QED BY <1>1, <3>2 DEF Shown
  <2>3. Fold(l, s, i) = Advance(s, a, obs, u)
    BY <1>2 DEF Fold
  <2> HIDE DEF a, obs, u
  <2>4. /\ IsTrue(l, Advance(s, a, obs, u))
        /\ Advance(s, a, obs, u).inputs = s.inputs
    BY <2>1, <2>2, AdvancedIsTrue
  <2> QED BY <1>2, <2>3, <2>4
<1>3. CASE l[i].type = "input_received"
  <2> DEFINE r == [id |-> a.id, answer |-> answer]
  <2>1. Given(l, r)
    BY <1>1, <1>3 DEF Given
  <2>2. AnswerFits(s, a.id, answer)
    <3>1. ASSUME NEW x \in Range(s.inputs), x.id = a.id
          PROVE  x.answer = answer
      <4>1. PICK j \in DOMAIN l :
              /\ l[j].type = "input_received"
              /\ l[j].action.id = x.id /\ l[j].answer = x.answer
        BY DEF IsTrue, InputsTrue, Given
      <4>2. j = i
        BY <1>1, <1>3, <3>1, <4>1 DEF LearntOK
      <4> QED BY <4>1, <4>2
    <3> QED BY <3>1 DEF AnswerFits
  <2>3. Fold(l, s, i) = RecordAnswer(s, a.id, answer)
    BY <1>3, <2>2 DEF Fold
  <2> DEFINE id == a.id
  <2> HIDE DEF a, answer, id
  <2>4. /\ IsTrue(l, RecordAnswer(s, id, answer))
        /\ [id |-> id, answer |-> answer] \in
             Range(RecordAnswer(s, id, answer).inputs)
    BY <2>1, AnsweredIsTrue DEF id
  <2>5. [id |-> id, answer |-> answer].id = id
        /\ [id |-> id, answer |-> answer].answer = answer
    OBVIOUS
  <2>6. \E x \in Range(RecordAnswer(s, id, answer).inputs) :
          x.id = id /\ x.answer = answer
    BY <2>4, <2>5
  <2> QED BY <1>3, <2>3, <2>4, <2>6 DEF a, answer, id
<1> QED BY <1>2, <1>3

(* The rebuilt state claims what the log shows, and has its newest answer. *)
LEMMA RebuiltIsTrue ==
  ASSUME NEW l, LogsEvents(l), SnapshotsOK(l), TrueLog(l)
  PROVE  IsTrue(l, Rebuilt(l)) /\ HasAnswer(l, Len(l), Rebuilt(l))
<1> DEFINE from == SnapshotAt(l)
<1>1. /\ Len(l) \in Nat /\ DOMAIN l = 1..Len(l) /\ from \in 0..Len(l)
      /\ LearntOK(l) /\ StatesTrue(l) /\ HasAnswer(l, from, LatestState(l))
      /\ IsTrue(l, LatestState(l))
  BY LogIsCharged, LatestIsState, LatestIsTrue DEF TrueLog
<1>2. PICK f : Rebuilds(f, l) /\ Rebuilt(l) = f[Len(l)]
  BY RebuiltBySteps
<1> DEFINE Q(n) == IsTrue(l, f[n]) /\ HasAnswer(l, n, f[n])
           S == {k \in Nat : from + k <= Len(l) => Q(from + k)}
<1>3. f[from] = LatestState(l)
      /\ \A n \in from + 1 .. Len(l) :
           f[n] = IF n \in Unseen(l) THEN Fold(l, f[n - 1], n) ELSE f[n - 1]
  BY <1>2 DEF Rebuilds
<1>4. \A n \in from + 1 .. Len(l) :
        l[n].type = "input_received" => n \in Unseen(l)
  BY <1>1, LateIsUnseen DEF Late, Learnt
<1> HIDE DEF from
<1>5. 0 \in S
  <2>1. from + 0 = from
    BY <1>1
  <2> QED BY <1>1, <1>3, <2>1
<1>6. ASSUME NEW k \in Nat, k \in S PROVE k + 1 \in S
  <2> DEFINE n == from + k
             p == from + (k + 1)
  <2>1. SUFFICES ASSUME p <= Len(l) PROVE Q(p)
    OBVIOUS
  <2>2. /\ n \in Nat /\ p \in Nat /\ p = n + 1 /\ p - 1 = n
        /\ n <= Len(l) /\ p \in from + 1 .. Len(l) /\ p \in DOMAIN l
    BY <1>1, <2>1
  <2>3. Q(n)
    BY <1>6, <2>2
  <2>4. f[p] = IF p \in Unseen(l) THEN Fold(l, f[n], p) ELSE f[n]
    BY <1>3, <2>2
  <2>5. p \notin Unseen(l) => l[p].type # "input_received"
    BY <1>4, <2>2
  <2> HIDE DEF n, p
  <2>6. \A j \in DOMAIN l : j <= p => j <= n \/ j = p
    BY <1>1, <2>2
  <2>7. \A j \in DOMAIN l : j <= n => j <= p
    BY <1>1, <2>2
  <2> DEFINE s == f[n]
             t == f[p]
  <2>8. IsTrue(l, s) /\ HasAnswer(l, n, s)
        /\ t = IF p \in Unseen(l) THEN Fold(l, s, p) ELSE s
    BY <2>3, <2>4
  <2> HIDE DEF s, t
  <2>9. IsTrue(l, t)
    BY <1>1, <2>8, FoldIsTrue
  <2>10. l[p].type # "input_received" => t.inputs = s.inputs
    BY <1>1, <2>8, FoldIsTrue
  <2>11. l[p].type = "input_received" =>
           \E r \in Range(t.inputs) :
             r.id = l[p].action.id /\ r.answer = l[p].answer
    BY <1>1, <2>5, <2>8, FoldIsTrue
  <2>12. HasAnswer(l, p, t)
    <3>1. CASE l[p].type = "input_received"
      <4>1. ASSUME NEW i \in DOMAIN l, l[i].type = "input_received", i <= p,
                   \A j \in DOMAIN l :
                     (l[j].type = "input_received" /\ j <= p) => j <= i
            PROVE  \E r \in Range(t.inputs) :
                     r.id = l[i].action.id /\ r.answer = l[i].answer
        <5>1. p <= i
          BY <1>1, <2>2, <3>1, <4>1
        <5>2. i = p
          BY <1>1, <2>2, <4>1, <5>1
        <5> QED BY <2>11, <3>1, <5>2
      <4> QED BY <4>1 DEF HasAnswer
    <3>2. CASE l[p].type # "input_received"
      <4>1. \A j \in DOMAIN l : l[j].type = "input_received" =>
              (j <= p <=> j <= n)
        BY <2>6, <2>7, <3>2
      <4>2. t.inputs = s.inputs
        BY <2>10, <3>2
      <4> QED BY <2>8, <4>1, <4>2 DEF HasAnswer
    <3> QED BY <3>1, <3>2
  <2> QED BY <2>9, <2>12 DEF t
<1> HIDE DEF S
<1> DEFINE d == Len(l) - from
<1>7. d \in Nat /\ from + d = Len(l)
  BY <1>1
<1> HIDE DEF d
<1>8. d \in S
  BY <1>5, <1>6, <1>7, SetInduction
<1>9. Q(Len(l))
  BY <1>7, <1>8 DEF S
<1> QED BY <1>2, <1>9

(* When a state is recorded for what the last snapshot misses, it is the   *)
(* state of the new last snapshot.                                         *)
LEMMA PersistIsTrue ==
  ASSUME NEW l, LogsEvents(l), SnapshotsOK(l), TrueLog(l), NEW m,
         m = IF Unseen(l) = {} THEN l ELSE Append(l, Snapshot(Rebuilt(l)))
  PROVE  /\ TrueLog(m) /\ Late(m) = {} /\ LatestState(m) = Rebuilt(l)
         /\ IsTrue(m, Rebuilt(l))
<1>1. IsTrue(l, Rebuilt(l)) /\ HasAnswer(l, Len(l), Rebuilt(l))
  BY RebuiltIsTrue
<1>2. CASE Unseen(l) = {}
  <2>1. Late(l) = {} /\ Rebuilt(l) = LatestState(l)
    BY <1>2, LateIsUnseen, RebuiltCounts DEF TrueLog
  <2> QED BY <1>1, <1>2, <2>1
<1>3. CASE Unseen(l) # {}
  <2> DEFINE s == Rebuilt(l)
  <2>1. m = Append(l, Snapshot(s)) /\ IsTrue(l, s) /\ HasAnswer(l, Len(l), s)
    BY <1>1, <1>3
  <2> HIDE DEF s
  <2>2. /\ TrueLog(m) /\ LatestState(m) = s /\ Late(m) = {}
        /\ IsTrue(m, s)
    BY <2>1, TrueLogRecords
  <2> QED BY <2>2 DEF s
<1> QED BY <1>2, <1>3

(* With one observation since the snapshot, recovery advances the state of *)
(* the snapshot by it.                                                     *)
LEMMA RebuiltOfOne ==
  ASSUME NEW l, LogsEvents(l), SnapshotsOK(l), LearntOK(l),
         NEW n, n = Len(l), n \in DOMAIN l, l[n].type \in Observations,
         Late(l) \subseteq {n}
  PROVE  Rebuilt(l) = Advance(LatestState(l), l[n].action, l[n].obs,
                              FoldedUpdate(l, LatestState(l), n))
<1> DEFINE from == SnapshotAt(l)
           s == LatestState(l)
<1>1. Len(l) \in Nat /\ DOMAIN l = 1..Len(l) /\ from \in 0..Len(l)
  BY LogIsCharged, LatestIsState
<1>2. l[n].type # "working_state_updated" /\ l[n].type # "input_received"
      /\ l[n].type \in Learnt
  BY DEF Learnt, Observations, TerminalTypes, WaitingTypes
<1>3. from < n /\ n \in from + 1 .. n /\ n - 1 \in Nat
  BY <1>1, <1>2, SnapshotIsLast
<1>4. Late(l) = {n}
  BY <1>2, <1>3 DEF Late
<1>5. Unseen(l) = {n}
  BY <1>4, LateIsUnseen
<1>6. PICK f : Rebuilds(f, l) /\ Rebuilt(l) = f[n]
  BY RebuiltBySteps
<1>7. f[from] = s
      /\ \A k \in from + 1 .. n :
           f[k] = IF k \in Unseen(l) THEN Fold(l, f[k - 1], k) ELSE f[k - 1]
  BY <1>6 DEF Rebuilds
<1> HIDE DEF from, s
<1> DEFINE S == {k \in Nat : from + k <= n - 1 => f[from + k] = s}
<1>8. 0 \in S
  <2>1. from + 0 = from
    BY <1>1
  <2> QED BY <1>7, <2>1
<1>9. ASSUME NEW k \in Nat, k \in S PROVE k + 1 \in S
  <2>1. SUFFICES ASSUME from + (k + 1) <= n - 1
                 PROVE  f[from + (k + 1)] = s
    OBVIOUS
  <2>2. /\ from + (k + 1) \in from + 1 .. n /\ from + (k + 1) # n
        /\ (from + (k + 1)) - 1 = from + k /\ from + k <= n - 1
    BY <1>1, <2>1
  <2>3. f[from + k] = s
    BY <1>9, <2>2
  <2> QED BY <1>5, <1>7, <2>2, <2>3
<1> HIDE DEF S
<1> DEFINE d == (n - 1) - from
<1>10. d \in Nat /\ from + d = n - 1
  BY <1>1, <1>3
<1> HIDE DEF d
<1>11. d \in S
  BY <1>8, <1>9, <1>10, SetInduction
<1>12. f[n - 1] = s
  BY <1>3, <1>10, <1>11 DEF S
<1>13. f[n] = Fold(l, s, n)
  BY <1>3, <1>5, <1>7, <1>12
<1> QED BY <1>2, <1>6, <1>13 DEF Fold, s

-----------------------------------------------------------------------------
(* How a step keeps the invariant.                                         *)

LEMMA LogFacts ==
  ASSUME Inv, IdInv
  PROVE  /\ LogsEvents(log) /\ SnapshotsOK(log) /\ IdLog(log)
         /\ Len(log) \in Nat /\ DOMAIN log = 1..Len(log) /\ IsJob(job)
BY LogIsCharged DEF Inv, TypeInv, LogOK, JobOK, IdInv, IdLog

(* Every event but an answer ...                                           *)
LEMMA NewestStays ==
  ASSUME NEW l, LogsEvents(l), NEW e, e.type # "input_received"
  PROVE  \A id : /\ NewestAnswer(l, id) => NewestAnswer(Append(l, e), id)
                 /\ Has(Append(l, e), id, {"input_received"}) =>
                      Has(l, id, {"input_received"})
<1> DEFINE m == Append(l, e)
           n == Len(l)
<1>1. /\ n \in Nat /\ DOMAIN l = 1..n /\ DOMAIN m = 1..(n + 1)
      /\ \A i \in 1..n : m[i] = l[i]
      /\ m[n + 1] = e
  BY AppendGrows DEF LogsEvents
<1> HIDE DEF m, n
<1>2. \A i \in DOMAIN m : m[i].type = "input_received" =>
        i \in DOMAIN l /\ m[i] = l[i]
  BY <1>1
<1>3. \A i \in DOMAIN l : i \in DOMAIN m /\ m[i] = l[i]
  BY <1>1
<1>4. ASSUME NEW id, NewestAnswer(l, id) PROVE NewestAnswer(m, id)
  BY <1>2, <1>3, <1>4 DEF NewestAnswer
<1>5. ASSUME NEW id, Has(m, id, {"input_received"})
      PROVE  Has(l, id, {"input_received"})
  BY <1>2, <1>5 DEF Has, Of
<1> QED BY <1>4, <1>5 DEF m

(* ... leaves what is known of answers; and an event that is no decision   *)
(* leaves the decision of the call.                                        *)
LEMMA AnswersStay ==
  ASSUME Inv, IdInv, KnowInv, NEW e, e.type # "input_received",
         log' \in {log, Append(log, e)}, run' = run, pc' # "answered"
  PROVE  KnowsAnswer'
<1>1. \A id : /\ NewestAnswer(log, id) => NewestAnswer(log', id)
              /\ Has(log', id, {"input_received"}) =>
                   Has(log, id, {"input_received"})
  BY LogFacts, NewestStays
<1> QED BY <1>1 DEF KnowInv, KnowsAnswer

LEMMA DecidedStays ==
  ASSUME Inv, IdInv, Decided(log), NEW e,
         e.type \notin {"working_state_updated", "decision_recorded"},
         log' = Append(log, e), job'.action = job.action,
         job'.update = job.update, job'.state = job.state
  PROVE  Decided(log)'
<1> DEFINE m == Append(log, e)
           id == job.action.id
           types == {"decision_recorded"}
           at == At(log, id, types)
<1>1. /\ LogsEvents(log) /\ SnapshotsOK(log) /\ Len(log) \in Nat
      /\ DOMAIN log = 1..Len(log)
  BY LogFacts
<1>2. Of(m, id, types) = Of(log, id, types)
  <2>1. Of(m, id, types) = Of(log, id, types) \union
           (IF e.action # NoAction /\ e.action.id = id /\ e.type \in types
            THEN {Len(log) + 1} ELSE {})
    BY <1>1, OfGrows
  <2>2. e.type \notin types
    OBVIOUS
  <2> HIDE DEF m, types
  <2> QED BY <2>1, <2>2
<1>3. SnapshotAt(m) = SnapshotAt(log)
  BY <1>1, SnapshotKept
<1>4. at \in 1..Len(log)
  <2> DEFINE found == Of(log, id, types)
  <2>1. found \subseteq 1..Len(log) /\ found # {} /\ at = Newest(found)
    BY <1>1 DEF Of, Has, At, Decided
  <2> HIDE DEF found, at
  <2> QED BY <1>1, <2>1, NewestIsLast
<1>5. m[at] = log[at]
  BY <1>1, <1>4, AppendGrows DEF LogsEvents
<1>6. Has(m, id, types) /\ At(m, id, types) = at
  BY <1>2 DEF Has, At, Decided
<1>7. /\ Has(log, id, types) /\ at > SnapshotAt(log)
      /\ log[at].update = job.update
      /\ UpdateFits(job.state, job.update) /\ IsUpdate(job.update)
  BY DEF Decided
<1> HIDE DEF m, at, types
<1>8. Has(m, id, types) /\ At(m, id, types) > SnapshotAt(m)
      /\ m[At(m, id, types)].update = job.update
  BY <1>3, <1>5, <1>6, <1>7
<1> QED BY <1>7, <1>8 DEF Decided, m, types

(* What the invariant says after an event that is neither an answer nor a  *)
(* snapshot.                                                               *)
LEMMA EventKnown ==
  ASSUME Inv, IdInv, KnowInv, NEW e, TrueEvent(log, e),
         e.type # "input_received", log' = Append(log, e)
  PROVE  /\ TrueLog(log') /\ LatestState(log') = LatestState(log)
         /\ e.type \notin Learnt => Late(log') = Late(log)
         /\ Late(log) = {} => Late(log') \subseteq {Len(log')}
         /\ Len(log') = Len(log) + 1 /\ log'[Len(log')] = e
         /\ job.state # NoState => IsTrue(log', job.state)
         /\ Recorded(log) \subseteq Recorded(log')
         /\ e.action # NoAction => e.action \in Recorded(log')
<1> DEFINE m == Append(log, e)
<1>1. LogsEvents(log) /\ SnapshotsOK(log) /\ TrueLog(log)
      /\ (job.state # NoState => IsTrue(log, job.state))
  BY LogFacts DEF KnowInv
<1>2. /\ TrueLog(m) /\ LatestState(m) = LatestState(log)
      /\ Late(m) = Late(log) \union
                     (IF e.type \in Learnt THEN {Len(log) + 1} ELSE {})
      /\ \A s : IsTrue(log, s) => IsTrue(m, s)
  BY <1>1, TrueLogGrows
<1>3. Len(m) = Len(log) + 1 /\ m[Len(log) + 1] = e
  BY <1>1, AppendGrows DEF LogsEvents
<1>4. Recorded(m) = Recorded(log) \union ({e.action} \ {NoAction})
  BY <1>1, OfGrows
<1> HIDE DEF m
<1>5. log' = m
  BY DEF m
<1> QED BY <1>1, <1>2, <1>3, <1>4, <1>5

(* AgentRuntime.execute goes on to its next access.                        *)
LEMMA ExecuteKnows ==
  ASSUME Inv, IdInv, KnowInv, pc \in Executes, pc' \in Executes \ {"execute"},
         job'.action = job.action, job'.then = job.then,
         job'.state = job.state, job'.update = job.update, run' = run,
         NEW e,
         \/ log' = log /\ pc # "execute"
         \/ /\ log' = Append(log, e) /\ e.action = job.action
            /\ job.action # NoAction
            /\ e.type \notin Learnt \union {"working_state_updated",
                                           "decision_recorded"},
         \A r \in reservations' : r.action \in Recorded(log'),
         (pc' \in {"ask", "reserve"} /\ job.then = "advance") =>
           reservations' = reservations /\ pc \in {"execute", "ask", "reserve"}
  PROVE  KnowInv'
<1>1. /\ TrueLog(log') /\ LatestState(log') = LatestState(log)
      /\ Late(log') = Late(log)
      /\ job.state # NoState => IsTrue(log', job.state)
      /\ job.action \in Recorded(log')
  <2>1. CASE log' = log /\ pc # "execute"
    BY <2>1 DEF KnowInv, KnowsActions
  <2>2. CASE /\ log' = Append(log, e) /\ e.action = job.action
             /\ job.action # NoAction
             /\ e.type \notin Learnt \union {"working_state_updated",
                                            "decision_recorded"}
    <3>1. TrueEvent(log, e) /\ e.type # "input_received"
      BY <2>2 DEF TrueEvent, Learnt, Observations
    <3> QED BY <2>2, <3>1, EventKnown
  <2> QED BY <2>1, <2>2
<1>2. e.type = "input_received" => log' = log
  BY DEF Learnt
<1>3. KnowsAnswer'
  <2>1. pc' # "answered"
    BY DEF Executes
  <2>2. CASE log' = log
    BY <2>1, <2>2 DEF KnowInv, KnowsAnswer
  <2>3. CASE log' # log
    BY <1>2, <2>1, <2>3, AnswersStay
  <2> QED BY <2>2, <2>3
<1>4. Learned' => Learned
  BY DEF Learned, Executes
<1>5. Holds' => Holds
  BY DEF Holds, Executes, InLoop
<1>6. InLoop' => Decided(log)'
  <2>1. SUFFICES ASSUME InLoop' PROVE Decided(log)'
    OBVIOUS
  <2>2. Decided(log)
    BY <2>1 DEF InLoop, Executes, KnowInv
  <2>3. CASE log' = log
    BY <2>2, <2>3 DEF Decided
  <2>4. CASE log' # log
    BY <2>2, <2>4, DecidedStays
  <2> QED BY <2>3, <2>4
<1>7. KnowsActions'
  BY <1>1 DEF KnowInv, KnowsActions, Executes, Reserved
<1>8. KnowsOutcome'
  BY DEF KnowsOutcome, Executes, ReturnsTo
<1> QED BY <1>1, <1>3, <1>4, <1>5, <1>6, <1>7, <1>8 DEF KnowInv

(* It ends with an observation that an event of the action tells, or the   *)
(* call has to stop.                                                       *)
LEMMA ObserveKnows ==
  ASSUME Inv, IdInv, KnowInv, pc \in Executes, NEW e, log' = Append(log, e),
         TrueEvent(log, e), e.action = job.action, job.action # NoAction,
         NEW obs, Observe(obs),
         \/ e.type \in Observations /\ e.obs = obs
         \/ /\ e.type \notin Learnt \union {"decision_recorded"}
            /\ obs.status = "recovery_required" /\ job.then # "advance",
         UNCHANGED <<reservations, run>>
  PROVE  KnowInv'
<1>1. e.type \notin {"input_received", "decision_recorded",
                     "working_state_updated"}
  BY DEF Learnt, Observations, TerminalTypes, WaitingTypes, TrueEvent
<1>2. /\ TrueLog(log') /\ LatestState(log') = LatestState(log)
      /\ e.type \notin Learnt => Late(log') = Late(log)
      /\ Late(log) = {} => Late(log') \subseteq {Len(log')}
      /\ Len(log') = Len(log) + 1 /\ log'[Len(log')] = e
      /\ job.state # NoState => IsTrue(log', job.state)
      /\ Recorded(log) \subseteq Recorded(log')
  BY <1>1, EventKnown
<1>3. /\ pc' = job.then /\ pc' \in ReturnsTo
      /\ job'.obs = obs /\ job'.action = job.action
      /\ job'.update = job.update /\ job'.state = job.state
      /\ job'.then = job.then
  BY LogFacts DEF Observe, IsJob, Inv, TypeInv, JobOK
<1>4. KnowsAnswer'
  <2>1. pc' # "answered"
    BY <1>3 DEF ReturnsTo
  <2> QED BY <1>1, <2>1, AnswersStay
<1>5. ~Learned'
  BY <1>3 DEF Learned, ReturnsTo, Executes
<1>6. Holds' => Holds
  BY <1>3 DEF Holds, ReturnsTo, Executes, InLoop
<1>7. InLoop' => Decided(log)'
  <2>1. SUFFICES ASSUME InLoop' PROVE Decided(log)'
    OBVIOUS
  <2>2. Decided(log)
    BY <1>3, <2>1 DEF InLoop, Executes, ReturnsTo, KnowInv
  <2> QED BY <1>1, <1>3, <2>2, DecidedStays
<1>8. KnowsActions'
  BY <1>2, <1>3 DEF KnowInv, KnowsActions, Executes, ReturnsTo
<1>9. KnowsOutcome'
  <2>1. SUFFICES ASSUME job.then # "resumed"
                 PROVE  \/ Reports(log)' /\ Late(log') \subseteq {Len(log')}
                        \/ obs.status = "recovery_required"
                             /\ job.then # "advance" /\ Late(log') = {}
    BY <1>3 DEF KnowsOutcome
  <2>2. Late(log) = {}
    BY <2>1 DEF KnowInv, Learned
  <2>3. CASE e.type \in Observations /\ e.obs = obs
    <3>1. Len(log') > 0
      BY <1>2, LogFacts
    <3> QED BY <1>2, <1>3, <2>2, <2>3, <3>1 DEF Reports
  <2>4. CASE /\ e.type \notin Learnt \union {"decision_recorded"}
             /\ obs.status = "recovery_required" /\ job.then # "advance"
    BY <1>2, <2>2, <2>4
  <2> QED BY <2>3, <2>4
<1> QED BY <1>2, <1>3, <1>4, <1>5, <1>6, <1>7, <1>8, <1>9 DEF KnowInv

(* The call returns, fails or dies.                                        *)
LEMMA ResetKnows ==
  ASSUME TrueLog(log'), Reset,
         \A r \in reservations' : r.action \in Recorded(log'),
         OfferedPending' => Late(log') = {},
         (run'.question # NoAction
            /\ Has(log', run'.question.id, {"input_received"})) =>
           NewestAnswer(log', run'.question.id)
  PROVE  KnowInv'
<1>1. pc' = "idle" /\ job'.state = NoState /\ job'.then = "idle"
  BY NoJobFields DEF Reset, NoJob
<1>2. ~Holds' /\ ~InLoop' /\ (Learned' => OfferedPending')
  BY <1>1 DEF Holds, InLoop, Learned, Executes
<1>3. KnowsActions' /\ KnowsOutcome' /\ KnowsAnswer'
  BY <1>1 DEF KnowsActions, KnowsOutcome, KnowsAnswer, Executes, ReturnsTo
<1> QED BY <1>1, <1>2, <1>3 DEF KnowInv

LEMMA ReturnKnows ==
  ASSUME TrueLog(log'), Return(log'), Late(log') = {},
         \A r \in reservations' : r.action \in Recorded(log')
  PROVE  KnowInv'
<1>1. run'.question = PendingInput(log') /\ Reset
  BY DEF Return, Offer
<1>2. PendingInput(log') # NoAction =>
        ~Has(log', PendingInput(log').id, {"input_received"})
  BY DEF PendingInput
<1> QED BY <1>1, <1>2, ResetKnows

LEMMA FailKnows ==
  ASSUME TrueLog(log'), Fail,
         \A r \in reservations' : r.action \in Recorded(log')
  PROVE  KnowInv'
<1>1. run'.question = NoAction /\ run'.checkpoint = 0 /\ Reset
  BY DEF Fail
<1>2. ~OfferedPending'
  BY <1>1 DEF OfferedPending
<1> QED BY <1>1, <1>2, ResetKnows

LEMMA QuitKnows ==
  ASSUME Inv, IdInv, KnowInv, pc # "idle", Reset,
         UNCHANGED <<log, run, reservations>>
  PROVE  KnowInv'
<1>1. ~OfferedPending'
  BY NotOffered DEF OfferedPending
<1>2. TrueLog(log') /\ \A r \in reservations' : r.action \in Recorded(log')
  BY DEF KnowInv, KnowsActions
<1>3. (run'.question # NoAction
         /\ Has(log', run'.question.id, {"input_received"})) =>
        NewestAnswer(log', run'.question.id)
  BY DEF KnowInv, KnowsAnswer
<1> QED BY <1>1, <1>2, <1>3, ResetKnows

-----------------------------------------------------------------------------
(* AgentRuntime.execute keeps the invariant.                               *)

LEMMA ReservedStay ==
  ASSUME Inv, IdInv, KnowInv, NEW e, log' \in {log, Append(log, e)},
         reservations' = reservations
  PROVE  \A r \in reservations' : r.action \in Recorded(log')
<1>1. Recorded(log) \subseteq Recorded(Append(log, e))
  BY LogFacts, OfGrows
<1> QED BY <1>1 DEF KnowInv, KnowsActions

(* The execution goes on with its next access to the store.                *)
LEMMA LoggedKnows ==
  ASSUME Inv, IdInv, KnowInv, pc \in Executes, pc' \in Executes \ {"execute"},
         job'.action = job.action, job'.then = job.then,
         job'.state = job.state, job'.update = job.update, run' = run,
         reservations' = reservations, job.action # NoAction,
         NEW type \in {"action_authorized"} \union StartTypes,
         log' = Append(log, ActionEvent(type, job.action)),
         pc' \in {"ask", "reserve"} => pc \in {"execute", "ask", "reserve"}
  PROVE  KnowInv'
<1> DEFINE e == ActionEvent(type, job.action)
<1>1. e.type = type /\ e.action = job.action
  BY EventFields
<1>2. e.type \notin Learnt \union {"working_state_updated",
                                  "decision_recorded"}
  BY <1>1 DEF Learnt, Observations, TerminalTypes, WaitingTypes, StartTypes
<1>3. log' = Append(log, e)
  OBVIOUS
<1> HIDE DEF e
<1>4. \A r \in reservations' : r.action \in Recorded(log')
  BY <1>3, ReservedStay
<1> QED BY <1>1, <1>2, <1>3, <1>4, ExecuteKnows

(* An outcome that is logged and observed.                                 *)
LEMMA OutcomeKnows ==
  ASSUME Inv, IdInv, KnowInv, pc \in Executes, job.action # NoAction,
         NEW type, NEW obs, NEW e,
         e.type = type, e.action = job.action, e.obs = obs,
         log' = Append(log, e), Observe(obs),
         \/ type \in TerminalTypes
         \/ type \in WaitingTypes /\ obs.status \notin SuccessStatuses
         \/ /\ type = "action_recovery_required" /\ job.then # "advance"
            /\ obs.status = "recovery_required",
         UNCHANGED <<reservations, run>>
  PROVE  KnowInv'
<1>1. type \notin {"working_state_updated", "decision_recorded",
                   "input_received"}
  BY DEF TerminalTypes, WaitingTypes
<1>2. type \in WaitingTypes => type \notin TerminalTypes
                               /\ type # "action_recovery_required"
  BY DEF TerminalTypes, WaitingTypes
<1>3. TrueEvent(log, e)
  BY <1>1, <1>2 DEF TrueEvent
<1>4. \/ e.type \in Observations /\ e.obs = obs
      \/ /\ e.type \notin Learnt \union {"decision_recorded"}
         /\ obs.status = "recovery_required" /\ job.then # "advance"
  BY <1>1 DEF Observations, Learnt, TerminalTypes, WaitingTypes
<1> QED BY <1>3, <1>4, ObserveKnows

LEMMA AuthorizeReadKnows == Inv /\ IdInv /\ KnowInv /\ AuthorizeRead => KnowInv'
<1> SUFFICES ASSUME Inv, IdInv, KnowInv, AuthorizeRead PROVE KnowInv'
  OBVIOUS
<1>1. /\ pc = "execute" /\ pc' \in {"ask", "reserve"} /\ job.action # NoAction
      /\ log' = Append(log, ActionEvent("action_authorized", job.action))
      /\ UNCHANGED <<reservations, job, run>>
  BY DEF AuthorizeRead, Executing
<1> QED BY <1>1, LoggedKnows DEF Executes

LEMMA AskKnows == Inv /\ IdInv /\ KnowInv /\ Ask => KnowInv'
<1> SUFFICES ASSUME Inv, IdInv, KnowInv, Ask PROVE KnowInv'
  OBVIOUS
<1> DEFINE obs == Plain("input_required")
           e == Result("input_required", job.action, obs)
<1>1. /\ pc \in Executes /\ job.action # NoAction
      /\ log' = Append(log, e) /\ Observe(obs)
      /\ UNCHANGED <<reservations, run>>
  BY DEF Ask, Executing, Executes
<1>2. e.type = "input_required" /\ e.action = job.action /\ e.obs = obs
  BY EventFields
<1>3. obs.status \notin SuccessStatuses /\ "input_required" \in WaitingTypes
  BY DEF Plain, Obs, SuccessStatuses, WaitingTypes
<1> HIDE DEF e, obs
<1> QED BY <1>1, <1>2, <1>3, OutcomeKnows

LEMMA AuthorizeSideEffectKnows ==
  Inv /\ IdInv /\ KnowInv /\ AuthorizeSideEffect => KnowInv'
<1> SUFFICES ASSUME Inv, IdInv, KnowInv, AuthorizeSideEffect PROVE KnowInv'
  OBVIOUS
<1> DEFINE a == job.action
           done == \E r \in Reserved(a) : r.obs # NoObs
<1>1. /\ pc = "execute" /\ pc \in Executes /\ a # NoAction
      /\ UNCHANGED <<reservations, run>>
  BY DEF AuthorizeSideEffect, Executing, Executes
<1>2. CASE ~Denied(a) /\ done
  <2> DEFINE obs == StoredObs(a)
             e == Result("action_replayed", a, obs)
  <2>1. log' = Append(log, e) /\ Observe(obs)
    BY <1>2 DEF AuthorizeSideEffect
  <2>2. e.type = "action_replayed" /\ e.action = a /\ e.obs = obs
        /\ "action_replayed" \in TerminalTypes
    BY EventFields DEF TerminalTypes
  <2> HIDE DEF e, obs
  <2> QED BY <1>1, <2>1, <2>2, OutcomeKnows
<1>3. CASE ~Denied(a) /\ ~done /\ a.kind = "apply_patch" /\ disk[a.path] # a.from
  <2> DEFINE obs == Plain("conflict")
             e == Result("action_conflict", a, obs)
  <2>1. log' = Append(log, e) /\ Observe(obs)
    BY <1>3 DEF AuthorizeSideEffect
  <2>2. e.type = "action_conflict" /\ e.action = a /\ e.obs = obs
        /\ "action_conflict" \in TerminalTypes
    BY EventFields DEF TerminalTypes
  <2> HIDE DEF e, obs
  <2> QED BY <1>1, <2>1, <2>2, OutcomeKnows
<1>4. CASE ~Denied(a) /\ ~done /\ ~(a.kind = "apply_patch" /\ disk[a.path] # a.from)
           /\ ValidGrant(a)
  <2>1. log' = Append(log, ActionEvent("action_authorized", a))
        /\ pc' = "reserve" /\ UNCHANGED job
    BY <1>4 DEF AuthorizeSideEffect
  <2> QED BY <1>1, <2>1, LoggedKnows DEF Executes
<1>5. CASE ~Denied(a) /\ ~done /\ ~(a.kind = "apply_patch" /\ disk[a.path] # a.from)
           /\ ~ValidGrant(a)
  <2> DEFINE obs == Plain("approval_required")
             n == Checkpoint(a)
             b == Baseline(a)
             r == Result("approval_required", a, obs)
             e == [r EXCEPT !.checkpoint = n, !.baseline = b]
  <2>1. log' = Append(log, e) /\ Observe(obs)
    BY <1>5 DEF AuthorizeSideEffect
  <2>2. r = [type |-> "approval_required", action |-> a, obs |-> obs,
             update |-> NoUpdate, state |-> NoState, checkpoint |-> 0,
             baseline |-> NoContent, answer |-> NoAnswer]
    BY EventFields
  <2>3. obs.status \notin SuccessStatuses /\ "approval_required" \in WaitingTypes
    BY DEF Plain, Obs, SuccessStatuses, WaitingTypes
  <2> HIDE DEF obs, n, b, r
  <2>4. e.type = "approval_required" /\ e.action = a /\ e.obs = obs
    BY <2>2
  <2> HIDE DEF e
  <2> QED BY <1>1, <2>1, <2>3, <2>4, OutcomeKnows
<1>6. CASE Denied(a)
  <2> DEFINE obs == Plain("policy_denied")
             e == Result("action_denied", a, obs)
  <2>1. log' = Append(log, e) /\ Observe(obs)
    BY <1>6 DEF AuthorizeSideEffect
  <2>2. e.type = "action_denied" /\ e.action = a /\ e.obs = obs
        /\ "action_denied" \in TerminalTypes
    BY EventFields DEF TerminalTypes
  <2> HIDE DEF e, obs
  <2> QED BY <1>1, <2>1, <2>2, OutcomeKnows
<1> QED BY <1>2, <1>3, <1>4, <1>5, <1>6

LEMMA ReserveKnows == Inv /\ IdInv /\ KnowInv /\ Reserve => KnowInv'
<1> SUFFICES ASSUME Inv, IdInv, KnowInv, Reserve PROVE KnowInv'
  OBVIOUS
<1> DEFINE a == job.action
<1>1. /\ pc = "reserve" /\ pc \in Executes \ {"execute"} /\ a # NoAction
      /\ run' = run
  BY DEF Reserve, Executing, Executes
<1>2. CASE Reserved(a) = {}
  <2>1. /\ reservations' = reservations \union {[action |-> a, obs |-> NoObs]}
        /\ pc' = "start" /\ UNCHANGED <<log, job>>
    BY <1>2 DEF Reserve
  <2>2. \A r \in reservations' : r.action \in Recorded(log')
    BY <1>1, <2>1 DEF KnowInv, KnowsActions
  <2>3. "start" \in Executes
    BY DEF Executes
  <2> QED BY <1>1, <2>1, <2>2, <2>3, ExecuteKnows
<1>3. CASE Reserved(a) # {}
  <2> DEFINE obs == IF StoredObs(a) # NoObs THEN StoredObs(a)
                    ELSE Plain("recovery_required")
             type == IF StoredObs(a) # NoObs THEN "action_replayed"
                     ELSE "action_recovery_required"
             e == Result(type, a, obs)
  <2>1. log' = Append(log, e) /\ Observe(obs) /\ UNCHANGED reservations
    BY <1>3 DEF Reserve
  <2>2. job.then # "advance"
    BY <1>1, <1>3 DEF KnowInv, KnowsActions
  <2>3. \/ type \in TerminalTypes
        \/ type = "action_recovery_required"
             /\ obs.status = "recovery_required"
    BY DEF TerminalTypes, Plain, Obs
  <2> HIDE DEF obs, type
  <2>4. e.type = type /\ e.action = a /\ e.obs = obs
    BY EventFields
  <2> HIDE DEF e
  <2> QED BY <1>1, <2>1, <2>2, <2>3, <2>4, OutcomeKnows
<1> QED BY <1>2, <1>3

LEMMA StartKnows == Inv /\ IdInv /\ KnowInv /\ Start => KnowInv'
<1> SUFFICES ASSUME Inv, IdInv, KnowInv, Start PROVE KnowInv'
  OBVIOUS
<1> DEFINE type == IF job.retry THEN "action_recovery_started"
                   ELSE "action_started"
<1>1. /\ pc \in Executes /\ pc' = "tool" /\ job.action # NoAction
      /\ log' = Append(log, ActionEvent(type, job.action))
      /\ UNCHANGED <<reservations, job, run>>
  BY DEF Start, Executing, Executes
<1>2. type \in StartTypes
  BY DEF StartTypes
<1>3. "tool" \in Executes \ {"execute"}
  BY DEF Executes
<1> HIDE DEF type
<1> QED BY <1>1, <1>2, <1>3, LoggedKnows

LEMMA ToolKnows == Inv /\ IdInv /\ KnowInv /\ Tool => KnowInv'
<1> SUFFICES ASSUME Inv, IdInv, KnowInv, Tool PROVE KnowInv'
  OBVIOUS
<1>1. /\ pc \in Executes \ {"execute"} /\ pc' = "complete"
      /\ UNCHANGED <<log, reservations, run>>
  BY DEF Tool, Executing, Executes
<1>2. \E obs : job' = [job EXCEPT !.obs = obs]
  BY DEF Tool, ToolRead, ToolFinish, ToolPropose, ToolInspect, ToolWrite,
         ToolValidate
<1>3. /\ job'.state = job.state /\ job'.action = job.action
      /\ job'.then = job.then /\ job'.update = job.update
  BY <1>2, LogFacts DEF IsJob
<1>4. \A r \in reservations' : r.action \in Recorded(log')
  BY <1>1 DEF KnowInv, KnowsActions
<1>5. "complete" \in Executes \ {"execute"}
  BY DEF Executes
<1> QED BY <1>1, <1>3, <1>4, <1>5, ExecuteKnows

LEMMA CompleteKnows == Inv /\ IdInv /\ KnowInv /\ Complete => KnowInv'
<1> SUFFICES ASSUME Inv, IdInv, KnowInv, Complete PROVE KnowInv'
  OBVIOUS
<1>1. /\ pc \in Executes \ {"execute"} /\ pc' = "report"
      /\ UNCHANGED <<log, job, run>>
      /\ reservations' = (reservations \ Reserved(job.action)) \union
                           {[action |-> job.action, obs |-> job.obs]}
  BY DEF Complete, Executing, Executes
<1>2. \A r \in reservations' : r.action \in Recorded(log')
  BY <1>1 DEF KnowInv, KnowsActions
<1>3. "report" \in Executes \ {"execute"}
  BY DEF Executes
<1> QED BY <1>1, <1>2, <1>3, ExecuteKnows

LEMMA ReportKnows == Inv /\ IdInv /\ KnowInv /\ Report => KnowInv'
<1> SUFFICES ASSUME Inv, IdInv, KnowInv, Report PROVE KnowInv'
  OBVIOUS
<1> DEFINE e == Result(ReportType, job.action, job.obs)
<1>1. /\ pc \in Executes /\ job.action # NoAction
      /\ log' = Append(log, e) /\ Observe(job.obs)
      /\ UNCHANGED <<reservations, run>>
  BY DEF Report, Executing, Executes
<1>2. e.type = ReportType /\ e.action = job.action /\ e.obs = job.obs
  BY EventFields
<1>3. ReportType \in TerminalTypes
  BY DEF ReportType, TerminalTypes
<1> HIDE DEF e
<1> QED BY <1>1, <1>2, <1>3, OutcomeKnows

LEMMA ExecuteStepKnows == Inv /\ IdInv /\ KnowInv /\ Execute => KnowInv'
BY AuthorizeReadKnows, AskKnows, AuthorizeSideEffectKnows, ReserveKnows,
   StartKnows, ToolKnows, CompleteKnows, ReportKnows DEF Execute

-----------------------------------------------------------------------------
(* The loop keeps the invariant.                                           *)

(* A state that knows the newest answer is recorded.                       *)
LEMMA SnapshotKnown ==
  ASSUME Inv, IdInv, KnowInv, NEW s, IsTrue(log, s),
         HasAnswer(log, Len(log), s), log' = Append(log, Snapshot(s))
  PROVE  /\ TrueLog(log') /\ Late(log') = {} /\ LatestState(log') = s
         /\ IsTrue(log', s)
         /\ job.state # NoState => IsTrue(log', job.state)
         /\ run' = run /\ pc' # "answered" => KnowsAnswer'
         /\ reservations' = reservations =>
              \A r \in reservations' : r.action \in Recorded(log')
<1> DEFINE e == Snapshot(s)
<1>1. LogsEvents(log) /\ SnapshotsOK(log) /\ TrueLog(log)
      /\ (job.state # NoState => IsTrue(log, job.state))
  BY LogFacts DEF KnowInv
<1>2. /\ TrueLog(log') /\ LatestState(log') = s /\ Late(log') = {}
      /\ IsTrue(log', s)
  BY <1>1, TrueLogRecords
<1>3. job.state # NoState => IsTrue(log', job.state)
  BY <1>1, TrueStays
<1>4. e.type # "input_received"
  BY EventFields
<1>5. log' = Append(log, e)
  OBVIOUS
<1> HIDE DEF e
<1>6. run' = run /\ pc' # "answered" => KnowsAnswer'
  BY <1>4, <1>5, AnswersStay
<1>7. reservations' = reservations =>
        \A r \in reservations' : r.action \in Recorded(log')
  BY <1>5, ReservedStay
<1> QED BY <1>2, <1>3, <1>6, <1>7

(* The last snapshot is true, and a state with its inputs knows the newest *)
(* answer when no answer came since.                                       *)
LEMMA LatestKnown ==
  ASSUME Inv, IdInv, KnowInv
  PROVE  /\ IsTrue(log, LatestState(log))
         /\ (Late(log) = {} \/ pc \in ReturnsTo \ {"resumed"}) =>
              \A s : s.inputs = LatestState(log).inputs =>
                HasAnswer(log, Len(log), s)
<1>1. LogsEvents(log) /\ SnapshotsOK(log) /\ TrueLog(log)
  BY LogFacts DEF KnowInv
<1>2. IsTrue(log, LatestState(log))
  BY <1>1, LatestIsTrue DEF TrueLog
<1>3. ASSUME Late(log) = {} \/ pc \in ReturnsTo \ {"resumed"}
      PROVE  \A i \in Late(log) : log[i].type # "input_received"
  BY <1>3 DEF KnowInv, KnowsOutcome, Reports, Observations, TerminalTypes,
              WaitingTypes
<1> QED BY <1>1, <1>2, <1>3, AnswerKept

(* A call resumes the log.                                                 *)
LEMMA ResumeKnows ==
  ASSUME TrueLog(log'), NEW cycle, Resume(log', cycle),
         \A r \in reservations' : r.action \in Recorded(log'),
         (run'.question # NoAction
            /\ Has(log', run'.question.id, {"input_received"})) =>
           NewestAnswer(log', run'.question.id)
  PROVE  KnowInv'
<1>1. pc' = "recover" /\ job'.state = NoState
  BY NoJobFields DEF Resume, IsJob
<1>2. ~Holds' /\ ~InLoop' /\ ~Learned'
  BY <1>1 DEF Holds, InLoop, Learned, Executes
<1>3. KnowsActions' /\ KnowsOutcome' /\ KnowsAnswer'
  BY <1>1 DEF KnowsActions, KnowsOutcome, KnowsAnswer, Executes, ReturnsTo
<1> QED BY <1>1, <1>2, <1>3 DEF KnowInv

(* The call goes on with the state of the last snapshot, and nothing is    *)
(* left to learn.                                                          *)
LEMMA HoldsOn ==
  ASSUME TrueLog(log'), Late(log') = {}, job'.state = LatestState(log'),
         IsTrue(log', LatestState(log')),
         pc' \in {"resume", "wait", "step", "end", "close"},
         \A r \in reservations' : r.action \in Recorded(log'), KnowsAnswer'
  PROVE  KnowInv'
<1>1. ~InLoop'
  BY DEF InLoop, Executes
<1>2. KnowsActions' /\ KnowsOutcome'
  BY DEF KnowsActions, KnowsOutcome, Executes, ReturnsTo
<1> QED BY <1>1, <1>2 DEF KnowInv

LEMMA StartLoopKnows == Inv /\ IdInv /\ KnowInv /\ StartLoop => KnowInv'
<1> SUFFICES ASSUME Inv, IdInv, KnowInv, StartLoop PROVE KnowInv'
  OBVIOUS
<1> DEFINE s == CreateState
<1>1. /\ pc' = "step" /\ run' = run /\ log = <<>>
      /\ log' = <<Snapshot(s)>> /\ reservations' = reservations
  BY DEF StartLoop
<1>2. job'.state = s
  <2>1. IsJob(Job("loop"))
    BY NoJobFields
  <2> HIDE DEF s
  <2> QED BY <2>1 DEF StartLoop, IsJob, s
<1>3. IsTrue(log, s) /\ HasAnswer(log, Len(log), s)
  BY <1>1, CreatedIsTrue DEF HasAnswer
<1> HIDE DEF s
<1>4. log' = Append(log, Snapshot(s))
  BY <1>1
<1>5. /\ TrueLog(log') /\ Late(log') = {} /\ LatestState(log') = s
      /\ IsTrue(log', s) /\ KnowsAnswer'
      /\ \A r \in reservations' : r.action \in Recorded(log')
  BY <1>1, <1>3, <1>4, SnapshotKnown
<1> QED BY <1>1, <1>2, <1>5, HoldsOn

LEMMA ResumeLoopKnows == Inv /\ IdInv /\ KnowInv /\ ResumeLoop => KnowInv'
<1> SUFFICES ASSUME Inv, IdInv, KnowInv, ResumeLoop PROVE KnowInv'
  OBVIOUS
<1>1. Resume(log, run.cycle) /\ UNCHANGED <<log, run, reservations>>
  BY DEF ResumeLoop
<1>2. Resume(log', run.cycle)
  BY <1>1 DEF Resume
<1> QED BY <1>1, <1>2, ResumeKnows DEF KnowInv, KnowsActions, KnowsAnswer

LEMMA ReconcileKnows == Inv /\ IdInv /\ KnowInv /\ Reconcile => KnowInv'
<1> SUFFICES ASSUME Inv, IdInv, KnowInv, Reconcile PROVE KnowInv'
  OBVIOUS
<1> DEFINE a == ActionOf(log, Pending(log))
           e == Result("action_recovered", a, StoredObs(a))
<1>1. /\ pc = "recover" /\ UNCHANGED <<pc, job, run, reservations>>
      /\ log' = Append(log, e)
  BY DEF Reconcile
<1>2. a # NoAction
  <2>1. Unresolved(log) # {}
    BY DEF Reconcile, Settled, PendingClass
  <2> QED BY <2>1, LogFacts, PendingInLog
<1>3. e.type = "action_recovered" /\ e.action = a
  BY EventFields
<1> HIDE DEF e, a
<1>4. TrueEvent(log, e) /\ e.type # "input_received"
  BY <1>2, <1>3 DEF TrueEvent, WaitingTypes
<1>5. TrueLog(log') /\ (job.state # NoState => IsTrue(log', job.state))
  BY <1>1, <1>4, EventKnown
<1>6. KnowsAnswer'
  BY <1>1, <1>4, AnswersStay
<1>7. \A r \in reservations' : r.action \in Recorded(log')
  BY <1>1, ReservedStay
<1>8. ~Holds' /\ ~InLoop' /\ ~Learned'
  BY <1>1 DEF Holds, InLoop, Learned, Executes
<1>9. KnowsActions' /\ KnowsOutcome'
  BY <1>1, <1>7 DEF KnowsActions, KnowsOutcome, Executes, ReturnsTo
<1> QED BY <1>1, <1>5, <1>6, <1>8, <1>9 DEF KnowInv

(* Recovery has recorded the rebuilt state.                                *)
LEMMA PersistKnown ==
  ASSUME Inv, IdInv, KnowInv,
         log' = IF Unseen(log) = {} THEN log
                ELSE Append(log, Snapshot(Rebuilt(log)))
  PROVE  /\ TrueLog(log') /\ Late(log') = {}
         /\ LatestState(log') = Rebuilt(log) /\ IsTrue(log', Rebuilt(log))
         /\ run' = run /\ pc' # "answered" => KnowsAnswer'
         /\ reservations' = reservations =>
              \A r \in reservations' : r.action \in Recorded(log')
<1> DEFINE e == Snapshot(Rebuilt(log))
<1>1. /\ TrueLog(log') /\ Late(log') = {}
      /\ LatestState(log') = Rebuilt(log) /\ IsTrue(log', Rebuilt(log))
  BY LogFacts, PersistIsTrue DEF KnowInv
<1>2. e.type # "input_received"
  BY EventFields
<1>3. log' \in {log, Append(log, e)}
  OBVIOUS
<1> HIDE DEF e
<1> QED BY <1>1, <1>2, <1>3, AnswersStay, ReservedStay

LEMMA RecoverKnows == Inv /\ IdInv /\ KnowInv /\ Recover => KnowInv'
<1> SUFFICES ASSUME Inv, IdInv, KnowInv, Recover PROVE KnowInv'
  OBVIOUS
<1>1. /\ pc' = "resume" /\ UNCHANGED <<run, reservations>>
      /\ log' = IF Unseen(log) = {} THEN log
                ELSE Append(log, Snapshot(Rebuilt(log)))
      /\ job' = [job EXCEPT !.state = Rebuilt(log)]
  BY DEF Recover, PersistRebuilt
<1>2. job'.state = Rebuilt(log)
  BY <1>1, LogFacts DEF IsJob
<1>3. /\ TrueLog(log') /\ Late(log') = {}
      /\ LatestState(log') = Rebuilt(log) /\ IsTrue(log', Rebuilt(log))
      /\ KnowsAnswer' /\ \A r \in reservations' : r.action \in Recorded(log')
  BY <1>1, PersistKnown
<1> QED BY <1>1, <1>2, <1>3, HoldsOn

LEMMA ResumePendingKnows ==
  Inv /\ IdInv /\ KnowInv /\ ResumePending => KnowInv'
<1> SUFFICES ASSUME Inv, IdInv, KnowInv, ResumePending PROVE KnowInv'
  OBVIOUS
<1> DEFINE a == ActionOf(log, Pending(log))
           next == NextStep(log)
<1>1. pc = "resume" /\ UNCHANGED <<log, run, reservations>>
  BY DEF ResumePending
<1>2. /\ TrueLog(log) /\ Late(log) = {}
      /\ (job.state # NoState => IsTrue(log, job.state))
      /\ \A r \in reservations : r.action \in Recorded(log)
      /\ job.state = LatestState(log) /\ IsTrue(log, LatestState(log))
  BY <1>1, LatestKnown DEF KnowInv, KnowsActions, Learned, Holds
<1>3. pc' # "answered" => KnowsAnswer'
  BY <1>1 DEF KnowInv, KnowsAnswer
<1>4. next = "retry_read_only" => a \in Recorded(log)
  <2>1. SUFFICES ASSUME next = "retry_read_only" PROVE a \in Recorded(log)
    OBVIOUS
  <2>2. Unresolved(log) # {}
    BY <2>1 DEF NextStep, PendingClass
  <2> QED BY <2>2, LogFacts, PendingInLog DEF Recorded
<1> HIDE DEF a, next
<1>5. CASE next \in {"execute_pending", "retry_read_only"}
  <2>1. /\ pc' \in {"execute", "start"}
        /\ pc' = "start" => next = "retry_read_only"
        /\ \E retry : job' = [job EXCEPT !.action = a, !.then = "resumed",
                                         !.retry = retry]
    <3>1. CASE next = "execute_pending"
      <4>1. pc' = "execute"
            /\ job' = [job EXCEPT !.action = a, !.then = "resumed"]
        BY <3>1 DEF ResumePending, a, next
      <4>2. job' = [job EXCEPT !.action = a, !.then = "resumed",
                               !.retry = job.retry]
        BY <4>1, LogFacts DEF IsJob
      <4> QED BY <4>1, <4>2
    <3>2. CASE next = "retry_read_only"
      <4>1. pc' = "start"
            /\ job' = [job EXCEPT !.action = a, !.then = "resumed",
                                  !.retry = TRUE]
        BY <3>2 DEF ResumePending, a, next
      <4> QED BY <3>2, <4>1
    <3> QED BY <1>5, <3>1, <3>2
  <2>2. /\ job'.state = job.state /\ job'.action = a
        /\ job'.then = "resumed"
    BY <2>1, LogFacts DEF IsJob
  <2>3. ~Holds' /\ ~InLoop' /\ ~Learned'
    BY <2>1, <2>2 DEF Holds, InLoop, Learned, Executes
  <2>4. KnowsActions' /\ KnowsOutcome' /\ KnowsAnswer'
    BY <1>1, <1>2, <1>3, <1>4, <2>1, <2>2
    DEF KnowsActions, KnowsOutcome, Executes, ReturnsTo
  <2> QED BY <1>1, <1>2, <2>2, <2>3, <2>4 DEF KnowInv
<1>6. CASE next \notin {"execute_pending", "retry_read_only"}
  <2>1. pc' = "wait" /\ UNCHANGED job
    BY <1>6 DEF ResumePending, next
  <2> QED BY <1>1, <1>2, <1>3, <2>1, HoldsOn
<1> QED BY <1>5, <1>6

LEMMA ResumedKnows == Inv /\ IdInv /\ KnowInv /\ Resumed => KnowInv'
<1> SUFFICES ASSUME Inv, IdInv, KnowInv, Resumed PROVE KnowInv'
  OBVIOUS
<1>1. /\ log' = IF Unseen(log) = {} THEN log
                ELSE Append(log, Snapshot(Rebuilt(log)))
      /\ reservations' = reservations
  BY DEF Resumed, PersistRebuilt
<1>2. /\ TrueLog(log') /\ Late(log') = {}
      /\ LatestState(log') = Rebuilt(log) /\ IsTrue(log', Rebuilt(log))
      /\ run' = run /\ pc' # "answered" => KnowsAnswer'
      /\ \A r \in reservations' : r.action \in Recorded(log')
  BY <1>1, PersistKnown
<1>3. CASE job.obs.status \in StoppingStatuses
  <2>1. Return(log')
    BY <1>3 DEF Resumed
  <2> QED BY <1>2, <2>1, ReturnKnows
<1>4. CASE job.obs.status \notin StoppingStatuses
  <2>1. /\ pc' = "wait" /\ run' = run
        /\ job' = [job EXCEPT !.state = Rebuilt(log)]
    BY <1>4 DEF Resumed, PersistRebuilt
  <2>2. job'.state = Rebuilt(log)
    BY <2>1, LogFacts DEF IsJob
  <2> QED BY <1>2, <2>1, <2>2, HoldsOn
<1> QED BY <1>3, <1>4

LEMMA EnterLoopKnows == Inv /\ IdInv /\ KnowInv /\ EnterLoop => KnowInv'
<1> SUFFICES ASSUME Inv, IdInv, KnowInv, EnterLoop PROVE KnowInv'
  OBVIOUS
<1>1. pc = "wait" /\ UNCHANGED <<log, reservations>>
  BY DEF EnterLoop
<1>2. /\ TrueLog(log) /\ Late(log) = {}
      /\ \A r \in reservations : r.action \in Recorded(log)
      /\ job.state = LatestState(log) /\ IsTrue(log, LatestState(log))
  BY <1>1, LatestKnown DEF KnowInv, KnowsActions, Learned, Holds
<1>3. \/ Return(log)
      \/ \E limit : /\ pc' = "step" /\ run' = run
                    /\ job' = [job EXCEPT !.step = 1, !.action = NoAction,
                                          !.limit = limit]
  BY DEF EnterLoop
<1>4. CASE Return(log)
  <2>1. Return(log')
    BY <1>1, <1>4 DEF Return, Offer
  <2> QED BY <1>1, <1>2, <2>1, ReturnKnows
<1>5. CASE \E limit : /\ pc' = "step" /\ run' = run
                      /\ job' = [job EXCEPT !.step = 1, !.action = NoAction,
                                            !.limit = limit]
  <2>1. job'.state = job.state /\ pc' = "step" /\ run' = run
    BY <1>5, LogFacts DEF IsJob
  <2>2. KnowsAnswer'
    BY <1>1, <2>1 DEF KnowInv, KnowsAnswer
  <2> QED BY <1>1, <1>2, <2>1, <2>2, HoldsOn
<1> QED BY <1>3, <1>4, <1>5

(* A decision is an action with the id of the loop's step, and its update  *)
(* claims no validation without evidence.                                  *)
LEMMA DecisionFits ==
  ASSUME NEW a \in DecidedActions, job.state.iteration \in Nat
  PROVE  a # NoAction /\ a.id = <<"explore", job.state.iteration + 1>>
<1> DEFINE id == <<"explore", job.state.iteration + 1>>
           n == job.state.iteration + 1
           Decisions == [id : {"explore"} \X Nat, kind : LoopKinds,
                         path : Paths \union {NoContent},
                         from : Contents \union {NoContent},
                         to : Contents \union {NoContent},
                         size : Nat, ref : {NoRef}]
<1>1. LoopId = id /\ id \in {"explore"} \X Nat
  BY DEF LoopId
<1> HIDE DEF id
<1>2. \/ \E k \in LoopKinds, m \in Nat : a = Read(id, k, m)
      \/ \E k \in LoopKinds, e \in Edits :
           a = Action(id, k, e[1], e[2], e[3], 1, NoRef)
  <2>1. \/ \E k \in Kinds : a = Read(id, k, 1)
        \/ \E m \in BatchSizes :
             "parallel_read" \in Kinds /\ a = Read(id, "parallel_read", m)
        \/ \E k \in Kinds, e \in Edits :
             a = Action(id, k, e[1], e[2], e[3], 1, NoRef)
    BY <1>1 DEF DecidedActions
  <2>2. Kinds \subseteq LoopKinds /\ BatchSizes \subseteq Nat /\ 1 \in Nat
    BY AgentLoopAssumption
  <2> QED BY <2>1, <2>2
<1>3. a \in Decisions /\ a.id = id
  <2>1. CASE \E k \in LoopKinds, m \in Nat : a = Read(id, k, m)
    BY <1>1, <2>1 DEF Read, Action
  <2>2. CASE \E k \in LoopKinds, e \in Edits :
               a = Action(id, k, e[1], e[2], e[3], 1, NoRef)
    <3>1. PICK k \in LoopKinds, e \in Edits :
            a = Action(id, k, e[1], e[2], e[3], 1, NoRef)
      BY <2>2
    <3>2. e[1] \in Paths /\ e[2] \in Contents /\ e[3] \in Contents
      BY AgentLoopAssumption
    <3> DEFINE path == e[1]
               from == e[2]
               to == e[3]
    <3> HIDE DEF path, from, to
    <3>3. a = [id |-> id, kind |-> k, path |-> path, from |-> from, to |-> to,
               size |-> 1, ref |-> NoRef]
      BY <3>1 DEF Action, path, from, to
    <3> QED BY <1>1, <3>2, <3>3 DEF path, from, to
  <2> QED BY <1>2, <2>1, <2>2
<1>4. NoAction \notin Decisions
  BY NoActionAssumption
<1> HIDE DEF Decisions
<1> QED BY <1>3, <1>4 DEF id

LEMMA OfferedClaims ==
  ASSUME NEW u \in Offered
  PROVE  IsUpdate(u)
<1> SUFFICES ASSUME u # NoUpdate, NEW c \in u.criteria, c.kind = "validation"
             PROVE  c.evidence # {}
  BY DEF IsUpdate
<1> DEFINE cited == {o.id : o \in Range(job.state.recent)}
           claim(id, kind, required, ids) ==
             {[id |-> id, kind |-> kind, required |-> required,
               evidence |-> ids]}
           done(x) == {PlanItem(<<"investigate">>, "completed", {x})}
           update(plan, criteria) == [plan |-> plan, criteria |-> criteria]
<1>1. \/ \E x \in cited :
           u = update(done(x), claim(<<"analysis">>, "analysis", TRUE, {x}))
      \/ \E x \in cited : u = update(done(x), {})
      \/ u = update({PlanItem(<<"investigate">>, "pending", {})}, {})
      \/ u = update({}, claim(<<"analysis">>, "analysis", FALSE, {}))
      \/ u = update({}, claim(<<"extra">>, "analysis", TRUE, {}))
      \/ \E x \in cited :
           u = update({}, claim(<<"validation", 1>>, "validation", TRUE, {x}))
  <2> DEFINE all == [
        conclude |-> {update(done(x), claim(<<"analysis">>, "analysis", TRUE,
                                            {x})) : x \in cited},
        progress |-> {update(done(x), {}) : x \in cited},
        reopen   |-> {update({PlanItem(<<"investigate">>, "pending", {})},
                             {})},
        lower    |-> {update({}, claim(<<"analysis">>, "analysis", FALSE,
                                       {}))},
        add      |-> {update({}, claim(<<"extra">>, "analysis", TRUE, {}))},
        validated |-> {update({}, claim(<<"validation", 1>>, "validation",
                                        TRUE, {x})) : x \in cited}]
  <2>1. PICK i \in LoopIntents : u \in all[i]
    BY AgentLoopAssumption DEF Offered
  <2>2. u \in all.conclude \/ u \in all.progress \/ u \in all.reopen
        \/ u \in all.lower \/ u \in all.add \/ u \in all.validated
    <3> HIDE DEF all
    <3> QED BY <2>1 DEF LoopIntents
  <2> HIDE DEF cited, claim, done, update
  <2> QED BY <2>2
<1>2. CASE \E x \in cited :
             u = update(done(x), claim(<<"analysis">>, "analysis", TRUE, {x}))
  BY <1>2
<1>3. CASE \/ \E x \in cited : u = update(done(x), {})
           \/ u = update({PlanItem(<<"investigate">>, "pending", {})}, {})
  <2>1. \E plan : u = update(plan, {})
    BY <1>3
  <2> QED BY <2>1
<1>4. CASE \/ u = update({}, claim(<<"analysis">>, "analysis", FALSE, {}))
           \/ u = update({}, claim(<<"extra">>, "analysis", TRUE, {}))
  BY <1>4
<1>5. CASE \E x \in cited :
             u = update({}, claim(<<"validation", 1>>, "validation", TRUE,
                                  {x}))
  <2>1. PICK x \in cited :
          u = update({}, claim(<<"validation", 1>>, "validation", TRUE, {x}))
    BY <1>5
  <2>2. c.evidence = {x}
    BY <2>1
  <2> QED BY <2>2
<1> QED BY <1>1, <1>2, <1>3, <1>4, <1>5

LEMMA DecideKnows == Inv /\ IdInv /\ KnowInv /\ Decide => KnowInv'
<1> SUFFICES ASSUME Inv, IdInv, KnowInv, Decide PROVE KnowInv'
  OBVIOUS
<1>1. pc = "step" /\ pc' = "gate" /\ UNCHANGED <<run, reservations>>
  BY DEF Decide
<1>2. PICK a \in DecidedActions, u \in Offered :
        /\ UpdateFits(job.state, u)
        /\ log' = Append(log, [ActionEvent("decision_recorded", a)
                                 EXCEPT !.update = u])
        /\ job' = [job EXCEPT !.action = a, !.update = u]
  BY DEF Decide
<1> DEFINE e == [ActionEvent("decision_recorded", a) EXCEPT !.update = u]
           id == a.id
           types == {"decision_recorded"}
<1>3. /\ LogsEvents(log) /\ SnapshotsOK(log) /\ IdLog(log) /\ Ahead(log) = {}
      /\ Len(log) \in Nat /\ DOMAIN log = 1..Len(log)
      /\ IsState(job.state) /\ job.state.iteration = Iteration(log)
  BY <1>1, LogFacts DEF IdInv, HoldsState
<1>4. a # NoAction /\ a.id = <<"explore", Iteration(log) + 1>>
      /\ Iteration(log) \in Nat
  BY <1>3, DecisionFits DEF IsState
<1>5. IsUpdate(u)
  BY OfferedClaims
<1>6. e.type = "decision_recorded" /\ e.action = a /\ e.update = u
  <2>1. ActionEvent("decision_recorded", a) =
              [type |-> "decision_recorded", action |-> a, obs |-> NoObs,
               update |-> NoUpdate, state |-> NoState, checkpoint |-> 0,
               baseline |-> NoContent, answer |-> NoAnswer]
    BY EventFields
  <2> QED BY <2>1
<1>7. log' = Append(log, e)
  BY <1>2
<1> HIDE DEF e
<1>8. TrueEvent(log, e) /\ e.type # "input_received" /\ e.type \notin Learnt
  BY <1>5, <1>6 DEF TrueEvent, Learnt, Observations, TerminalTypes,
                    WaitingTypes
<1>9. /\ TrueLog(log') /\ LatestState(log') = LatestState(log)
      /\ Late(log') = Late(log)
      /\ Len(log') = Len(log) + 1 /\ log'[Len(log')] = e
      /\ (job.state # NoState => IsTrue(log', job.state))
      /\ a \in Recorded(log')
  BY <1>4, <1>6, <1>7, <1>8, EventKnown
<1>10. Late(log) = {} /\ job.state = LatestState(log)
  BY <1>1 DEF KnowInv, Learned, Holds
<1>11. /\ job'.state = job.state /\ job'.action = a /\ job'.update = u
       /\ job'.then = job.then
  BY <1>2, LogFacts DEF IsJob
<1>12. Decided(log)'
  <2> DEFINE found == Of(log', id, types)
             n == Len(log) + 1
  <2>1. found = Of(log, id, types) \union {n}
        /\ Of(log, id, types) \subseteq 1..Len(log)
    <3>1. /\ Of(Append(log, e), id, types) = Of(log, id, types) \union
               (IF e.action # NoAction /\ e.action.id = id
                   /\ e.type \in types THEN {Len(log) + 1} ELSE {})
          /\ Of(log, id, types) \subseteq 1..Len(log)
      BY <1>3, OfGrows
    <3> QED BY <1>4, <1>6, <1>7, <3>1
  <2>2. n \in Nat /\ found \subseteq 1..n /\ n \in found
    BY <1>3, <2>1
  <2> HIDE DEF found, n
  <2>3. Newest(found) \in found /\ n <= Newest(found)
    BY <2>2, NewestIsLast
  <2>4. Newest(found) = n
    <3> DEFINE q == Newest(found)
    <3>1. q \in 1..n /\ n <= q
      BY <2>2, <2>3
    <3> HIDE DEF q
    <3>2. q = n
      BY <2>2, <3>1
    <3> QED BY <3>2 DEF q
  <2>5. Has(log', id, types) /\ At(log', id, types) = n
    BY <2>2, <2>4 DEF Has, At, found
  <2>6. SnapshotAt(log') = SnapshotAt(log) /\ SnapshotAt(log) \in 0..Len(log)
    BY <1>3, <1>6, <1>7, SnapshotKept, LatestIsState
  <2>7. n > SnapshotAt(log')
    BY <1>3, <2>6 DEF n
  <2>8. log'[n] = e
    BY <1>9 DEF n
  <2> HIDE DEF types
  <2>9. /\ Has(log', id, types) /\ At(log', id, types) > SnapshotAt(log')
        /\ log'[At(log', id, types)].update = u
    BY <1>6, <2>5, <2>7, <2>8
  <2> QED BY <1>2, <1>5, <1>11, <2>9 DEF Decided, types
<1>13. Reserved(a) = {}
  <2>1. ASSUME NEW r \in reservations, r.action.id = a.id PROVE FALSE
    <3> DEFINE b == r.action
    <3>1. b \in Recorded(log) /\ b.id = <<"explore", Iteration(log) + 1>>
      BY <1>4, <2>1 DEF KnowInv, KnowsActions
    <3>2. IsDecided(b) \/ IsDerived(b)
      BY <1>3, <3>1 DEF IdLog, ActionsOK
    <3> HIDE DEF b
    <3>3. Number(b) = Iteration(log) + 1
      BY <3>1 DEF Number
    <3>4. CASE IsDecided(b)
      <4>1. b \in Ahead(log)
        BY <1>4, <3>1, <3>3, <3>4 DEF Ahead
      <4> QED BY <1>3, <4>1
    <3>5. CASE IsDerived(b)
      <4>1. IsDecided(a) /\ a.id = b.id
        BY <1>4, <3>1 DEF IsDecided, Number
      <4>2. a = b
        BY <3>5, <4>1, DerivedById
      <4>3. b \in Ahead(log)
        BY <1>4, <3>1, <3>3, <4>1, <4>2 DEF Ahead
      <4> QED BY <1>3, <4>3
    <3> QED BY <3>2, <3>4, <3>5
  <2> QED BY <2>1 DEF Reserved
<1>14. KnowsAnswer'
  BY <1>1, <1>7, <1>8, AnswersStay
<1>15. KnowsActions'
  <2>1. \A r \in reservations' : r.action \in Recorded(log')
    BY <1>1, <1>7, ReservedStay
  <2>2. Reserved(job.action)' = {}
    BY <1>1, <1>11, <1>13 DEF Reserved
  <2> QED BY <1>1, <1>9, <1>11, <2>1, <2>2 DEF KnowsActions, Executes
<1>16. KnowsOutcome'
  BY <1>1 DEF KnowsOutcome, ReturnsTo
<1> QED BY <1>9, <1>10, <1>11, <1>12, <1>14, <1>15, <1>16 DEF KnowInv

LEMMA DecisionFailsKnows ==
  Inv /\ IdInv /\ KnowInv /\ DecisionFails => KnowInv'
<1> SUFFICES ASSUME Inv, IdInv, KnowInv, DecisionFails PROVE KnowInv'
  OBVIOUS
<1> DEFINE s == Stop(job.state, "failed")
<1>1. /\ pc = "step" /\ Fail /\ reservations' = reservations
      /\ log' = log \/ log' = Append(log, Snapshot(s))
  BY DEF DecisionFails
<1>2. /\ TrueLog(log) /\ Late(log) = {} /\ job.state = LatestState(log)
      /\ IsTrue(log, LatestState(log))
      /\ \A r \in reservations : r.action \in Recorded(log)
  BY <1>1, LatestKnown DEF KnowInv, KnowsActions, Learned, Holds
<1>3. CASE log' = log
  BY <1>1, <1>2, <1>3, FailKnows
<1>4. CASE log' = Append(log, Snapshot(s))
  <2>1. IsTrue(log, s) /\ s.inputs = LatestState(log).inputs
    BY <1>2, StoppedIsTrue
  <2> HIDE DEF s
  <2>2. HasAnswer(log, Len(log), s)
    BY <1>2, <2>1, LatestKnown
  <2>3. TrueLog(log') /\ \A r \in reservations' : r.action \in Recorded(log')
    BY <1>1, <1>4, <2>1, <2>2, SnapshotKnown
  <2> QED BY <1>1, <2>3, FailKnows
<1> QED BY <1>1, <1>3, <1>4

LEMMA LimitReachedKnows ==
  Inv /\ IdInv /\ KnowInv /\ LimitReached => KnowInv'
<1> SUFFICES ASSUME Inv, IdInv, KnowInv, LimitReached PROVE KnowInv'
  OBVIOUS
<1>1. /\ pc = "step" /\ pc' = "end" /\ UNCHANGED <<log, run, reservations>>
      /\ job' = [job EXCEPT !.reason = "step_limit"]
  BY DEF LimitReached, stored
<1>2. /\ TrueLog(log) /\ Late(log) = {} /\ job.state = LatestState(log)
      /\ IsTrue(log, LatestState(log))
      /\ \A r \in reservations : r.action \in Recorded(log)
  BY <1>1, LatestKnown DEF KnowInv, KnowsActions, Learned, Holds
<1>3. job'.state = job.state
  BY <1>1, LogFacts DEF IsJob
<1>4. KnowsAnswer'
  BY <1>1 DEF KnowInv, KnowsAnswer
<1> QED BY <1>1, <1>2, <1>3, <1>4, HoldsOn

LEMMA GateKnows == Inv /\ IdInv /\ KnowInv /\ Gate => KnowInv'
<1> SUFFICES ASSUME Inv, IdInv, KnowInv, Gate PROVE KnowInv'
  OBVIOUS
<1>1. pc = "gate" /\ UNCHANGED <<run, reservations>>
  BY DEF Gate
<1>2. /\ Late(log) = {} /\ job.state = LatestState(log) /\ Decided(log)
      /\ (job.state # NoState => IsTrue(log, job.state))
      /\ Reserved(job.action) = {} /\ TrueLog(log)
      /\ \A r \in reservations : r.action \in Recorded(log)
  BY <1>1 DEF KnowInv, KnowsActions, Learned, Holds, InLoop
<1>3. job.action # NoAction
  BY <1>1 DEF KnowInv, KnowsActions, Recorded
<1>4. CASE pc' = "advance"
  <2>1. PICK type \in {"finish_blocked", "action_conflict"},
             obs \in {Plain("acceptance_incomplete"), Plain("conflict")} :
          /\ log' = Append(log, Result(type, job.action, obs))
          /\ job' = [job EXCEPT !.obs = obs]
    BY <1>4 DEF Gate
  <2> DEFINE e == Result(type, job.action, obs)
  <2>2. e.type = type /\ e.action = job.action /\ e.obs = obs
    BY EventFields
  <2>3. log' = Append(log, e)
    BY <2>1
  <2> HIDE DEF e
  <2>4. /\ TrueEvent(log, e)
        /\ e.type \notin {"input_received", "decision_recorded",
                          "working_state_updated"}
        /\ e.type \in Observations
    BY <1>3, <2>2 DEF TrueEvent, WaitingTypes, TerminalTypes, Observations
  <2>5. /\ TrueLog(log') /\ LatestState(log') = LatestState(log)
        /\ Late(log') \subseteq {Len(log')}
        /\ Len(log') = Len(log) + 1 /\ log'[Len(log')] = e
        /\ (job.state # NoState => IsTrue(log', job.state))
    BY <1>2, <2>3, <2>4, EventKnown
  <2>6. /\ job'.state = job.state /\ job'.action = job.action
        /\ job'.update = job.update /\ job'.obs = obs
    BY <2>1, LogFacts DEF IsJob
  <2>7. Decided(log)'
    BY <1>2, <2>3, <2>4, <2>6, DecidedStays
  <2>8. KnowsAnswer'
    BY <1>1, <1>4, <2>3, <2>4, AnswersStay
  <2>9. KnowsActions'
    <3>1. \A r \in reservations' : r.action \in Recorded(log')
      BY <1>1, <2>3, ReservedStay
    <3> QED BY <1>4, <3>1 DEF KnowsActions, Executes
  <2>10. KnowsOutcome'
    <3>1. Reports(log)'
      BY <2>2, <2>4, <2>5, <2>6, LogFacts DEF Reports
    <3> QED BY <2>5, <3>1 DEF KnowsOutcome
  <2>11. ~Learned'
    BY <1>4 DEF Learned, Executes
  <2> QED BY <1>2, <2>5, <2>6, <2>7, <2>8, <2>9, <2>10, <2>11 DEF KnowInv
<1>5. CASE pc' # "advance"
  <2>1. /\ pc' = "execute" /\ log' = log
        /\ job' = [job EXCEPT !.then = "advance"]
    BY <1>5 DEF Gate
  <2>2. /\ job'.state = job.state /\ job'.action = job.action
        /\ job'.update = job.update /\ job'.then = "advance"
    BY <2>1, LogFacts DEF IsJob
  <2>3. Decided(log)'
    BY <1>2, <2>1, <2>2 DEF Decided
  <2>4. KnowsAnswer'
    BY <1>1, <2>1 DEF KnowInv, KnowsAnswer
  <2>5. KnowsActions'
    BY <1>1, <1>2, <2>1, <2>2
    DEF KnowInv, KnowsActions, Executes, Reserved
  <2>6. KnowsOutcome'
    BY <2>1 DEF KnowsOutcome, ReturnsTo
  <2> QED BY <1>2, <2>1, <2>2, <2>3, <2>4, <2>5, <2>6 DEF KnowInv
<1> QED BY <1>4, <1>5

(* A state with the inputs of the last snapshot is recorded.               *)
LEMMA RecordKnown ==
  ASSUME Inv, IdInv, KnowInv, NEW s, IsTrue(log, s),
         s.inputs = LatestState(log).inputs,
         Late(log) = {} \/ pc \in ReturnsTo \ {"resumed"},
         log' = Append(log, Snapshot(s))
  PROVE  /\ TrueLog(log') /\ Late(log') = {} /\ LatestState(log') = s
         /\ IsTrue(log', s)
         /\ job.state # NoState => IsTrue(log', job.state)
         /\ run' = run /\ pc' # "answered" => KnowsAnswer'
         /\ reservations' = reservations =>
              \A r \in reservations' : r.action \in Recorded(log')
<1>1. HasAnswer(log, Len(log), s)
  BY LatestKnown
<1> QED BY <1>1, SnapshotKnown

(* The state after an observation that has returned.                       *)
LEMMA OutcomeIsTrue ==
  ASSUME Inv, IdInv, KnowInv, pc \in ReturnsTo \ {"resumed"},
         NEW u, UpdateFits(LatestState(log), u), IsUpdate(u),
         NEW s, s = Advance(LatestState(log), job.action, job.obs, u)
  PROVE  IsTrue(log, s) /\ s.inputs = LatestState(log).inputs
<1>1. IsTrue(log, LatestState(log))
  BY LatestKnown
<1>2. job.obs.status \in SuccessStatuses =>
        Shown(log, [id |-> job.action.id, kind |-> job.action.kind,
                    status |-> job.obs.status, ref |-> job.action.ref])
  <2>1. SUFFICES ASSUME job.obs.status \in SuccessStatuses
                 PROVE  \E i \in DOMAIN log :
                          /\ log[i].type \in TerminalTypes
                          /\ log[i].action = job.action
                          /\ log[i].obs = job.obs
    BY DEF Shown
  <2>2. Reports(log) /\ LearntOK(log)
    BY <2>1 DEF KnowInv, KnowsOutcome, SuccessStatuses, TrueLog
  <2>3. Len(log) \in DOMAIN log
    BY <2>2, LogFacts DEF Reports
  <2>4. log[Len(log)].type \in TerminalTypes
    BY <2>1, <2>2, <2>3 DEF Reports, LearntOK, Observations
  <2> QED BY <2>2, <2>3, <2>4 DEF Reports
<1> QED BY <1>1, <1>2, AdvancedIsTrue

LEMMA NoUpdateFits ==
  ASSUME NEW s
  PROVE  UpdateFits(s, NoUpdate) /\ IsUpdate(NoUpdate)
BY DEF UpdateFits, IsUpdate

LEMMA AdvanceStateKnows ==
  Inv /\ IdInv /\ KnowInv /\ AdvanceState => KnowInv'
<1> SUFFICES ASSUME Inv, IdInv, KnowInv, AdvanceState PROVE KnowInv'
  OBVIOUS
<1> DEFINE s == Advance(job.state, job.action, job.obs, job.update)
<1>1. /\ pc = "advance" /\ UNCHANGED <<run, reservations>>
      /\ log' = Append(log, Snapshot(s))
      /\ \E reason :
           /\ pc' = IF reason = "none" THEN "step" ELSE "end"
           /\ job' = [job EXCEPT !.state = s, !.reason = reason,
                                 !.step = @ + 1, !.action = NoAction,
                                 !.update = NoUpdate, !.obs = NoObs]
  BY DEF AdvanceState
<1>2. job.state = LatestState(log) /\ pc \in ReturnsTo \ {"resumed"}
  BY <1>1 DEF KnowInv, Holds, InLoop, ReturnsTo
<1>3. UpdateFits(job.state, job.update) /\ IsUpdate(job.update)
  BY <1>1 DEF KnowInv, InLoop, Decided
<1>4. IsTrue(log, s) /\ s.inputs = LatestState(log).inputs
  BY <1>2, <1>3, OutcomeIsTrue
<1> HIDE DEF s
<1>5. job'.state = s /\ pc' \in {"step", "end"}
  BY <1>1, LogFacts DEF IsJob
<1>6. /\ TrueLog(log') /\ Late(log') = {} /\ LatestState(log') = s
      /\ IsTrue(log', s) /\ KnowsAnswer'
      /\ \A r \in reservations' : r.action \in Recorded(log')
  BY <1>1, <1>2, <1>4, <1>5, RecordKnown
<1> QED BY <1>5, <1>6, HoldsOn

LEMMA EndLoopKnows == Inv /\ IdInv /\ KnowInv /\ EndLoop => KnowInv'
<1> SUFFICES ASSUME Inv, IdInv, KnowInv, EndLoop PROVE KnowInv'
  OBVIOUS
<1> DEFINE s == Stop(job.state, job.reason)
<1>1. /\ pc = "end" /\ Return(log') /\ reservations' = reservations
      /\ log' = log \/ log' = Append(log, Snapshot(s))
  BY DEF EndLoop
<1>2. /\ TrueLog(log) /\ Late(log) = {} /\ job.state = LatestState(log)
      /\ IsTrue(log, LatestState(log))
      /\ \A r \in reservations : r.action \in Recorded(log)
  BY <1>1, LatestKnown DEF KnowInv, KnowsActions, Learned, Holds
<1>3. IsTrue(log, s) /\ s.inputs = LatestState(log).inputs
  BY <1>2, StoppedIsTrue
<1> HIDE DEF s
<1>4. CASE log' = log
  BY <1>1, <1>2, <1>4, ReturnKnows
<1>5. CASE log' = Append(log, Snapshot(s))
  <2>1. /\ TrueLog(log') /\ Late(log') = {}
        /\ \A r \in reservations' : r.action \in Recorded(log')
    BY <1>1, <1>2, <1>3, <1>5, RecordKnown
  <2> QED BY <1>1, <2>1, ReturnKnows
<1> QED BY <1>1, <1>4, <1>5

LEMMA LoopStepKnows == Inv /\ IdInv /\ KnowInv /\ Loop => KnowInv'
BY ReconcileKnows, RecoverKnows, ResumePendingKnows, ResumedKnows,
   EnterLoopKnows, DecideKnows, DecisionFailsKnows, LimitReachedKnows,
   GateKnows, AdvanceStateKnows, EndLoopKnows DEF Loop

-----------------------------------------------------------------------------
(* The calls of the user keep the invariant.                               *)

LEMMA IdleKnows ==
  ASSUME Inv, IdInv, KnowInv, pc = "idle",
         UNCHANGED <<log, reservations, pc, job>>, run'.checkpoint = 0,
         (run'.question # NoAction
            /\ Has(log, run'.question.id, {"input_received"})) =>
           NewestAnswer(log, run'.question.id)
  PROVE  KnowInv'
<1>1. ~OfferedPending'
  BY DEF OfferedPending
<1>2. ~Holds' /\ ~InLoop' /\ ~Learned'
  BY <1>1 DEF Holds, InLoop, Learned, Executes
<1>3. KnowsActions' /\ KnowsOutcome' /\ KnowsAnswer'
  BY DEF KnowInv, KnowsActions, KnowsOutcome, KnowsAnswer, Executes,
         ReturnsTo
<1> QED BY <1>2, <1>3 DEF KnowInv

LEMMA RestoreQuestionKnows ==
  Inv /\ IdInv /\ KnowInv /\ RestoreQuestion => KnowInv'
<1> SUFFICES ASSUME Inv, IdInv, KnowInv, RestoreQuestion PROVE KnowInv'
  OBVIOUS
<1>1. /\ pc = "idle" /\ run.checkpoint = 0
      /\ run' = [run EXCEPT !.question = PendingInput(log)]
      /\ UNCHANGED <<log, reservations, pc, job>>
  BY DEF RestoreQuestion, Offering
<1>2. run'.checkpoint = 0 /\ run'.question = PendingInput(log)
  BY <1>1, AtAnyPoint
<1>3. PendingInput(log) # NoAction =>
        ~Has(log, PendingInput(log).id, {"input_received"})
  BY DEF PendingInput
<1> QED BY <1>1, <1>2, <1>3, IdleKnows

LEMMA CancelKnows == Inv /\ IdInv /\ KnowInv /\ Cancel => KnowInv'
<1> SUFFICES ASSUME Inv, IdInv, KnowInv, Cancel PROVE KnowInv'
  OBVIOUS
<1>1. /\ pc = "idle" /\ UNCHANGED <<log, reservations, pc, job>>
      /\ run' = [run EXCEPT !.checkpoint = 0, !.question = NoAction]
  BY DEF Cancel
<1>2. run'.checkpoint = 0 /\ run'.question = NoAction
  BY <1>1, AtAnyPoint
<1> QED BY <1>1, <1>2, IdleKnows

(* A call of the user begins.                                              *)
LEMMA CallState ==
  ASSUME NEW name, NEW point, NEW a, NEW then, Call(name, point, a, then)
  PROVE  job'.state = NoState
<1>1. IsJob(Job(name)) /\ Job(name).state = NoState
  BY NoJobFields
<1> QED BY <1>1 DEF Call, IsJob

LEMMA AnswerKnows == Inv /\ IdInv /\ KnowInv /\ Answer => KnowInv'
<1> SUFFICES ASSUME Inv, IdInv, KnowInv, Answer PROVE KnowInv'
  OBVIOUS
<1> DEFINE q == run.question
           types == {"input_received"}
<1>1. q # NoAction /\ Call("answer", "answered", q, "idle")
  BY DEF Answer
<1>2. /\ pc' = "answered" /\ job'.action = q /\ job'.state = NoState
      /\ UNCHANGED <<run, reservations>>
  BY <1>1, CallFields, CallState
<1>3. /\ TrueLog(log') /\ NewestAnswer(log', q.id)
      /\ \A r \in reservations' : r.action \in Recorded(log')
  <2>1. CASE Has(log, q.id, types)
    <3>1. log' = log
      BY <2>1 DEF Answer
    <3> QED BY <1>1, <1>2, <2>1, <3>1
            DEF KnowInv, KnowsAnswer, KnowsActions
  <2>2. CASE ~Has(log, q.id, types)
    <3>1. PICK answer \in Answers :
            log' = Append(log, [ActionEvent("input_received", q)
                                  EXCEPT !.answer = answer])
      BY <2>2 DEF Answer
    <3> DEFINE e == [ActionEvent("input_received", q) EXCEPT !.answer = answer]
               n == Len(log) + 1
    <3>2. e.type = "input_received" /\ e.action = q
      BY EventFields
    <3>3. log' = Append(log, e)
      BY <3>1
    <3> HIDE DEF e, q
    <3>4. /\ LogsEvents(log) /\ SnapshotsOK(log) /\ TrueLog(log)
          /\ Len(log) \in Nat /\ DOMAIN log = 1..Len(log)
      BY LogFacts DEF KnowInv
    <3>5. \A j \in DOMAIN log :
            log[j].type = "input_received" => log[j].action.id # q.id
      <4>1. \A j \in DOMAIN log :
              log[j].type = "input_received" => log[j].action # NoAction
        BY <3>4 DEF TrueLog, LearntOK, Learnt
      <4> QED BY <2>2, <4>1 DEF Has, Of
    <3>6. TrueEvent(log, e)
      BY <1>1, <3>2, <3>5 DEF TrueEvent, WaitingTypes
    <3>7. TrueLog(log')
      BY <3>3, <3>4, <3>6, TrueLogGrows
    <3>8. /\ n \in Nat /\ DOMAIN log' = 1..n /\ log'[n] = e
      BY <3>3, <3>4, AppendGrows DEF LogsEvents
    <3>9. NewestAnswer(log', q.id)
      <4> HIDE DEF n
      <4>1. n \in 1..n /\ \A j \in 1..n : j <= n
        BY <3>4 DEF n
      <4>2. n \in DOMAIN log' /\ \A j \in DOMAIN log' : j <= n
        BY <3>8, <4>1, Zenon
      <4> QED BY <3>2, <3>8, <4>2 DEF NewestAnswer
    <3>10. \A r \in reservations' : r.action \in Recorded(log')
      BY <1>2, <3>3, ReservedStay
    <3> QED BY <3>7, <3>9, <3>10
  <2> QED BY <2>1, <2>2
<1> HIDE DEF q
<1>4. ~Holds' /\ ~InLoop' /\ ~Learned'
  BY <1>2 DEF Holds, InLoop, Learned, Executes
<1>5. KnowsActions' /\ KnowsOutcome' /\ KnowsAnswer'
  BY <1>2, <1>3 DEF KnowsActions, KnowsOutcome, KnowsAnswer, Executes,
                    ReturnsTo, q
<1> QED BY <1>2, <1>3, <1>4, <1>5 DEF KnowInv

(* The settlement of a request is nothing to learn.                        *)
LEMMA SettledKnows ==
  ASSUME Inv, IdInv, KnowInv, pc = "idle", OfferedPending,
         NEW e, e.type \in {"approval_granted", "approval_rejected"},
         log' = Append(log, e), reservations' = reservations, run' = run,
         pc' # "answered"
  PROVE  /\ TrueLog(log') /\ Late(log') = {} /\ KnowsAnswer'
         /\ \A r \in reservations' : r.action \in Recorded(log')
<1>1. TrueEvent(log, e) /\ e.type # "input_received" /\ e.type \notin Learnt
  BY DEF TrueEvent, Learnt, Observations, TerminalTypes, WaitingTypes
<1>2. Late(log) = {}
  BY DEF KnowInv, Learned
<1> QED BY <1>1, <1>2, EventKnown, AnswersStay, ReservedStay

LEMMA ApproveKnows == Inv /\ IdInv /\ KnowInv /\ Approve => KnowInv'
<1> SUFFICES ASSUME Inv, IdInv, KnowInv, Approve PROVE KnowInv'
  OBVIOUS
<1> DEFINE a == PendingApprovalAction
           c == run.checkpoint
           e == [ActionEvent("approval_granted", a) EXCEPT !.checkpoint = c]
           then == IF a.kind = "validate" THEN "validated" ELSE "written"
<1>1. /\ OfferedPending /\ Call("approve", "execute", a, then) /\ pc = "idle"
      /\ log' = Append(log, e)
  BY DEF Approve, MayCall
<1>2. a.kind \in SideEffects
  BY <1>1, PendingRequestWaits
<1>3. then \in {"validated", "written"}
  OBVIOUS
<1>4. e.type = "approval_granted"
  BY EventFields
<1> HIDE DEF e, a, then
<1>5. /\ pc' = "execute" /\ job'.action = a /\ job'.then = then
      /\ job'.state = NoState /\ UNCHANGED <<run, reservations>>
  BY <1>1, CallFields, CallState
<1>6. /\ TrueLog(log') /\ Late(log') = {} /\ KnowsAnswer'
      /\ \A r \in reservations' : r.action \in Recorded(log')
  BY <1>1, <1>4, <1>5, SettledKnows
<1>7. ~Holds' /\ ~InLoop'
  BY <1>3, <1>5 DEF Holds, InLoop
<1>8. KnowsActions' /\ KnowsOutcome'
  BY <1>2, <1>3, <1>5, <1>6 DEF KnowsActions, KnowsOutcome, Executes, ReturnsTo
<1> QED BY <1>5, <1>6, <1>7, <1>8 DEF KnowInv

LEMMA RejectKnows == Inv /\ IdInv /\ KnowInv /\ Reject => KnowInv'
<1> SUFFICES ASSUME Inv, IdInv, KnowInv, Reject PROVE KnowInv'
  OBVIOUS
<1> DEFINE a == PendingApprovalAction
           c == run.checkpoint
           e == [ActionEvent("approval_rejected", a) EXCEPT !.checkpoint = c]
<1>1. /\ pc = "idle" /\ OfferedPending /\ log' = Append(log, e)
      /\ Call("reject", "rejected", NoAction, "idle")
  BY DEF Reject, MayCall
<1>2. e.type = "approval_rejected"
  BY EventFields
<1> HIDE DEF e, a
<1>3. /\ pc' = "rejected" /\ job'.state = NoState
      /\ UNCHANGED <<run, reservations>>
  BY <1>1, CallFields, CallState
<1>4. /\ TrueLog(log') /\ Late(log') = {} /\ KnowsAnswer'
      /\ \A r \in reservations' : r.action \in Recorded(log')
  BY <1>1, <1>2, <1>3, SettledKnows
<1>5. ~Holds' /\ ~InLoop'
  BY <1>3 DEF Holds, InLoop, Executes
<1>6. KnowsActions' /\ KnowsOutcome'
  BY <1>3, <1>4 DEF KnowsActions, KnowsOutcome, Executes, ReturnsTo
<1> QED BY <1>3, <1>4, <1>5, <1>6 DEF KnowInv

LEMMA UserCallKnows == Inv /\ IdInv /\ KnowInv /\ UserCall => KnowInv'
BY AnswerKnows, ApproveKnows, RejectKnows, RestoreQuestionKnows, CancelKnows
DEF UserCall

-----------------------------------------------------------------------------
(* What follows the calls of the user keeps the invariant.                 *)

(* The newest answer is the one that the log gives for its question.       *)
LEMMA NewestIsGiven ==
  ASSUME NEW l, LogsEvents(l), LearntOK(l), NEW id, NewestAnswer(l, id)
  PROVE  LET i == At(l, id, {"input_received"})
         IN  /\ i \in DOMAIN l /\ l[i].type = "input_received"
             /\ l[i].action.id = id
             /\ \A j \in DOMAIN l : l[j].type = "input_received" => j <= i
<1> DEFINE types == {"input_received"}
           found == Of(l, id, types)
           i == At(l, id, types)
<1>1. PICK n \in DOMAIN l :
        /\ l[n].type = "input_received" /\ l[n].action.id = id
        /\ \A j \in DOMAIN l : l[j].type = "input_received" => j <= n
  BY DEF NewestAnswer
<1>2. l[n].action # NoAction
  BY <1>1 DEF LearntOK, Learnt
<1>3. n \in found /\ found \subseteq DOMAIN l
  BY <1>1, <1>2 DEF Of
<1>4. Len(l) \in Nat /\ DOMAIN l = 1..Len(l)
  BY AppendGrows DEF LogsEvents
<1>5. i = Newest(found)
  BY DEF At
<1> HIDE DEF i
<1>6. i \in found
  <2> HIDE DEF found
  <2> QED BY <1>3, <1>4, <1>5, NewestIsLast
<1>7. l[i].type = "input_received" /\ l[i].action.id = id
  BY <1>6 DEF Of
<1>8. i = n
  BY <1>1, <1>3, <1>6, <1>7 DEF LearntOK
<1> QED BY <1>1, <1>8 DEF i

LEMMA AnsweredKnows == Inv /\ IdInv /\ KnowInv /\ Answered => KnowInv'
<1> SUFFICES ASSUME Inv, IdInv, KnowInv, Answered PROVE KnowInv'
  OBVIOUS
<1> DEFINE id == job.action.id
           i == At(log, id, {"input_received"})
           answer == log[i].answer
           s == Rebuilt(log)
           t == RecordAnswer(s, id, answer)
<1>1. /\ pc = "answered" /\ UNCHANGED <<run, reservations>>
      /\ Resume(log', job.cycle)
      /\ \/ log' = log
         \/ log' = Append(log, Snapshot(s))
         \/ log' = Append(log, Snapshot(t))
  BY DEF Answered
<1>2. /\ LogsEvents(log) /\ SnapshotsOK(log) /\ TrueLog(log) /\ LearntOK(log)
      /\ NewestAnswer(log, id)
      /\ \A r \in reservations : r.action \in Recorded(log)
  BY <1>1, LogFacts DEF KnowInv, KnowsActions, KnowsAnswer, TrueLog
<1>3. pc' = "recover"
  BY <1>1 DEF Resume
<1>4. ASSUME TrueLog(log'), KnowsAnswer',
             \A r \in reservations' : r.action \in Recorded(log')
      PROVE  KnowInv'
  BY <1>1, <1>4, ResumeKnows DEF KnowsAnswer
<1>5. CASE log' = log
  BY <1>1, <1>2, <1>3, <1>4, <1>5 DEF KnowInv, KnowsAnswer
<1>6. IsTrue(log, s) /\ HasAnswer(log, Len(log), s)
  BY <1>2, RebuiltIsTrue
<1> HIDE DEF s
<1>7. CASE log' = Append(log, Snapshot(s))
  BY <1>1, <1>3, <1>4, <1>6, <1>7, SnapshotKnown
<1>8. CASE log' = Append(log, Snapshot(t))
  <2>1. /\ i \in DOMAIN log /\ log[i].type = "input_received"
        /\ log[i].action.id = id
        /\ \A j \in DOMAIN log : log[j].type = "input_received" => j <= i
    BY <1>2, NewestIsGiven
  <2> HIDE DEF i
  <2>2. Given(log, [id |-> id, answer |-> answer])
    BY <2>1 DEF Given
  <2> HIDE DEF answer, id
  <2>3. /\ IsTrue(log, t)
        /\ [id |-> id, answer |-> answer] \in Range(t.inputs)
    BY <1>6, <2>2, AnsweredIsTrue
  <2> HIDE DEF t
  <2>4. HasAnswer(log, Len(log), t)
    <3>1. SUFFICES ASSUME NEW k \in DOMAIN log,
                          log[k].type = "input_received",
                          \A j \in DOMAIN log :
                            log[j].type = "input_received"
                              /\ j <= Len(log) => j <= k
                   PROVE  \E r \in Range(t.inputs) :
                            /\ r.id = log[k].action.id
                            /\ r.answer = log[k].answer
      BY DEF HasAnswer
    <3>2. k = i
      BY <2>1, <3>1, LogFacts
    <3> QED BY <2>1, <2>3, <3>2 DEF answer
  <2> QED BY <1>1, <1>3, <1>4, <1>8, <2>3, <2>4, SnapshotKnown
<1> QED BY <1>1, <1>5, <1>7, <1>8

LEMMA RejectedStateKnows ==
  Inv /\ IdInv /\ KnowInv /\ RejectedState => KnowInv'
<1> SUFFICES ASSUME Inv, IdInv, KnowInv, RejectedState PROVE KnowInv'
  OBVIOUS
<1> DEFINE s == Stop(LatestState(log), "approval_rejected")
<1>1. /\ pc = "rejected" /\ Fail /\ reservations' = reservations
      /\ log' = Append(log, Snapshot(s))
  BY DEF RejectedState
<1>2. Late(log) = {} /\ IsTrue(log, LatestState(log))
  BY <1>1, LatestKnown DEF KnowInv, Learned
<1>3. IsTrue(log, s) /\ s.inputs = LatestState(log).inputs
  BY <1>2, StoppedIsTrue
<1> HIDE DEF s
<1>4. TrueLog(log') /\ \A r \in reservations' : r.action \in Recorded(log')
  BY <1>1, <1>2, <1>3, RecordKnown
<1> QED BY <1>1, <1>4, FailKnows

(* An execution begins, and every event is in the last snapshot.           *)
LEMMA BeginKnows ==
  ASSUME TrueLog(log'), Late(log') = {}, pc' = "execute",
         \/ job'.then = "requested"
         \/ job'.then = "diffed" /\ job'.state = LatestState(log'),
         job'.state # NoState => IsTrue(log', job'.state),
         \A r \in reservations' : r.action \in Recorded(log'), KnowsAnswer'
  PROVE  KnowInv'
<1>1. ~InLoop' /\ (Holds' => job'.then = "diffed")
  BY DEF InLoop, Holds
<1>2. KnowsActions' /\ KnowsOutcome'
  BY DEF KnowsActions, KnowsOutcome, Executes, ReturnsTo
<1> QED BY <1>1, <1>2 DEF KnowInv

LEMMA WrittenKnows == Inv /\ IdInv /\ KnowInv /\ Written => KnowInv'
<1> SUFFICES ASSUME Inv, IdInv, KnowInv, Written PROVE KnowInv'
  OBVIOUS
<1> DEFINE a == job.action
           state == Advance(LatestState(log), a, job.obs, NoUpdate)
           changed == job.obs.changed
           after == PostWrite(state, a.id, changed, Commands)
           stopped == Stop(state, "approval_required")
           diff == Read(Append(a.id, "diff"), "inspect_diff", 1)
<1>1. /\ pc = "written" /\ pc \in ReturnsTo \ {"resumed"}
      /\ reservations' = reservations /\ a.kind \in SideEffects
  BY DEF Written, ReturnsTo, KnowInv, KnowsActions
<1>2. IsTrue(log, state) /\ state.inputs = LatestState(log).inputs
  BY <1>1, NoUpdateFits, OutcomeIsTrue
<1>3. CASE job.obs.status = "approval_required"
  <2>1. Return(log') /\ log' = Append(log, Snapshot(stopped))
    BY <1>3 DEF Written, SuccessStatuses
  <2> HIDE DEF state
  <2>2. IsTrue(log, stopped) /\ stopped.inputs = LatestState(log).inputs
    BY <1>2, StoppedIsTrue
  <2> HIDE DEF stopped
  <2>3. /\ TrueLog(log') /\ Late(log') = {}
        /\ \A r \in reservations' : r.action \in Recorded(log')
    BY <1>1, <2>1, <2>2, RecordKnown
  <2> QED BY <2>1, <2>3, ReturnKnows
<1>4. CASE job.obs.status \in SuccessStatuses
  <2>1. /\ log' = Append(log, Snapshot(after)) /\ pc' = "execute"
        /\ job' = [job EXCEPT !.action = diff, !.then = "diffed",
                              !.state = after]
        /\ run' = run
    BY <1>4 DEF Written, SuccessStatuses
  <2>2. Succeeded(log, a.id, EvidenceKinds, NoRef)
    <3>1. Reports(log) /\ LearntOK(log)
      BY <1>1, <1>4 DEF KnowInv, KnowsOutcome, SuccessStatuses, TrueLog
    <3>2. Len(log) \in DOMAIN log
      BY <3>1, LogFacts DEF Reports
    <3>3. log[Len(log)].type \in TerminalTypes
      BY <1>4, <3>1, <3>2 DEF Reports, LearntOK, Observations
    <3>4. a.kind \in EvidenceKinds
      BY <1>1 DEF SideEffects, EvidenceKinds
    <3> QED BY <1>4, <3>1, <3>2, <3>3, <3>4 DEF Reports, Succeeded
  <2>3. Commands \in Seq(Range(Commands))
    BY AgentLoopAssumption
  <2> HIDE DEF state, changed
  <2>4. IsTrue(log, after) /\ after.inputs = LatestState(log).inputs
    BY <1>2, <2>2, <2>3, PostWriteIsTrue
  <2> HIDE DEF after, diff
  <2>5. /\ TrueLog(log') /\ Late(log') = {} /\ LatestState(log') = after
        /\ IsTrue(log', after) /\ KnowsAnswer'
        /\ \A r \in reservations' : r.action \in Recorded(log')
    BY <1>1, <2>1, <2>4, RecordKnown
  <2>6. job'.state = after /\ job'.then = "diffed"
    BY <2>1, LogFacts DEF IsJob
  <2> QED BY <2>1, <2>5, <2>6, BeginKnows
<1>5. CASE job.obs.status \notin SuccessStatuses \union {"approval_required"}
  <2>1. Reset /\ UNCHANGED <<log, run>>
    BY <1>5 DEF Written
  <2> QED BY <1>1, <2>1, QuitKnows
<1> QED BY <1>3, <1>4, <1>5

LEMMA DiffedKnows == Inv /\ IdInv /\ KnowInv /\ Diffed => KnowInv'
<1> SUFFICES ASSUME Inv, IdInv, KnowInv, Diffed PROVE KnowInv'
  OBVIOUS
<1> DEFINE s == Advance(job.state, job.action, job.obs, NoUpdate)
<1>1. /\ pc = "diffed" /\ pc' = "close" /\ UNCHANGED <<run, reservations>>
      /\ log' = Append(log, Snapshot(s)) /\ job' = [job EXCEPT !.state = s]
  BY DEF Diffed
<1>2. job.state = LatestState(log) /\ pc \in ReturnsTo \ {"resumed"}
  BY <1>1 DEF KnowInv, Holds, ReturnsTo
<1>3. IsTrue(log, s) /\ s.inputs = LatestState(log).inputs
  BY <1>2, NoUpdateFits, OutcomeIsTrue
<1> HIDE DEF s
<1>4. job'.state = s
  BY <1>1, LogFacts DEF IsJob
<1>5. /\ TrueLog(log') /\ Late(log') = {} /\ LatestState(log') = s
      /\ IsTrue(log', s) /\ KnowsAnswer'
      /\ \A r \in reservations' : r.action \in Recorded(log')
  BY <1>1, <1>2, <1>3, RecordKnown
<1> QED BY <1>1, <1>4, <1>5, HoldsOn

(* The state is recorded and the next command of the cycle is requested.   *)
LEMMA RequestNextKnows ==
  ASSUME Inv, IdInv, KnowInv, NEW s, IsTrue(log, s),
         s.inputs = LatestState(log).inputs,
         Late(log) = {} \/ pc \in ReturnsTo \ {"resumed"},
         log' = Append(log, Snapshot(s)), reservations' = reservations,
         NEW cycle, RequestNext(cycle)
  PROVE  KnowInv'
<1> DEFINE a == Validation(cycle.write, cycle.next)
<1>1. /\ pc' = "execute" /\ run' = run
      /\ job' = [job EXCEPT !.action = a, !.then = "requested",
                            !.cycle = cycle]
  BY DEF RequestNext
<1> HIDE DEF a
<1>2. job'.then = "requested" /\ job'.state = job.state
  BY <1>1, LogFacts DEF IsJob
<1>3. /\ TrueLog(log') /\ Late(log') = {} /\ KnowsAnswer'
      /\ (job.state # NoState => IsTrue(log', job.state))
      /\ \A r \in reservations' : r.action \in Recorded(log')
  BY <1>1, RecordKnown
<1> QED BY <1>1, <1>2, <1>3, BeginKnows

LEMMA CloseWriteKnows == Inv /\ IdInv /\ KnowInv /\ CloseWrite => KnowInv'
<1> SUFFICES ASSUME Inv, IdInv, KnowInv, CloseWrite PROVE KnowInv'
  OBVIOUS
<1> DEFINE s == Stop(job.state, "write_complete")
           cycle == [write |-> job.action.id[2], next |-> 1]
<1>1. /\ pc = "close" /\ log' = Append(log, Snapshot(s))
      /\ reservations' = reservations /\ (Fail \/ RequestNext(cycle))
  BY DEF CloseWrite
<1>2. /\ Late(log) = {} /\ job.state = LatestState(log)
      /\ IsTrue(log, LatestState(log))
  BY <1>1, LatestKnown DEF KnowInv, Learned, Holds
<1>3. IsTrue(log, s) /\ s.inputs = LatestState(log).inputs
  BY <1>2, StoppedIsTrue
<1> HIDE DEF s, cycle
<1>4. TrueLog(log') /\ \A r \in reservations' : r.action \in Recorded(log')
  BY <1>1, <1>2, <1>3, RecordKnown
<1>5. CASE Fail
  BY <1>4, <1>5, FailKnows
<1>6. CASE RequestNext(cycle)
  BY <1>1, <1>2, <1>3, <1>6, RequestNextKnows
<1> QED BY <1>1, <1>5, <1>6

LEMMA RequestedKnows == Inv /\ IdInv /\ KnowInv /\ Requested => KnowInv'
<1> SUFFICES ASSUME Inv, IdInv, KnowInv, Requested PROVE KnowInv'
  OBVIOUS
<1> DEFINE state == Advance(LatestState(log), job.action, job.obs, NoUpdate)
           s == Stop(state, "approval_required")
<1>1. /\ pc \in ReturnsTo \ {"resumed"} /\ reservations' = reservations
      /\ \/ Return(log') /\ log' = Append(log, Snapshot(s))
         \/ Fail /\ log' = log
  BY DEF Requested, ReturnsTo
<1>2. IsTrue(log, state) /\ state.inputs = LatestState(log).inputs
  BY <1>1, NoUpdateFits, OutcomeIsTrue
<1> HIDE DEF state
<1>3. IsTrue(log, s) /\ s.inputs = LatestState(log).inputs
  BY <1>2, StoppedIsTrue
<1> HIDE DEF s
<1>4. CASE Return(log') /\ log' = Append(log, Snapshot(s))
  <2>1. /\ TrueLog(log') /\ Late(log') = {}
        /\ \A r \in reservations' : r.action \in Recorded(log')
    BY <1>1, <1>3, <1>4, RecordKnown
  <2> QED BY <1>4, <2>1, ReturnKnows
<1>5. CASE Fail /\ log' = log
  BY <1>1, <1>5, FailKnows DEF KnowInv, KnowsActions
<1> QED BY <1>1, <1>4, <1>5

LEMMA ValidatedKnows == Inv /\ IdInv /\ KnowInv /\ Validated => KnowInv'
<1> SUFFICES ASSUME Inv, IdInv, KnowInv, Validated PROVE KnowInv'
  OBVIOUS
<1> DEFINE s == Advance(LatestState(log), job.action, job.obs, NoUpdate)
           cycle == [job.cycle EXCEPT !.next = @ + 1]
<1>1. /\ pc \in ReturnsTo \ {"resumed"} /\ reservations' = reservations
      /\ log' = Append(log, Snapshot(s))
      /\ \/ RequestNext(cycle)
         \/ /\ pc' = "observed" /\ run' = run
            /\ job' = [job EXCEPT !.cycle.next = 0]
  BY DEF Validated, ReturnsTo
<1>2. IsTrue(log, s) /\ s.inputs = LatestState(log).inputs
  BY <1>1, NoUpdateFits, OutcomeIsTrue
<1> HIDE DEF s, cycle
<1>3. CASE RequestNext(cycle)
  BY <1>1, <1>2, <1>3, RequestNextKnows
<1>4. CASE /\ pc' = "observed" /\ run' = run
           /\ job' = [job EXCEPT !.cycle.next = 0]
  <2>1. job'.state = job.state
    BY <1>4, LogFacts DEF IsJob
  <2>2. /\ TrueLog(log') /\ Late(log') = {} /\ KnowsAnswer'
        /\ (job.state # NoState => IsTrue(log', job.state))
        /\ \A r \in reservations' : r.action \in Recorded(log')
    BY <1>1, <1>2, <1>4, RecordKnown
  <2>3. ~Holds' /\ ~InLoop'
    BY <1>4 DEF Holds, InLoop, Executes
  <2>4. KnowsActions' /\ KnowsOutcome'
    BY <1>4, <2>2 DEF KnowsActions, KnowsOutcome, Executes, ReturnsTo
  <2> QED BY <2>1, <2>2, <2>3, <2>4 DEF KnowInv
<1> QED BY <1>1, <1>3, <1>4

LEMMA ObservedKnows == Inv /\ IdInv /\ KnowInv /\ Observed => KnowInv'
<1> SUFFICES ASSUME Inv, IdInv, KnowInv, Observed PROVE KnowInv'
  OBVIOUS
<1> DEFINE s == Stop(LatestState(log), "repair_stopped")
<1>1. /\ pc = "observed" /\ reservations' = reservations
      /\ \/ Fail /\ (log' = log \/ log' = Append(log, Snapshot(s)))
         \/ Resume(log', job.cycle) /\ UNCHANGED <<log, run>>
  BY DEF Observed
<1>2. /\ TrueLog(log) /\ Late(log) = {} /\ IsTrue(log, LatestState(log))
      /\ \A r \in reservations : r.action \in Recorded(log)
  BY <1>1, LatestKnown DEF KnowInv, KnowsActions, Learned
<1>3. IsTrue(log, s) /\ s.inputs = LatestState(log).inputs
  BY <1>2, StoppedIsTrue
<1> HIDE DEF s
<1>4. CASE Fail /\ log' = log
  BY <1>1, <1>2, <1>4, FailKnows
<1>5. CASE Fail /\ log' = Append(log, Snapshot(s))
  <2>1. TrueLog(log') /\ \A r \in reservations' : r.action \in Recorded(log')
    BY <1>1, <1>2, <1>3, <1>5, RecordKnown
  <2> QED BY <1>5, <2>1, FailKnows
<1>6. CASE Resume(log', job.cycle) /\ UNCHANGED <<log, run>>
  BY <1>1, <1>2, <1>6, ResumeKnows DEF KnowInv, KnowsAnswer
<1> QED BY <1>1, <1>4, <1>5, <1>6

LEMMA ContinueKnows == Inv /\ IdInv /\ KnowInv /\ Continue => KnowInv'
BY AnsweredKnows, RejectedStateKnows, WrittenKnows, DiffedKnows,
   CloseWriteKnows, RequestedKnows, ValidatedKnows, ObservedKnows
DEF Continue

LEMMA CrashKnows == Inv /\ IdInv /\ KnowInv /\ Crash => KnowInv'
BY QuitKnows DEF Crash

LEMMA SameKnows ==
  ASSUME KnowInv, UNCHANGED <<log, run, pc, job, reservations>>
  PROVE  KnowInv'
<1>1. /\ Learned' = Learned /\ Holds' = Holds /\ InLoop' = InLoop
      /\ Decided(log)' = Decided(log) /\ Reports(log)' = Reports(log)
  BY DEF Learned, OfferedPending, Holds, InLoop, Decided, Reports
<1>2. KnowsActions' /\ KnowsOutcome' /\ KnowsAnswer'
  BY <1>1 DEF KnowInv, KnowsActions, KnowsOutcome, KnowsAnswer, Reserved
<1> QED BY <1>1, <1>2 DEF KnowInv

LEMMA InitKnows == Init => KnowInv
<1> SUFFICES ASSUME Init PROVE KnowInv
  OBVIOUS
<1>1. /\ log = <<>> /\ pc = "idle" /\ job = NoJob /\ reservations = {}
      /\ run = [checkpoint |-> 0, question |-> NoAction, cycle |-> NoCycle]
  BY DEF Init
<1>2. DOMAIN log = {}
  BY <1>1
<1>3. TrueLog(log)
  BY <1>2 DEF TrueLog, LearntOK, StatesTrue, HasAnswer
<1>4. job.state = NoState /\ run.checkpoint = 0 /\ run.question = NoAction
  BY <1>1, NoJobFields DEF NoJob
<1>5. ~Learned /\ ~Holds /\ ~InLoop
  BY <1>1, <1>4 DEF Learned, Holds, InLoop, Executes, OfferedPending
<1>6. KnowsActions /\ KnowsOutcome /\ KnowsAnswer
  BY <1>1, <1>4 DEF KnowsActions, KnowsOutcome, KnowsAnswer, Executes,
                    ReturnsTo
<1> QED BY <1>3, <1>4, <1>5, <1>6 DEF KnowInv

LEMMA NextKnows == Inv /\ IdInv /\ KnowInv /\ [Next]_vars => KnowInv'
<1> SUFFICES ASSUME Inv, IdInv, KnowInv, [Next]_vars PROVE KnowInv'
  OBVIOUS
<1>1. CASE Progress
  BY <1>1, ExecuteStepKnows, LoopStepKnows, ContinueKnows DEF Progress
<1>2. CASE StartLoop \/ ResumeLoop \/ UserCall \/ Crash
  BY <1>2, StartLoopKnows, ResumeLoopKnows, UserCallKnows, CrashKnows
<1>3. CASE OutsideEdit
  BY <1>3, SameKnows DEF OutsideEdit
<1>4. CASE UNCHANGED vars
  BY <1>4, SameKnows DEF vars
<1> QED BY <1>1, <1>2, <1>3, <1>4 DEF Next

LEMMA KnowInvHolds == Spec => [](Inv /\ IdInv /\ KnowInv)
<1>1. Init => Inv /\ IdInv /\ KnowInv
  BY InitHolds, InitIds, InitKnows
<1>2. Inv /\ IdInv /\ KnowInv /\ [Next]_vars => (Inv /\ IdInv /\ KnowInv)'
  BY NextKeeps, NextIds, NextKnows
<1> QED BY <1>1, <1>2, PTL DEF Spec

-----------------------------------------------------------------------------
(* The last outcome: what a side effect that ran once leaves behind.       *)

(* The latest request of the action is granted and was not rejected; a     *)
(* validation has no content that could move.                              *)
Consented(l, a) ==
  /\ Has(l, a.id, {"approval_required"}) /\ Has(l, a.id, {"approval_granted"})
  /\ LET request == l[At(l, a.id, {"approval_required"})]
     IN  /\ l[At(l, a.id, {"approval_granted"})].checkpoint = request.checkpoint
         /\ \A i \in DOMAIN l : l[i].type = "approval_rejected" =>
              l[i].checkpoint # request.checkpoint
         /\ a.kind = "validate" => request.baseline = NoContent

(* A side effect with a result, and the write that a diff is of.           *)
Performed(id) ==
  \E r \in reservations : /\ r.action.id = id /\ r.obs # NoObs
                          /\ r.action.kind \in SideEffects
IsOfDiff(a) == a.kind = "inspect_diff"
WriteOf(d) == <<"explore", d.id[2]>>

(* A grant answers a request, a side effect that was performed (and a      *)
(* validation that was begun) has the consent of the user, and a diff      *)
(* follows its write.                                                      *)
MustConsent(r) == /\ r.action.kind \in SideEffects
                  /\ r.obs # NoObs \/ r.action.kind = "validate"
ConsentLog ==
  /\ \A i \in DOMAIN log : log[i].type = "approval_granted" =>
       Has(log, log[i].action.id, {"approval_required"})
  /\ \A r \in reservations : MustConsent(r) => Consented(log, r.action)
  /\ \A d \in Recorded(log) : IsOfDiff(d) => Performed(WriteOf(d))

(* The action in execution: it is authorized once its execution is past    *)
(* the authorization, no diff of a write precedes the write, and what the  *)
(* call executes for the first time has no reservation.                    *)
NoDiffYet == \A d \in Recorded(log) : IsOfDiff(d) => d.id[2] # job.action.id[2]
Consents ==
  /\ (pc \in Executes \ {"execute"} /\ job.action.kind \in SideEffects) =>
       Consented(log, job.action)
  /\ (pc \in Executes /\ IsOfDiff(job.action)) =>
       Performed(WriteOf(job.action))
  /\ (pc = "written" \/ (pc \in Executes /\ job.then = "written")) =>
       NoDiffYet
  /\ (pc = "written" /\ job.obs.status \in SuccessStatuses) =>
       Performed(job.action.id)
  /\ (pc = "report" /\ job.action.kind \in SideEffects) =>
       Performed(job.action.id)
  /\ pc = "complete" => job.obs # NoObs
  /\ (pc \in {"execute", "ask", "reserve"}
        /\ job.then \in {"diffed", "validated"}) => Reserved(job.action) = {}

ConsentInv == ConsentLog /\ Consents

-----------------------------------------------------------------------------
(* How consent follows the log.                                            *)

LEMMA ConsentStays ==
  ASSUME NEW l, LogsEvents(l), NEW e, NEW a, Consented(l, a),
         e.type \in {"approval_required", "approval_granted"} =>
           e.action.id # a.id,
         e.type = "approval_rejected" =>
           e.checkpoint #
             l[At(l, a.id, {"approval_required"})].checkpoint
  PROVE  Consented(Append(l, e), a)
<1> DEFINE m == Append(l, e)
           n == Len(l)
           asked == {"approval_required"}
           granted == {"approval_granted"}
<1>1. /\ n \in Nat /\ DOMAIN l = 1..n /\ DOMAIN m = 1..(n + 1)
      /\ \A i \in 1..n : m[i] = l[i]
      /\ m[n + 1] = e
  BY AppendGrows DEF LogsEvents
<1>2. ASSUME NEW types \in {asked, granted}
      PROVE  /\ Of(m, a.id, types) = Of(l, a.id, types)
             /\ Has(l, a.id, types)
             /\ At(l, a.id, types) \in 1..n
  <2>1. /\ Of(m, a.id, types) = Of(l, a.id, types) \union
            (IF e.action # NoAction /\ e.action.id = a.id
                /\ e.type \in types THEN {n + 1} ELSE {})
        /\ Of(l, a.id, types) \subseteq 1..n
    BY OfGrows
  <2>2. ~(e.action # NoAction /\ e.action.id = a.id /\ e.type \in types)
    OBVIOUS
  <2>3. Of(l, a.id, types) # {}
    BY DEF Consented, Has
  <2> DEFINE P == Of(l, a.id, types)
  <2>4. P \subseteq 1..n /\ P # {} /\ At(l, a.id, types) = Newest(P)
    BY <2>1, <2>3 DEF At
  <2> HIDE DEF P
  <2>5. Newest(P) \in P
    BY <1>1, <2>4, NewestIsLast
  <2> QED BY <2>1, <2>2, <2>3, <2>4, <2>5 DEF Has
<1>3. /\ Has(m, a.id, asked) /\ Has(m, a.id, granted)
      /\ At(m, a.id, asked) = At(l, a.id, asked)
      /\ At(m, a.id, granted) = At(l, a.id, granted)
  BY <1>2 DEF Has, At
<1> DEFINE i == At(l, a.id, asked)
           j == At(l, a.id, granted)
<1>4. m[i] = l[i] /\ m[j] = l[j]
  <2>1. i \in 1..n /\ j \in 1..n
    BY <1>2
  <2> HIDE DEF i, j, m
  <2> QED BY <1>1, <2>1
<1>5. /\ l[j].checkpoint = l[i].checkpoint
      /\ \A k \in DOMAIN l : l[k].type = "approval_rejected" =>
           l[k].checkpoint # l[i].checkpoint
      /\ a.kind = "validate" => l[i].baseline = NoContent
  BY DEF Consented
<1>6. e.type = "approval_rejected" => e.checkpoint # l[i].checkpoint
  OBVIOUS
<1> HIDE DEF i, j, m, n
<1>7. \A k \in DOMAIN m : m[k].type = "approval_rejected" =>
        m[k].checkpoint # l[i].checkpoint
  <2>1. \A k \in DOMAIN m : k \in 1..n \/ m[k] = e
    BY <1>1
  <2> QED BY <1>1, <1>5, <1>6, <2>1
<1>8. /\ Has(m, a.id, asked) /\ Has(m, a.id, granted)
      /\ m[At(m, a.id, granted)].checkpoint = m[At(m, a.id, asked)].checkpoint
      /\ \A k \in DOMAIN m : m[k].type = "approval_rejected" =>
           m[k].checkpoint # m[At(m, a.id, asked)].checkpoint
      /\ a.kind = "validate" => m[At(m, a.id, asked)].baseline = NoContent
  BY <1>3, <1>4, <1>5, <1>7 DEF i, j
<1> HIDE DEF asked, granted
<1>9. Consented(m, a)
  BY <1>8 DEF Consented, asked, granted
<1> QED BY <1>9 DEF m

(* A request that waits for the user has no consent, and no other action   *)
(* has the consent of its checkpoint.                                      *)
LEMMA PendingHasNoConsent ==
  ASSUME Inv, IdInv, OfferedPending, NEW b, Consented(log, b)
  PROVE  /\ b.id # PendingApprovalAction.id
         /\ log[At(log, b.id, {"approval_required"})].checkpoint #
              run.checkpoint
<1> DEFINE asked == Events({"approval_required"}, log)
           n == Newest(asked)
           types == {"approval_required"}
           found == Of(log, b.id, types)
           i == At(log, b.id, types)
           given == Of(log, b.id, {"approval_granted"})
           j == At(log, b.id, {"approval_granted"})
<1>1. /\ asked # {} /\ PendingApprovalAction = log[n].action
      /\ run.checkpoint = log[n].checkpoint /\ run.checkpoint # 0
      /\ run.checkpoint = PendingApproval(log)
  BY DEF OfferedPending, PendingApproval, PendingApprovalAction, Requests
<1>2. /\ Len(log) \in Nat /\ DOMAIN log = 1..Len(log)
      /\ asked \subseteq 1..Len(log) /\ LogsEvents(log) /\ RequestsOK(log)
  BY LogFacts DEF Events, IdLog
<1>3. n \in asked /\ \A k \in asked : k <= n
  <2> HIDE DEF asked
  <2> QED BY <1>1, <1>2, NewestIsLast
<1>4. /\ n \in DOMAIN log /\ log[n].type = "approval_required"
      /\ log[n].action # NoAction
  BY <1>3, <1>2 DEF Events, RequestsOK, WaitingTypes
<1>5. log[i].checkpoint # run.checkpoint
  <2>1. given # {} /\ given \subseteq 1..Len(log) /\ j = Newest(given)
        /\ log[j].checkpoint = log[i].checkpoint
    BY <1>2 DEF Consented, Has, Of, At
  <2>2. j \in given
    <3> HIDE DEF given, j
    <3> QED BY <1>2, <2>1, NewestIsLast
  <2>3. j \in DOMAIN log /\ log[j].type \in Settling
    BY <2>2 DEF Of, Settling
  <2> HIDE DEF i, j, given
  <2>4. SUFFICES ASSUME log[i].checkpoint = run.checkpoint PROVE FALSE
    OBVIOUS
  <2>5. IsSettled(log, run.checkpoint)
    BY <2>1, <2>3, <2>4 DEF IsSettled
  <2> QED BY <1>1, <1>2, <2>5, SettledIsNotPending
<1>6. b.id # log[n].action.id
  <2>1. SUFFICES ASSUME b.id = log[n].action.id PROVE FALSE
    OBVIOUS
  <2>2. n \in found /\ found \subseteq asked /\ i = Newest(found)
    <3> HIDE DEF n
    <3> QED BY <1>4, <2>1 DEF Of, Events, At
  <2>3. i \in found /\ n <= i
    <3> HIDE DEF n, found, i, asked
    <3>1. found \subseteq 1..Len(log) /\ found # {}
      BY <1>2, <2>2
    <3> QED BY <1>2, <2>2, <3>1, NewestIsLast
  <2> HIDE DEF n, found, i, asked
  <2>4. i \in asked /\ i <= n
    BY <1>3, <2>2, <2>3
  <2>5. i = n
    BY <1>2, <1>4, <2>3, <2>4
  <2> QED BY <1>1, <1>5, <2>5
<1> QED BY <1>1, <1>5, <1>6

(* Reservations of one id are of one action.                               *)
LEMMA SameAction ==
  ASSUME Inv, IdInv, KnowInv, NEW a, a # NoAction, IsKnown(log, a),
         NEW r \in reservations, r.action.id = a.id
  PROVE  r.action = a
<1>1. r.action \in Recorded(log) /\ ActionsOK(log)
  BY LogFacts DEF KnowInv, KnowsActions, IdLog
<1>2. CASE a \in Recorded(log)
  BY <1>1, <1>2 DEF ActionsOK
<1>3. CASE IsDerived(a)
  <2>1. IsDecided(r.action) \/ IsDerived(r.action)
    BY <1>1 DEF ActionsOK
  <2> QED BY <1>3, <2>1, DerivedById
<1> QED BY <1>2, <1>3 DEF IsKnown

-----------------------------------------------------------------------------
(* How a step keeps consent.                                               *)

(* An event about no consent, and no new diff of a write that did not run. *)
PlainEvent(e) ==
  /\ e.type \notin {"approval_required", "approval_granted",
                    "approval_rejected"}
  /\ \/ e.action \in Recorded(log) \union {NoAction}
     \/ IsOfDiff(e.action) => Performed(WriteOf(e.action))

LEMMA PlainStays ==
  ASSUME Inv, IdInv, NEW e, PlainEvent(e), NEW a, Consented(log, a),
         log' \in {log, Append(log, e)}
  PROVE  Consented(log', a)
<1>1. LogsEvents(log)
  BY LogFacts
<1>2. Consented(Append(log, e), a)
  BY <1>1, ConsentStays DEF PlainEvent
<1> QED BY <1>2

(* The log and the reservations after an event.                            *)
LEMMA ConsentGrows ==
  ASSUME Inv, IdInv, ConsentLog, NEW e, log' \in {log, Append(log, e)},
         e.type = "approval_granted" =>
           Has(log, e.action.id, {"approval_required"}),
         \A r \in reservations' : MustConsent(r) => Consented(log', r.action),
         \A id : Performed(id) => Performed(id)',
         \/ e.action \in Recorded(log) \union {NoAction}
         \/ IsOfDiff(e.action) => Performed(WriteOf(e.action))
  PROVE  ConsentLog'
<1> DEFINE m == Append(log, e)
           n == Len(log)
           types == {"approval_required"}
<1>1. /\ n \in Nat /\ DOMAIN log = 1..n /\ DOMAIN m = 1..(n + 1)
      /\ \A i \in 1..n : m[i] = log[i]
      /\ m[n + 1] = e
  BY LogFacts, AppendGrows DEF LogsEvents
<1>2. \A id : Has(log, id, types) => Has(m, id, types)
  BY LogFacts, OfGrows DEF Has
<1>3. Recorded(m) = Recorded(log) \union ({e.action} \ {NoAction})
  BY LogFacts, OfGrows
<1>4. log' = log \/ log' = m
  OBVIOUS
<1> HIDE DEF m, n
<1>5. \A i \in DOMAIN m : (i \in DOMAIN log /\ m[i] = log[i]) \/ m[i] = e
  BY <1>1
<1>6. \A i \in DOMAIN log : log[i].type = "approval_granted" =>
        Has(log, log[i].action.id, types)
  BY DEF ConsentLog
<1>7. \A i \in DOMAIN m : m[i].type = "approval_granted" =>
        Has(m, m[i].action.id, types)
  BY <1>2, <1>5, <1>6
<1>8. \A i \in DOMAIN log' : log'[i].type = "approval_granted" =>
        Has(log', log'[i].action.id, types)
  BY <1>4, <1>6, <1>7
<1>9. \A d \in Recorded(log') : IsOfDiff(d) => Performed(WriteOf(d))
  BY <1>3, <1>4 DEF ConsentLog
<1>10. \A d \in Recorded(log') : IsOfDiff(d) => Performed(WriteOf(d))'
  BY <1>9
<1> QED BY <1>8, <1>10 DEF ConsentLog, IsOfDiff, WriteOf

LEMMA PlainConsents ==
  ASSUME Inv, IdInv, ConsentLog, NEW e, PlainEvent(e),
         log' \in {log, Append(log, e)}, reservations' = reservations
  PROVE  ConsentLog'
<1>1. \A r \in reservations' : MustConsent(r) => Consented(log', r.action)
  BY PlainStays DEF ConsentLog
<1>2. \A id : Performed(id) => Performed(id)'
  BY DEF Performed
<1>3. e.type # "approval_granted"
      /\ (\/ e.action \in Recorded(log) \union {NoAction}
          \/ IsOfDiff(e.action) => Performed(WriteOf(e.action)))
  BY DEF PlainEvent
<1> QED BY <1>1, <1>2, <1>3, ConsentGrows

(* A step that executes nothing next.                                      *)
LEMMA ConsentRests ==
  ASSUME Inv, IdInv, ConsentInv, NEW e, PlainEvent(e),
         log' \in {log, Append(log, e)}, reservations' = reservations,
         pc' \notin Executes \union {"written"}
  PROVE  ConsentInv'
<1>1. ConsentLog'
  BY PlainConsents DEF ConsentInv
<1>2. Consents'
  BY DEF Consents, Executes
<1> QED BY <1>1, <1>2 DEF ConsentInv

(* A step that records a state, or nothing.                                *)
LEMMA SnapshotIsPlain == ASSUME NEW s PROVE PlainEvent(Snapshot(s))
BY EventFields DEF PlainEvent

LEMMA ConsentRecords ==
  ASSUME Inv, IdInv, ConsentInv, NEW s,
         log' \in {log, Append(log, Snapshot(s))},
         reservations' = reservations, pc' \notin Executes \union {"written"}
  PROVE  ConsentInv'
BY SnapshotIsPlain, ConsentRests

(* A step that begins an execution.                                        *)
LEMMA ConsentBegins ==
  ASSUME Inv, IdInv, ConsentLog', reservations' = reservations,
         pc' = "execute" \/ (pc' = "start" /\ job'.action.kind \notin SideEffects
                              /\ job'.then = "resumed"),
         IsOfDiff(job'.action) => Performed(WriteOf(job'.action)),
         job'.then = "written" => NoDiffYet',
         job'.then \in {"diffed", "validated"} => Reserved(job'.action) = {}
  PROVE  ConsentInv'
<1>1. pc' \notin {"written", "report", "complete"}
  OBVIOUS
<1>2. Performed(WriteOf(job'.action)) => Performed(WriteOf(job.action))'
  BY DEF Performed, WriteOf
<1>3. Reserved(job'.action) = {} => Reserved(job.action)' = {}
  BY DEF Reserved
<1>4. Consents'
  BY <1>1, <1>2, <1>3 DEF Consents, Executes, IsOfDiff
<1> QED BY <1>4 DEF ConsentInv

LEMMA SameConsents ==
  ASSUME ConsentInv, UNCHANGED <<log, reservations, pc, job>>
  PROVE  ConsentInv'
<1>1. \A id : Performed(id)' <=> Performed(id)
  BY DEF Performed
<1>2. Reserved(job.action)' = Reserved(job.action)
  BY DEF Reserved
<1>3. ConsentLog'
  BY <1>1 DEF ConsentInv, ConsentLog
<1>4. Consents'
  BY <1>1, <1>2 DEF ConsentInv, Consents, NoDiffYet
<1> QED BY <1>3, <1>4 DEF ConsentInv

-----------------------------------------------------------------------------
(* AgentRuntime.execute keeps consent.                                     *)

LEMMA ActionIsPlain ==
  ASSUME ConsentInv, pc \in Executes, NEW e, e.action = job.action,
         e.type \notin {"approval_required", "approval_granted",
                        "approval_rejected"}
  PROVE  PlainEvent(e)
BY DEF ConsentInv, Consents, PlainEvent

(* An event of the action in execution is no diff of the write it runs.    *)
LEMMA NoDiffStays ==
  ASSUME Inv, IdInv, KnowInv, ConsentInv, pc \in Executes,
         job.then = "written", job'.action = job.action,
         NEW e, e.action = job.action, log' \in {log, Append(log, e)}
  PROVE  NoDiffYet'
<1>1. job.action.kind \in SideEffects /\ NoDiffYet
  BY DEF KnowInv, KnowsActions, ConsentInv, Consents
<1>2. ~IsOfDiff(job.action)
  BY <1>1 DEF IsOfDiff, SideEffects
<1>3. Recorded(log') \subseteq Recorded(log) \union {job.action}
  <2>1. Recorded(Append(log, e)) =
          Recorded(log) \union ({e.action} \ {NoAction})
    BY LogFacts, OfGrows
  <2> QED BY <2>1
<1> QED BY <1>1, <1>2, <1>3 DEF NoDiffYet, IsOfDiff

LEMMA ConsentGoesOn ==
  ASSUME Inv, IdInv, KnowInv, ConsentInv,
         pc \in Executes, pc' \in Executes \ {"execute"},
         job'.action = job.action, job'.then = job.then,
         NEW e, e.action = job.action,
         e.type \notin {"approval_required", "approval_granted",
                        "approval_rejected"},
         log' \in {log, Append(log, e)},
         job.action.kind \in SideEffects => Consented(log, job.action),
         \A id : Performed(id) => Performed(id)',
         \A r \in reservations' : MustConsent(r) =>
           r \in reservations \/ Consented(log, r.action),
         pc' = "complete" => job'.obs # NoObs,
         (pc' = "report" /\ job.action.kind \in SideEffects) =>
           Performed(job.action.id)',
         pc' \in {"ask", "reserve"} =>
           reservations' = reservations /\ pc \in {"execute", "ask", "reserve"}
  PROVE  ConsentInv'
<1>1. PlainEvent(e)
  BY ActionIsPlain
<1>2. \A a : Consented(log, a) => Consented(log', a)
  BY <1>1, PlainStays
<1>3. ConsentLog'
  <2>1. \A r \in reservations' : MustConsent(r) => Consented(log', r.action)
    BY <1>2 DEF ConsentInv, ConsentLog
  <2>2. e.type # "approval_granted"
        /\ (\/ e.action \in Recorded(log) \union {NoAction}
            \/ IsOfDiff(e.action) => Performed(WriteOf(e.action)))
    BY <1>1 DEF PlainEvent
  <2> QED BY <2>1, <2>2, ConsentGrows DEF ConsentInv
<1>4. pc' # "written"
  BY DEF Executes
<1>5. IsOfDiff(job'.action) => Performed(WriteOf(job.action))'
  <2>1. IsOfDiff(job.action) => Performed(WriteOf(job.action))
    BY DEF ConsentInv, Consents
  <2>2. WriteOf(job'.action) = WriteOf(job.action)
    OBVIOUS
  <2> QED BY <2>1, <2>2
<1>6. job'.then = "written" => NoDiffYet'
  BY NoDiffStays
<1>7. (pc' \in {"ask", "reserve"} /\ job'.then \in {"diffed", "validated"}) =>
        Reserved(job.action)' = {}
  BY DEF ConsentInv, Consents, Reserved
<1>8. job.action.kind \in SideEffects => Consented(log', job.action)
  BY <1>2
<1>9. Consents'
  BY <1>4, <1>5, <1>6, <1>7, <1>8 DEF Consents, IsOfDiff
<1> QED BY <1>3, <1>9 DEF ConsentInv

(* It ends with an observation.                                            *)
LEMMA ConsentObserves ==
  ASSUME Inv, IdInv, KnowInv, ConsentInv, pc \in Executes, ConsentLog',
         NEW obs, Observe(obs), reservations' = reservations,
         NEW e, e.action = job.action, log' = Append(log, e),
         (job.then = "written" /\ obs.status \in SuccessStatuses) =>
           Performed(job.action.id)
  PROVE  ConsentInv'
<1>1. /\ pc' = job.then /\ pc' \in ReturnsTo
      /\ job'.obs = obs /\ job'.action = job.action /\ job'.then = job.then
  BY LogFacts DEF Observe, IsJob, Inv, TypeInv, JobOK
<1>2. pc' \notin Executes
  BY <1>1 DEF ReturnsTo, Executes
<1>3. job.then = "written" => NoDiffYet'
  BY <1>1, NoDiffStays
<1>4. Performed(job.action.id) => Performed(job.action.id)'
  BY <1>1 DEF Performed
<1>5. Consents'
  BY <1>1, <1>2, <1>3, <1>4 DEF Consents, Executes
<1> QED BY <1>5 DEF ConsentInv

LEMMA PlainObserves ==
  ASSUME Inv, IdInv, KnowInv, ConsentInv, pc \in Executes,
         NEW obs, Observe(obs), reservations' = reservations,
         NEW e, e.action = job.action, log' = Append(log, e),
         e.type \notin {"approval_required", "approval_granted",
                        "approval_rejected"},
         (job.then = "written" /\ obs.status \in SuccessStatuses) =>
           Performed(job.action.id)
  PROVE  ConsentInv'
<1>1. PlainEvent(e)
  BY ActionIsPlain
<1>2. ConsentLog'
  BY <1>1, PlainConsents DEF ConsentInv
<1> QED BY <1>2, ConsentObserves

LEMMA AuthorizeReadConsents ==
  Inv /\ IdInv /\ KnowInv /\ ConsentInv /\ AuthorizeRead => ConsentInv'
<1> SUFFICES ASSUME Inv, IdInv, KnowInv, ConsentInv, AuthorizeRead
             PROVE  ConsentInv'
  OBVIOUS
<1> DEFINE e == ActionEvent("action_authorized", job.action)
<1>1. /\ pc = "execute" /\ pc' \in {"ask", "reserve"}
      /\ job.action.kind \notin SideEffects
      /\ log' = Append(log, e) /\ UNCHANGED <<reservations, job>>
  BY DEF AuthorizeRead, Executing
<1>2. e.action = job.action /\ e.type = "action_authorized"
  BY EventFields
<1> HIDE DEF e
<1>3. \A id : Performed(id) => Performed(id)'
  BY <1>1 DEF Performed
<1> QED BY <1>1, <1>2, <1>3, ConsentGoesOn DEF Executes

LEMMA AskConsents ==
  Inv /\ IdInv /\ KnowInv /\ ConsentInv /\ Ask => ConsentInv'
<1> SUFFICES ASSUME Inv, IdInv, KnowInv, ConsentInv, Ask PROVE ConsentInv'
  OBVIOUS
<1> DEFINE obs == Plain("input_required")
           e == Result("input_required", job.action, obs)
<1>1. /\ pc \in Executes /\ log' = Append(log, e) /\ Observe(obs)
      /\ reservations' = reservations
  BY DEF Ask, Executing, Executes
<1>2. e.action = job.action /\ e.type = "input_required"
  BY EventFields
<1>3. obs.status \notin SuccessStatuses
  BY DEF Plain, Obs, SuccessStatuses
<1> HIDE DEF e, obs
<1> QED BY <1>1, <1>2, <1>3, PlainObserves

(* A stored result is one that was performed.                              *)
LEMMA StoredIsPerformed ==
  ASSUME Inv, IdInv, KnowInv, pc \in Executes, job.action # NoAction,
         job.action.kind \in SideEffects, Reserved(job.action) # {},
         \E r \in Reserved(job.action) : r.obs # NoObs
  PROVE  Performed(job.action.id)
<1>1. PICK r \in reservations : r.action.id = job.action.id /\ r.obs # NoObs
  BY DEF Reserved
<1>2. IsKnown(log, job.action)
  BY DEF IdInv
<1>3. r.action = job.action
  BY <1>1, <1>2, SameAction
<1> QED BY <1>1, <1>3 DEF Performed

(* A grant that is valid is the consent of the user.                       *)
LEMMA ValidIsConsent ==
  ASSUME Inv, IdInv, ConsentLog, NEW a, ValidGrant(a)
  PROVE  Consented(log, a)
<1> DEFINE given == Of(log, a.id, {"approval_granted"})
           j == At(log, a.id, {"approval_granted"})
           request == log[At(log, a.id, {"approval_required"})]
<1>1. /\ given # {} /\ j = Newest(given)
      /\ log[j].checkpoint = request.checkpoint
      /\ request.baseline = Baseline(a)
      /\ ~Rejected(request.checkpoint)
      /\ Has(log, a.id, {"approval_granted"})
  BY DEF ValidGrant, Has, At, LastRequest
<1>2. Len(log) \in Nat /\ given \subseteq 1..Len(log)
  BY LogFacts DEF Of
<1>3. j \in given
  <2> HIDE DEF given, j
  <2> QED BY <1>1, <1>2, NewestIsLast
<1>4. /\ j \in DOMAIN log /\ log[j].type = "approval_granted"
      /\ log[j].action.id = a.id
  BY <1>3 DEF Of
<1>5. Has(log, a.id, {"approval_required"})
  <2> HIDE DEF j
  <2> QED BY <1>4 DEF ConsentLog
<1>6. \A i \in DOMAIN log : log[i].type = "approval_rejected" =>
        log[i].checkpoint # request.checkpoint
  <2> HIDE DEF request
  <2> QED BY <1>1 DEF Rejected, Requests, Events
<1>7. a.kind = "validate" => request.baseline = NoContent
  BY <1>1 DEF Baseline, WriteKinds
<1> QED BY <1>1, <1>5, <1>6, <1>7 DEF Consented

(* The consent to a validation is a valid grant.                           *)
LEMMA ConsentIsValid ==
  ASSUME NEW a, Consented(log, a), a.kind = "validate"
  PROVE  ValidGrant(a)
BY DEF Consented, ValidGrant, LastRequest, Baseline, WriteKinds, Rejected,
       Requests, Events

(* A new request takes the consent of nothing that was performed.          *)
LEMMA RequestKeepsConsent ==
  ASSUME Inv, IdInv, KnowInv, ConsentInv, pc \in Executes,
         job.action # NoAction, ~ValidGrant(job.action),
         ~ \E r \in Reserved(job.action) : r.obs # NoObs,
         reservations' = reservations,
         NEW e, e.type = "approval_required", e.action = job.action,
         log' = Append(log, e)
  PROVE  ConsentLog'
<1> DEFINE a == job.action
<1>1. IsKnown(log, a)
  BY DEF IdInv
<1>2. ASSUME NEW r \in reservations, MustConsent(r)
      PROVE  Consented(log', r.action)
  <2>1. Consented(log, r.action)
    BY <1>2 DEF ConsentInv, ConsentLog
  <2>2. r.action.id # a.id
    <3>1. SUFFICES ASSUME r.action.id = a.id PROVE FALSE
      OBVIOUS
    <3>2. r \in Reserved(a)
      BY <3>1 DEF Reserved
    <3>3. r.action.kind = "validate"
      BY <1>2, <3>2 DEF MustConsent
    <3>4. r.action = a
      BY <1>1, <3>1, SameAction
    <3> QED BY <2>1, <3>3, <3>4, ConsentIsValid
  <2>3. Consented(Append(log, e), r.action)
    BY <2>1, <2>2, LogFacts, ConsentStays
  <2> QED BY <2>3
<1>3. \A id : Performed(id) => Performed(id)'
  BY DEF Performed
<1>4. IsOfDiff(e.action) => Performed(WriteOf(e.action))
  BY DEF ConsentInv, Consents
<1> QED BY <1>2, <1>3, <1>4, ConsentGrows DEF ConsentInv

LEMMA AuthorizeSideEffectConsents ==
  Inv /\ IdInv /\ KnowInv /\ ConsentInv /\ AuthorizeSideEffect => ConsentInv'
<1> SUFFICES ASSUME Inv, IdInv, KnowInv, ConsentInv, AuthorizeSideEffect
             PROVE  ConsentInv'
  OBVIOUS
<1> DEFINE a == job.action
           done == \E r \in Reserved(a) : r.obs # NoObs
           moved == a.kind = "apply_patch" /\ disk[a.path] # a.from
<1>1. /\ pc = "execute" /\ pc \in Executes /\ a # NoAction
      /\ a.kind \in SideEffects /\ reservations' = reservations
  BY DEF AuthorizeSideEffect, Executing, Executes
<1>2. CASE ~Denied(a) /\ done
  <2> DEFINE obs == StoredObs(a)
             e == Result("action_replayed", a, obs)
  <2>1. log' = Append(log, e) /\ Observe(obs)
    BY <1>2 DEF AuthorizeSideEffect
  <2>2. e.action = a /\ e.type = "action_replayed"
    BY EventFields
  <2>3. Performed(a.id)
    BY <1>1, <1>2, StoredIsPerformed
  <2> HIDE DEF e, obs
  <2> QED BY <1>1, <2>1, <2>2, <2>3, PlainObserves
<1>3. CASE ~Denied(a) /\ ~done /\ moved
  <2> DEFINE obs == Plain("conflict")
             e == Result("action_conflict", a, obs)
  <2>1. log' = Append(log, e) /\ Observe(obs)
    BY <1>3 DEF AuthorizeSideEffect
  <2>2. e.action = a /\ e.type = "action_conflict"
    BY EventFields
  <2>3. obs.status \notin SuccessStatuses
    BY DEF Plain, Obs, SuccessStatuses
  <2> HIDE DEF e, obs
  <2> QED BY <1>1, <2>1, <2>2, <2>3, PlainObserves
<1>4. CASE ~Denied(a) /\ ~done /\ ~moved /\ ValidGrant(a)
  <2> DEFINE e == ActionEvent("action_authorized", a)
  <2>1. log' = Append(log, e) /\ pc' = "reserve" /\ UNCHANGED job
    BY <1>4 DEF AuthorizeSideEffect
  <2>2. e.action = a /\ e.type = "action_authorized"
    BY EventFields
  <2>3. Consented(log, a)
    BY <1>4, ValidIsConsent DEF ConsentInv
  <2>4. \A id : Performed(id) => Performed(id)'
    BY <1>1 DEF Performed
  <2> HIDE DEF e
  <2> QED BY <1>1, <2>1, <2>2, <2>3, <2>4, ConsentGoesOn DEF Executes
<1>5. CASE ~Denied(a) /\ ~done /\ ~moved /\ ~ValidGrant(a)
  <2> DEFINE obs == Plain("approval_required")
             n == Checkpoint(a)
             b == Baseline(a)
             r == Result("approval_required", a, obs)
             e == [r EXCEPT !.checkpoint = n, !.baseline = b]
  <2>1. log' = Append(log, e) /\ Observe(obs)
    BY <1>5 DEF AuthorizeSideEffect
  <2>2. r = [type |-> "approval_required", action |-> a, obs |-> obs,
             update |-> NoUpdate, state |-> NoState, checkpoint |-> 0,
             baseline |-> NoContent, answer |-> NoAnswer]
    BY EventFields
  <2>3. obs.status \notin SuccessStatuses
    BY DEF Plain, Obs, SuccessStatuses
  <2> HIDE DEF obs, n, b, r
  <2>4. e.type = "approval_required" /\ e.action = a
    BY <2>2
  <2> HIDE DEF e
  <2>5. ConsentLog'
    BY <1>1, <1>5, <2>1, <2>4, RequestKeepsConsent
  <2> QED BY <1>1, <2>1, <2>3, <2>4, <2>5, ConsentObserves
<1>6. CASE Denied(a)
  <2> DEFINE obs == Plain("policy_denied")
             e == Result("action_denied", a, obs)
  <2>1. log' = Append(log, e) /\ Observe(obs)
    BY <1>6 DEF AuthorizeSideEffect
  <2>2. e.action = a /\ e.type = "action_denied"
    BY EventFields
  <2>3. obs.status \notin SuccessStatuses
    BY DEF Plain, Obs, SuccessStatuses
  <2> HIDE DEF e, obs
  <2> QED BY <1>1, <2>1, <2>2, <2>3, PlainObserves
<1> QED BY <1>2, <1>3, <1>4, <1>5, <1>6

LEMMA ReserveConsents ==
  Inv /\ IdInv /\ KnowInv /\ ConsentInv /\ Reserve => ConsentInv'
<1> SUFFICES ASSUME Inv, IdInv, KnowInv, ConsentInv, Reserve
             PROVE  ConsentInv'
  OBVIOUS
<1> DEFINE a == job.action
<1>1. /\ pc = "reserve" /\ pc \in Executes \ {"execute"} /\ a # NoAction
  BY DEF Reserve, Executing, Executes
<1>2. a.kind \in SideEffects => Consented(log, a)
  BY <1>1 DEF ConsentInv, Consents
<1>3. CASE Reserved(a) = {}
  <2> DEFINE e == ActionEvent("action_started", a)
             q == [action |-> a, obs |-> NoObs]
  <2>1. /\ reservations' = reservations \union {q}
        /\ pc' = "start" /\ UNCHANGED <<log, job>>
    BY <1>3 DEF Reserve
  <2>2. e.action = a /\ e.type = "action_started"
    BY EventFields
  <2>3. \A id : Performed(id) => Performed(id)'
    BY <2>1 DEF Performed
  <2>4. \A r \in reservations' : MustConsent(r) =>
          r \in reservations \/ Consented(log, r.action)
    <3>1. q.action = a
      OBVIOUS
    <3> HIDE DEF q
    <3> QED BY <1>2, <2>1, <3>1 DEF MustConsent
  <2> HIDE DEF e, q
  <2> QED BY <1>1, <1>2, <2>1, <2>2, <2>3, <2>4, ConsentGoesOn DEF Executes
<1>4. CASE Reserved(a) # {}
  <2> DEFINE obs == IF StoredObs(a) # NoObs THEN StoredObs(a)
                    ELSE Plain("recovery_required")
             type == IF StoredObs(a) # NoObs THEN "action_replayed"
                     ELSE "action_recovery_required"
             e == Result(type, a, obs)
  <2>1. log' = Append(log, e) /\ Observe(obs) /\ UNCHANGED reservations
    BY <1>4 DEF Reserve
  <2>2. type \in {"action_replayed", "action_recovery_required"}
    OBVIOUS
  <2>3. (job.then = "written" /\ obs.status \in SuccessStatuses) =>
          Performed(a.id)
    <3>1. SUFFICES ASSUME job.then = "written", obs.status \in SuccessStatuses
                   PROVE  Performed(a.id)
      OBVIOUS
    <3>2. StoredObs(a) # NoObs
      BY <3>1 DEF Plain, Obs, SuccessStatuses
    <3>3. \E r \in Reserved(a) : r.obs # NoObs
      BY <1>4, <3>2 DEF StoredObs
    <3>4. a.kind \in SideEffects
      BY <1>1, <3>1 DEF KnowInv, KnowsActions
    <3> QED BY <1>1, <1>4, <3>3, <3>4, StoredIsPerformed
  <2> HIDE DEF obs, type
  <2>4. e.action = a /\ e.type = type
    BY EventFields
  <2> HIDE DEF e
  <2> QED BY <1>1, <2>1, <2>2, <2>3, <2>4, PlainObserves
<1> QED BY <1>3, <1>4

LEMMA StartConsents ==
  Inv /\ IdInv /\ KnowInv /\ ConsentInv /\ Start => ConsentInv'
<1> SUFFICES ASSUME Inv, IdInv, KnowInv, ConsentInv, Start PROVE ConsentInv'
  OBVIOUS
<1> DEFINE type == IF job.retry THEN "action_recovery_started"
                   ELSE "action_started"
           e == ActionEvent(type, job.action)
<1>1. /\ pc \in Executes \ {"execute"} /\ pc' = "tool"
      /\ log' = Append(log, e) /\ UNCHANGED <<reservations, job>>
  BY DEF Start, Executing, Executes
<1>2. type \in {"action_recovery_started", "action_started"}
  OBVIOUS
<1> HIDE DEF type
<1>3. e.action = job.action /\ e.type = type
  BY EventFields
<1> HIDE DEF e
<1>4. job.action.kind \in SideEffects => Consented(log, job.action)
  BY <1>1 DEF ConsentInv, Consents
<1>5. \A id : Performed(id) => Performed(id)'
  BY <1>1 DEF Performed
<1> QED BY <1>1, <1>2, <1>3, <1>4, <1>5, ConsentGoesOn DEF Executes

(* A tool reports a result.                                                *)
LEMMA ToolReports ==
  ASSUME Inv, Tool
  PROVE  \E obs \in Results : job' = [job EXCEPT !.obs = obs] /\ obs # NoObs
<1>1. NoObs \notin Results
  BY NoObsAssumption DEF Results, ToolStatuses, Overlays, EditSet
<1>2. SUFFICES \E obs \in Results : job' = [job EXCEPT !.obs = obs]
  BY <1>1
<1>3. disk \in [Paths -> Contents] /\ overlay \in Overlays
      /\ IsAction(job.action)
  BY AtAnyPoint, AtExecute DEF Tool, Executing, Executes
<1>4. CASE ToolRead \/ ToolFinish \/ ToolValidate
  BY <1>4, ResultsAreTyped DEF ToolRead, ToolFinish, ToolValidate, ToolStatuses
<1>5. CASE ToolPropose
  BY <1>3, <1>5, ProposeTyped DEF ToolPropose
<1>6. CASE ToolInspect
  BY <1>3, <1>6, InspectTyped DEF ToolInspect
<1>7. CASE ToolWrite
  <2> DEFINE a == job.action
             status == IF a.kind = "edit_file" THEN "completed" ELSE "applied"
             other == disk[a.path] # a.to
  <2>1. \/ job' = [job EXCEPT !.obs = Obs(status, "written", NoEdits, other)]
        \/ job' = [job EXCEPT !.obs = Plain("conflict")]
    BY <1>7 DEF ToolWrite
  <2>2. status \in ToolStatuses /\ other \in BOOLEAN
    BY DEF ToolStatuses
  <2> HIDE DEF status, other
  <2>3. Obs(status, "written", NoEdits, other) \in Results
        /\ Plain("conflict") \in Results
    BY <2>2, ResultsAreTyped, EntriesAreEdits DEF ToolStatuses
  <2> QED BY <2>1, <2>3
<1> QED BY <1>4, <1>5, <1>6, <1>7 DEF Tool

LEMMA ToolConsents ==
  Inv /\ IdInv /\ KnowInv /\ ConsentInv /\ Tool => ConsentInv'
<1> SUFFICES ASSUME Inv, IdInv, KnowInv, ConsentInv, Tool PROVE ConsentInv'
  OBVIOUS
<1> DEFINE e == ActionEvent("action_started", job.action)
<1>1. /\ pc \in Executes \ {"execute"} /\ pc' = "complete"
      /\ UNCHANGED <<log, reservations>>
  BY DEF Tool, Executing, Executes
<1>2. job'.action = job.action /\ job'.then = job.then /\ job'.obs # NoObs
  <2>1. IsJob(job)
    BY AtAnyPoint
  <2> QED BY <2>1, ToolReports DEF IsJob
<1>3. e.action = job.action /\ e.type = "action_started"
  BY EventFields
<1> HIDE DEF e
<1>4. job.action.kind \in SideEffects => Consented(log, job.action)
  BY <1>1 DEF ConsentInv, Consents
<1>5. \A id : Performed(id) => Performed(id)'
  BY <1>1 DEF Performed
<1> QED BY <1>1, <1>2, <1>3, <1>4, <1>5, ConsentGoesOn DEF Executes

LEMMA CompleteConsents ==
  Inv /\ IdInv /\ KnowInv /\ ConsentInv /\ Complete => ConsentInv'
<1> SUFFICES ASSUME Inv, IdInv, KnowInv, ConsentInv, Complete PROVE ConsentInv'
  OBVIOUS
<1> DEFINE a == job.action
           e == ActionEvent("action_started", a)
           q == [action |-> a, obs |-> job.obs]
<1>1. /\ pc = "complete" /\ pc \in Executes \ {"execute"} /\ pc' = "report"
      /\ reservations' = (reservations \ Reserved(a)) \union {q}
      /\ a # NoAction /\ UNCHANGED <<log, job>>
  BY DEF Complete, Executing, Executes
<1>2. e.action = a /\ e.type = "action_started"
  BY EventFields
<1>3. q.action = a /\ q.obs = job.obs /\ q.obs # NoObs
  BY <1>1 DEF ConsentInv, Consents
<1>4. IsKnown(log, a)
  BY <1>1 DEF IdInv
<1> HIDE DEF e, q
<1>5. a.kind \in SideEffects => Consented(log, a)
  BY <1>1 DEF ConsentInv, Consents
<1>6. ASSUME NEW id, Performed(id) PROVE Performed(id)'
  <2>1. PICK r \in reservations : /\ r.action.id = id /\ r.obs # NoObs
                                  /\ r.action.kind \in SideEffects
    BY <1>6 DEF Performed
  <2>2. CASE r \in Reserved(a)
    <3>1. r.action = a
      BY <1>1, <1>4, <2>2, SameAction DEF Reserved
    <3> QED BY <1>1, <1>3, <2>1, <3>1 DEF Performed
  <2>3. CASE r \notin Reserved(a)
    BY <1>1, <2>1, <2>3 DEF Performed
  <2> QED BY <2>2, <2>3
<1>7. \A r \in reservations' : MustConsent(r) =>
        r \in reservations \/ Consented(log, r.action)
  BY <1>1, <1>3, <1>5 DEF MustConsent
<1>8. a.kind \in SideEffects => Performed(a.id)'
  BY <1>1, <1>3 DEF Performed
<1> QED BY <1>1, <1>2, <1>5, <1>6, <1>7, <1>8, ConsentGoesOn DEF Executes

LEMMA ReportConsents ==
  Inv /\ IdInv /\ KnowInv /\ ConsentInv /\ Report => ConsentInv'
<1> SUFFICES ASSUME Inv, IdInv, KnowInv, ConsentInv, Report PROVE ConsentInv'
  OBVIOUS
<1> DEFINE type == ReportType
           e == Result(type, job.action, job.obs)
<1>1. /\ pc = "report" /\ pc \in Executes
      /\ log' = Append(log, e) /\ Observe(job.obs)
      /\ UNCHANGED reservations
  BY DEF Report, Executing, Executes
<1>2. type \in {"action_recovered", "action_completed", "action_conflict",
                "action_failed"}
  BY DEF ReportType
<1> HIDE DEF type
<1>3. e.action = job.action /\ e.type = type
  BY EventFields
<1> HIDE DEF e
<1>4. job.then = "written" => Performed(job.action.id)
  BY <1>1 DEF KnowInv, KnowsActions, ConsentInv, Consents
<1> QED BY <1>1, <1>2, <1>3, <1>4, PlainObserves

LEMMA ExecuteStepConsents ==
  Inv /\ IdInv /\ KnowInv /\ ConsentInv /\ Execute => ConsentInv'
BY AuthorizeReadConsents, AskConsents, AuthorizeSideEffectConsents,
   ReserveConsents, StartConsents, ToolConsents, CompleteConsents,
   ReportConsents DEF Execute

-----------------------------------------------------------------------------
(* The loop keeps consent.                                                 *)

LEMMA QuietConsents ==
  ASSUME Inv, IdInv, ConsentLog, NEW s,
         log' \in {log, Append(log, Snapshot(s))}, reservations' = reservations
  PROVE  ConsentLog'
BY SnapshotIsPlain, PlainConsents

(* The steps that record at most a state, and execute nothing next.        *)
LEMMA RecordingConsents ==
  ASSUME Inv, IdInv, ConsentInv,
         \/ StartLoop \/ ResumeLoop \/ Recover \/ Resumed \/ EnterLoop
         \/ DecisionFails \/ LimitReached \/ AdvanceState \/ EndLoop
         \/ Answered \/ RejectedState \/ Diffed \/ Requested \/ Observed
         \/ Crash
  PROVE  ConsentInv'
<1> DEFINE Rests == pc' \notin Executes \union {"written"}
           Records == \E s : log' \in {log, Append(log, Snapshot(s))}
<1>1. Reset => Rests
  BY DEF Reset, Executes
<1>2. /\ \A l : Return(l) => Rests
      /\ Fail => Rests
      /\ \A l, c : Resume(l, c) => Rests
  BY <1>1 DEF Return, Fail, Resume, Executes
<1>3. SUFFICES Rests /\ Records /\ reservations' = reservations
  <2>1. SUFFICES ASSUME Rests, Records, reservations' = reservations
                 PROVE  ConsentInv'
    OBVIOUS
  <2> QED BY <2>1, ConsentRecords
<1>4. CASE StartLoop
  <2>1. log' = Append(log, Snapshot(CreateState)) /\ pc' = "step"
        /\ reservations' = reservations
    BY <1>4 DEF StartLoop
  <2> QED BY <2>1 DEF Executes
<1>5. CASE ResumeLoop \/ Crash
  BY <1>1, <1>2, <1>5 DEF ResumeLoop, Crash
<1>6. CASE Recover \/ Resumed
  <2>1. /\ Rests /\ reservations' = reservations
        /\ log' = IF Unseen(log) = {} THEN log
                  ELSE Append(log, Snapshot(Rebuilt(log)))
    BY <1>2, <1>6 DEF Recover, Resumed, PersistRebuilt, Executes
  <2> QED BY <2>1
<1>7. CASE EnterLoop \/ LimitReached
  BY <1>2, <1>7 DEF EnterLoop, LimitReached, stored, Executes
<1>8. CASE DecisionFails \/ EndLoop
  <2>1. Rests /\ reservations' = reservations
        /\ (log' = log \/ log' = Append(log, Snapshot(Stop(job.state, "failed")))
            \/ log' = Append(log, Snapshot(Stop(job.state, job.reason))))
    BY <1>2, <1>8 DEF DecisionFails, EndLoop
  <2> QED BY <2>1
<1>9. CASE AdvanceState
  <2>1. pc' \in {"step", "end"} /\ reservations' = reservations
    BY <1>9 DEF AdvanceState
  <2>2. log' = Append(log, Snapshot(Advance(job.state, job.action, job.obs,
                                            job.update)))
    BY <1>9 DEF AdvanceState
  <2> QED BY <2>1, <2>2 DEF Executes
<1>10. CASE Answered
  <2>1. /\ \E l, c : Resume(l, c)
        /\ reservations' = reservations
        /\ log' = log \/ \E s : log' = Append(log, Snapshot(s))
    BY <1>10 DEF Answered
  <2> QED BY <1>2, <2>1
<1>11. CASE RejectedState \/ Diffed \/ Requested \/ Observed
  <2>1. /\ (\E l, c : Resume(l, c)) \/ Fail \/ (\E l : Return(l))
           \/ pc' = "close"
        /\ reservations' = reservations
        /\ log' = log \/ \E s : log' = Append(log, Snapshot(s))
    BY <1>11 DEF RejectedState, Diffed, Requested, Observed
  <2> QED BY <1>2, <2>1 DEF Executes
<1> QED BY <1>4, <1>5, <1>6, <1>7, <1>8, <1>9, <1>10, <1>11

LEMMA ReconcileConsents ==
  Inv /\ IdInv /\ KnowInv /\ ConsentInv /\ Reconcile => ConsentInv'
<1> SUFFICES ASSUME Inv, IdInv, KnowInv, ConsentInv, Reconcile
             PROVE  ConsentInv'
  OBVIOUS
<1> DEFINE a == ActionOf(log, Pending(log))
           e == Result("action_recovered", a, StoredObs(a))
<1>1. /\ pc = "recover" /\ UNCHANGED <<pc, reservations>>
      /\ log' = Append(log, e)
  BY DEF Reconcile
<1>2. a \in Recorded(log)
  <2>1. Unresolved(log) # {}
    BY DEF Reconcile, Settled, PendingClass
  <2> QED BY <2>1, LogFacts, PendingInLog DEF Recorded
<1>3. e.type = "action_recovered" /\ e.action = a
  BY EventFields
<1> HIDE DEF e, a
<1>4. PlainEvent(e)
  BY <1>2, <1>3 DEF PlainEvent
<1> QED BY <1>1, <1>4, ConsentRests DEF Executes

LEMMA ResumePendingConsents ==
  Inv /\ IdInv /\ KnowInv /\ ConsentInv /\ ResumePending => ConsentInv'
<1> SUFFICES ASSUME Inv, IdInv, KnowInv, ConsentInv, ResumePending
             PROVE  ConsentInv'
  OBVIOUS
<1> DEFINE a == ActionOf(log, Pending(log))
           next == NextStep(log)
           open == next \in {"execute_pending", "retry_read_only"}
<1>1. UNCHANGED <<log, reservations>>
  BY DEF ResumePending
<1>2. CASE open
  <2>1. Unresolved(log) # {}
        /\ (next = "retry_read_only" => a.kind \notin SideEffects)
    BY <1>2 DEF NextStep, PendingClass, Classification
  <2>2. a \in Recorded(log)
    BY <2>1, LogFacts, PendingInLog DEF Recorded
  <2> HIDE DEF a
  <2>3. /\ pc' = "execute" \/ (pc' = "start" /\ a.kind \notin SideEffects)
        /\ job'.action = a /\ job'.then = "resumed"
    <3>1. IsJob(job)
      BY LogFacts
    <3> QED BY <1>2, <2>1, <3>1 DEF ResumePending, a, IsJob
  <2>4. ConsentLog'
    BY <1>1, QuietConsents DEF ConsentInv
  <2>5. IsOfDiff(a) => Performed(WriteOf(a))
    BY <2>2 DEF ConsentInv, ConsentLog
  <2> QED BY <1>1, <2>3, <2>4, <2>5, ConsentBegins
<1>3. CASE ~open
  <2>1. pc' = "wait"
    BY <1>3 DEF ResumePending
  <2> QED BY <1>1, <2>1, ConsentRecords DEF Executes
<1> QED BY <1>2, <1>3

(* The model does not decide the diff of a write.                          *)
LEMMA NoDiffDecided == ASSUME NEW a \in DecidedActions PROVE ~IsOfDiff(a)
<1> DEFINE id == LoopId
           changes == Kinds \intersect (WriteKinds \union {"propose_patch"})
<1>1. \/ \E k \in Kinds \intersect {"read_file", "inspect_proposed_diff",
                                    "finish"} : a = Read(id, k, 1)
      \/ a = Read(id, "ask_user", 1)
      \/ \E n \in BatchSizes : a = Read(id, "parallel_read", n)
      \/ \E k \in changes, e \in Edits :
           a = Action(id, k, e[1], e[2], e[3], 1, NoRef)
  <2> HIDE DEF id, changes
  <2> QED BY DEF DecidedActions, id, changes
<1> HIDE DEF id
<1> QED BY <1>1 DEF IsOfDiff, Read, Action, WriteKinds

LEMMA DecideConsents ==
  Inv /\ IdInv /\ KnowInv /\ ConsentInv /\ Decide => ConsentInv'
<1> SUFFICES ASSUME Inv, IdInv, KnowInv, ConsentInv, Decide PROVE ConsentInv'
  OBVIOUS
<1>1. PICK a \in DecidedActions, u \in Offered :
        log' = Append(log, [ActionEvent("decision_recorded", a)
                              EXCEPT !.update = u])
  BY DEF Decide
<1>2. pc' = "gate" /\ reservations' = reservations
  BY DEF Decide
<1> DEFINE e == [ActionEvent("decision_recorded", a) EXCEPT !.update = u]
<1>3. log' = Append(log, e)
  BY <1>1
<1>4. e.type = "decision_recorded" /\ e.action = a
  BY EventFields
<1> HIDE DEF e
<1>5. PlainEvent(e)
  BY <1>4, NoDiffDecided DEF PlainEvent
<1> QED BY <1>2, <1>3, <1>5, ConsentRests DEF Executes

LEMMA GateConsents ==
  Inv /\ IdInv /\ KnowInv /\ ConsentInv /\ Gate => ConsentInv'
<1> SUFFICES ASSUME Inv, IdInv, KnowInv, ConsentInv, Gate PROVE ConsentInv'
  OBVIOUS
<1>1. pc = "gate" /\ reservations' = reservations
      /\ job.action \in Recorded(log)
  BY DEF Gate, KnowInv, KnowsActions
<1>2. CASE pc' = "advance"
  <2>1. PICK type \in {"finish_blocked", "action_conflict"},
             obs \in {Plain("acceptance_incomplete"), Plain("conflict")} :
          log' = Append(log, Result(type, job.action, obs))
    BY <1>2 DEF Gate
  <2> DEFINE e == Result(type, job.action, obs)
  <2>2. e.type = type /\ e.action = job.action
    BY EventFields
  <2>3. log' = Append(log, e)
    BY <2>1
  <2> HIDE DEF e
  <2>4. PlainEvent(e)
    BY <1>1, <2>2 DEF PlainEvent
  <2> QED BY <1>1, <1>2, <2>3, <2>4, ConsentRests DEF Executes
<1>3. CASE pc' # "advance"
  <2>1. pc' = "execute" /\ log' = log
        /\ job' = [job EXCEPT !.then = "advance"]
    BY <1>3 DEF Gate
  <2>2. job'.action = job.action /\ job'.then = "advance"
    BY <2>1, LogFacts DEF IsJob
  <2>3. ConsentLog'
    BY <1>1, <2>1, QuietConsents DEF ConsentInv
  <2>4. IsOfDiff(job.action) => Performed(WriteOf(job.action))
    BY <1>1 DEF ConsentInv, ConsentLog
  <2> QED BY <1>1, <2>1, <2>2, <2>3, <2>4, ConsentBegins
<1> QED BY <1>2, <1>3

LEMMA LoopStepConsents ==
  Inv /\ IdInv /\ KnowInv /\ ConsentInv /\ Loop => ConsentInv'
BY RecordingConsents, ReconcileConsents, ResumePendingConsents,
   DecideConsents, GateConsents DEF Loop

-----------------------------------------------------------------------------
(* The calls of the user keep consent.                                     *)

LEMMA AnswerConsents ==
  Inv /\ IdInv /\ ConsentInv /\ Answer => ConsentInv'
<1> SUFFICES ASSUME Inv, IdInv, ConsentInv, Answer PROVE ConsentInv'
  OBVIOUS
<1> DEFINE q == run.question
<1>1. PICK answer \in Answers :
        \/ log' = log
        \/ /\ q = PendingInput(log)
           /\ log' = Append(log, [ActionEvent("input_received", q)
                                    EXCEPT !.answer = answer])
  BY DEF Answer
<1> DEFINE e == [ActionEvent("input_received", q) EXCEPT !.answer = answer]
<1>2. q # NoAction /\ Call("answer", "answered", q, "idle")
  BY DEF Answer
<1>3. pc' = "answered" /\ reservations' = reservations
  BY <1>2, CallFields
<1>4. CASE log' = log
  BY <1>3, <1>4, ConsentRecords DEF Executes
<1>5. CASE q = PendingInput(log) /\ log' = Append(log, e)
  <2>1. q \in Recorded(log)
    BY <1>2, <1>5, LogFacts, PendingInputWaits
  <2>2. e.type = "input_received" /\ e.action = q
    BY EventFields
  <2> HIDE DEF e, q
  <2>3. PlainEvent(e)
    BY <2>1, <2>2 DEF PlainEvent
  <2> QED BY <1>3, <1>5, <2>3, ConsentRests DEF Executes
<1> QED BY <1>1, <1>4, <1>5

(* A settlement is of the open request, which has no consent yet.          *)
LEMMA SettlementConsents ==
  ASSUME Inv, IdInv, KnowInv, ConsentInv, OfferedPending,
         NEW e, e.type \in {"approval_granted", "approval_rejected"},
         e.action = PendingApprovalAction, e.checkpoint = run.checkpoint,
         log' = Append(log, e), reservations' = reservations
  PROVE  ConsentLog'
<1> DEFINE a == PendingApprovalAction
           asked == Events({"approval_required"}, log)
           n == Newest(asked)
<1>1. ASSUME NEW r \in reservations', MustConsent(r)
      PROVE  Consented(log', r.action)
  <2>1. Consented(log, r.action)
    BY <1>1 DEF ConsentInv, ConsentLog
  <2>2. /\ r.action.id # a.id
        /\ log[At(log, r.action.id, {"approval_required"})].checkpoint #
             run.checkpoint
    BY <2>1, PendingHasNoConsent
  <2>3. Consented(Append(log, e), r.action)
    BY <2>1, <2>2, LogFacts, ConsentStays
  <2> QED BY <2>3
<1>2. \A id : Performed(id) => Performed(id)'
  BY DEF Performed
<1>3. a \in Recorded(log)
  BY PendingRequestWaits
<1>4. Has(log, a.id, {"approval_required"})
  <2>1. asked # {} /\ a = log[n].action
    BY DEF OfferedPending, PendingApproval, PendingApprovalAction, Requests
  <2>2. Len(log) \in Nat /\ asked \subseteq 1..Len(log)
    BY LogFacts DEF Events
  <2>3. n \in asked
    <3> HIDE DEF asked
    <3> QED BY <2>1, <2>2, NewestIsLast
  <2>4. n \in DOMAIN log /\ log[n].type = "approval_required"
    BY <2>3 DEF Events
  <2> HIDE DEF n
  <2> QED BY <1>3, <2>1, <2>4 DEF Has, Of, Recorded
<1> QED BY <1>1, <1>2, <1>3, <1>4, ConsentGrows DEF ConsentInv

LEMMA RejectConsents ==
  Inv /\ IdInv /\ KnowInv /\ ConsentInv /\ Reject => ConsentInv'
<1> SUFFICES ASSUME Inv, IdInv, KnowInv, ConsentInv, Reject PROVE ConsentInv'
  OBVIOUS
<1> DEFINE a == PendingApprovalAction
           c == run.checkpoint
           e == [ActionEvent("approval_rejected", a) EXCEPT !.checkpoint = c]
<1>1. /\ OfferedPending /\ log' = Append(log, e)
      /\ Call("reject", "rejected", NoAction, "idle")
  BY DEF Reject
<1>2. e.type = "approval_rejected" /\ e.action = a /\ e.checkpoint = c
  BY EventFields
<1>3. pc' = "rejected" /\ reservations' = reservations
  BY <1>1, CallFields
<1> HIDE DEF e
<1>4. ConsentLog'
  BY <1>1, <1>2, <1>3, SettlementConsents
<1>5. Consents'
  BY <1>3 DEF Consents, Executes
<1> QED BY <1>4, <1>5 DEF ConsentInv

LEMMA ApproveConsents ==
  Inv /\ IdInv /\ KnowInv /\ ConsentInv /\ Approve => ConsentInv'
<1> SUFFICES ASSUME Inv, IdInv, KnowInv, ConsentInv, Approve PROVE ConsentInv'
  OBVIOUS
<1> DEFINE a == PendingApprovalAction
           c == run.checkpoint
           e == [ActionEvent("approval_granted", a) EXCEPT !.checkpoint = c]
           then == IF a.kind = "validate" THEN "validated" ELSE "written"
<1>1. /\ OfferedPending /\ log' = Append(log, e)
      /\ Call("approve", "execute", a, then)
  BY DEF Approve
<1>2. e.type = "approval_granted" /\ e.action = a /\ e.checkpoint = c
  BY EventFields
<1>3. /\ pc' = "execute" /\ reservations' = reservations
      /\ job'.action = a /\ job'.then = then
  BY <1>1, CallFields
<1> HIDE DEF e
<1>4. ConsentLog'
  BY <1>1, <1>2, <1>3, SettlementConsents
<1>5. a \in Recorded(log) /\ a.kind \in SideEffects
  BY <1>1, PendingRequestWaits
<1>6. a # NoAction /\ IsKnown(log, a)
  BY <1>5 DEF Recorded, IsKnown
<1>7. ~IsOfDiff(a)
  BY <1>5 DEF IsOfDiff, SideEffects
<1>8. ASSUME NEW r \in reservations, MustConsent(r) PROVE r.action.id # a.id
  <2>1. Consented(log, r.action)
    BY <1>8 DEF ConsentInv, ConsentLog
  <2> QED BY <1>1, <2>1, PendingHasNoConsent
<1>9. ~Performed(a.id)
  BY <1>8 DEF Performed, MustConsent
<1>10. then = "validated" => Reserved(a) = {}
  <2>1. SUFFICES ASSUME a.kind = "validate", NEW r \in Reserved(a) PROVE FALSE
    OBVIOUS
  <2>2. r \in reservations /\ r.action.id = a.id
    BY <2>1 DEF Reserved
  <2>3. r.action = a
    BY <1>6, <2>2, SameAction
  <2> QED BY <1>5, <1>8, <2>1, <2>2, <2>3 DEF MustConsent
<1>11. then = "written" => NoDiffYet'
  <2>1. SUFFICES ASSUME then = "written" PROVE NoDiffYet'
    OBVIOUS
  <2>2. IdInv'
    BY NextIds DEF Next, UserCall
  <2>3. IsDecided(a)
    BY <1>3, <2>1, <2>2 DEF IdInv, Executes, IsDecided, Number
  <2>4. Recorded(log') = Recorded(log) \union ({e.action} \ {NoAction})
    BY <1>1, LogFacts, OfGrows
  <2>5. \A d \in Recorded(log) : IsOfDiff(d) => d.id[2] # a.id[2]
    <3>1. SUFFICES ASSUME NEW d \in Recorded(log), IsOfDiff(d),
                          d.id[2] = a.id[2]
                   PROVE  FALSE
      OBVIOUS
    <3>2. Performed(WriteOf(d))
      BY <3>1 DEF ConsentInv, ConsentLog
    <3>3. WriteOf(d) = a.id
      BY <2>3, <3>1 DEF WriteOf, IsDecided, Number
    <3> QED BY <1>9, <3>2, <3>3
  <2>6. \A d \in Recorded(log') : IsOfDiff(d) => d.id[2] # job'.action.id[2]
    BY <1>2, <1>3, <1>7, <2>4, <2>5
  <2> QED BY <2>6 DEF NoDiffYet, IsOfDiff
<1>12. then \in {"written", "validated"}
  OBVIOUS
<1> HIDE DEF a, then
<1> QED BY <1>3, <1>4, <1>7, <1>10, <1>11, <1>12, ConsentBegins

LEMMA UserCallConsents ==
  Inv /\ IdInv /\ KnowInv /\ ConsentInv /\ UserCall => ConsentInv'
<1> SUFFICES ASSUME Inv, IdInv, KnowInv, ConsentInv, UserCall
             PROVE  ConsentInv'
  OBVIOUS
<1>1. CASE RestoreQuestion \/ Cancel
  BY <1>1, SameConsents DEF RestoreQuestion, Cancel
<1> QED BY <1>1, AnswerConsents, ApproveConsents, RejectConsents DEF UserCall

-----------------------------------------------------------------------------
(* The continuations of a call keep consent.                               *)

LEMMA RequestNextConsents ==
  ASSUME Inv, IdInv, ConsentInv, NEW s, log' = Append(log, Snapshot(s)),
         reservations' = reservations, NEW cycle, RequestNext(cycle)
  PROVE  ConsentInv'
<1> DEFINE a == Validation(cycle.write, cycle.next)
<1>1. /\ pc' = "execute"
      /\ job' = [job EXCEPT !.action = a, !.then = "requested",
                            !.cycle = cycle]
  BY DEF RequestNext
<1>2. ~IsOfDiff(a)
  BY DEF Validation, Action, IsOfDiff
<1> HIDE DEF a
<1>3. job'.action = a /\ job'.then = "requested"
  BY <1>1, LogFacts DEF IsJob
<1>4. ConsentLog'
  BY QuietConsents DEF ConsentInv
<1> QED BY <1>1, <1>2, <1>3, <1>4, ConsentBegins

LEMMA CloseWriteConsents ==
  Inv /\ IdInv /\ ConsentInv /\ CloseWrite => ConsentInv'
<1> SUFFICES ASSUME Inv, IdInv, ConsentInv, CloseWrite PROVE ConsentInv'
  OBVIOUS
<1> DEFINE s == Stop(job.state, "write_complete")
           cycle == [write |-> job.action.id[2], next |-> 1]
<1>1. /\ log' = Append(log, Snapshot(s))
      /\ reservations' = reservations /\ (Fail \/ RequestNext(cycle))
  BY DEF CloseWrite
<1> HIDE DEF s, cycle
<1>2. CASE Fail
  BY <1>1, <1>2, ConsentRecords DEF Fail, Reset, Executes
<1>3. CASE RequestNext(cycle)
  BY <1>1, <1>3, RequestNextConsents
<1> QED BY <1>1, <1>2, <1>3

LEMMA ValidatedConsents ==
  Inv /\ IdInv /\ ConsentInv /\ Validated => ConsentInv'
<1> SUFFICES ASSUME Inv, IdInv, ConsentInv, Validated PROVE ConsentInv'
  OBVIOUS
<1> DEFINE s == Advance(LatestState(log), job.action, job.obs, NoUpdate)
           cycle == [job.cycle EXCEPT !.next = @ + 1]
<1>1. /\ log' = Append(log, Snapshot(s)) /\ reservations' = reservations
      /\ RequestNext(cycle) \/ pc' = "observed"
  BY DEF Validated
<1> HIDE DEF s, cycle
<1>2. CASE pc' = "observed"
  BY <1>1, <1>2, ConsentRecords DEF Executes
<1>3. CASE RequestNext(cycle)
  BY <1>1, <1>3, RequestNextConsents
<1> QED BY <1>1, <1>2, <1>3

LEMMA WrittenConsents ==
  Inv /\ IdInv /\ KnowInv /\ ConsentInv /\ Written => ConsentInv'
<1> SUFFICES ASSUME Inv, IdInv, KnowInv, ConsentInv, Written PROVE ConsentInv'
  OBVIOUS
<1> DEFINE a == job.action
           state == Advance(LatestState(log), a, job.obs, NoUpdate)
           after == PostWrite(state, a.id, job.obs.changed, Commands)
           stopped == Stop(state, "approval_required")
           diff == Read(Append(a.id, "diff"), "inspect_diff", 1)
<1>1. /\ pc = "written" /\ IsDecided(a) /\ reservations' = reservations
  BY DEF Written, IdInv
<1>2. CASE job.obs.status = "approval_required"
  <2>1. Return(log') /\ log' = Append(log, Snapshot(stopped))
    BY <1>2 DEF Written, SuccessStatuses
  <2> HIDE DEF stopped
  <2> QED BY <1>1, <2>1, ConsentRecords DEF Return, Reset, Executes
<1>3. CASE job.obs.status \notin SuccessStatuses \union {"approval_required"}
  <2>1. Reset /\ log' = log
    BY <1>3 DEF Written
  <2> QED BY <1>1, <2>1, ConsentRecords DEF Reset, Executes
<1>4. CASE job.obs.status \in SuccessStatuses
  <2>1. /\ log' = Append(log, Snapshot(after)) /\ pc' = "execute"
        /\ job' = [job EXCEPT !.action = diff, !.then = "diffed",
                              !.state = after]
    BY <1>4 DEF Written, SuccessStatuses
  <2>2. /\ IsDiff(diff) /\ diff.kind = "inspect_diff"
        /\ Number(diff) = Number(a)
    BY <1>1, DiffOfWrite
  <2> HIDE DEF after, diff
  <2>3. job'.action = diff /\ job'.then = "diffed"
    BY <2>1, LogFacts DEF IsJob
  <2>4. ConsentLog'
    BY <1>1, <2>1, QuietConsents DEF ConsentInv
  <2>5. Performed(WriteOf(diff))
    <3>1. WriteOf(diff) = a.id
      BY <1>1, <2>2 DEF WriteOf, IsDecided, Number
    <3> QED BY <1>1, <1>4, <3>1 DEF ConsentInv, Consents
  <2>6. Reserved(diff) = {}
    <3>1. SUFFICES ASSUME NEW r \in reservations, r.action.id = diff.id
                   PROVE  FALSE
      BY DEF Reserved
    <3>2. r.action \in Recorded(log)
      BY DEF KnowInv, KnowsActions
    <3>3. IsDecided(r.action) \/ IsDerived(r.action)
      BY <3>2, LogFacts DEF IdLog, ActionsOK
    <3>4. diff = r.action
      BY <2>2, <3>1, <3>3, DerivedById DEF IsDerived
    <3>5. NoDiffYet
      BY <1>1 DEF ConsentInv, Consents
    <3> QED BY <2>2, <3>2, <3>4, <3>5 DEF NoDiffYet, IsOfDiff, Number
  <2> QED BY <1>1, <2>1, <2>3, <2>4, <2>5, <2>6, ConsentBegins
<1> QED BY <1>2, <1>3, <1>4

LEMMA ContinueConsents ==
  Inv /\ IdInv /\ KnowInv /\ ConsentInv /\ Continue => ConsentInv'
BY RecordingConsents, WrittenConsents, CloseWriteConsents, ValidatedConsents
DEF Continue

LEMMA InitConsents == Init => ConsentInv
<1> SUFFICES ASSUME Init PROVE ConsentInv
  OBVIOUS
<1>1. log = <<>> /\ pc = "idle" /\ reservations = {}
  BY DEF Init
<1>2. ConsentLog
  BY <1>1 DEF ConsentLog, Recorded
<1>3. Consents
  BY <1>1 DEF Consents, Executes
<1> QED BY <1>2, <1>3 DEF ConsentInv

LEMMA NextConsents ==
  Inv /\ IdInv /\ KnowInv /\ ConsentInv /\ [Next]_vars => ConsentInv'
<1> SUFFICES ASSUME Inv, IdInv, KnowInv, ConsentInv, [Next]_vars
             PROVE  ConsentInv'
  OBVIOUS
<1>1. CASE Progress
  BY <1>1, ExecuteStepConsents, LoopStepConsents, ContinueConsents
  DEF Progress
<1>2. CASE StartLoop \/ ResumeLoop \/ UserCall \/ Crash
  BY <1>2, RecordingConsents, UserCallConsents
<1>3. CASE OutsideEdit
  BY <1>3, SameConsents DEF OutsideEdit
<1>4. CASE UNCHANGED vars
  BY <1>4, SameConsents DEF vars
<1> QED BY <1>1, <1>2, <1>3, <1>4 DEF Next

-----------------------------------------------------------------------------
(* The newest observation that a snapshot saw is one it tells.             *)

(* s tells the newest of the first n observations: a state that recovery   *)
(* or the loop recorded has seen it, and nothing drove it out.             *)
Tells(s, e) ==
  \E o \in Range(s.recent) : o.id = e.action.id /\ o.status = e.obs.status
HasOutcome(l, n, s) ==
  \A i \in DOMAIN l :
    (/\ l[i].type \in Observations /\ i <= n
     /\ \A j \in DOMAIN l : l[j].type \in Observations /\ j <= n => j <= i) =>
       Tells(s, l[i])

TellsOutcome == HasOutcome(log, SnapshotAt(log), LatestState(log))

(* What the call reports of a performed action, and the results after      *)
(* which the state is advanced without asking for the status.              *)
ToldInv ==
  /\ pc = "report" => job.obs.status \in ToolStatuses
  /\ pc \in {"diffed", "validated"} => job.obs.status # "recovery_required"

OutcomeInv == ToldInv /\ TellsOutcome

LEMMA OutcomeStays ==
  ASSUME NEW l, LogsEvents(l), SnapshotsOK(l),
         HasOutcome(l, SnapshotAt(l), LatestState(l)),
         NEW e, e.type # "working_state_updated"
  PROVE  LET m == Append(l, e)
         IN  HasOutcome(m, SnapshotAt(m), LatestState(m))
<1> DEFINE m == Append(l, e)
           n == Len(l)
           p == SnapshotAt(l)
           s == LatestState(l)
<1>1. /\ n \in Nat /\ DOMAIN l = 1..n /\ DOMAIN m = 1..(n + 1)
      /\ \A i \in 1..n : m[i] = l[i]
  BY AppendGrows DEF LogsEvents
<1>2. SnapshotAt(m) = p /\ LatestState(m) = s /\ p \in 0..n
  BY SnapshotKept, LatestIsState
<1>3. HasOutcome(l, p, s)
  OBVIOUS
<1> HIDE DEF m, n, p, s
<1>4. \A i \in DOMAIN m : i <= p => i \in DOMAIN l /\ m[i] = l[i]
  BY <1>1, <1>2
<1>5. \A i \in DOMAIN l : i \in DOMAIN m /\ m[i] = l[i]
  BY <1>1
<1>6. HasOutcome(m, p, s)
  BY <1>3, <1>4, <1>5 DEF HasOutcome
<1> QED BY <1>2, <1>6 DEF m

LEMMA OutcomeRecorded ==
  ASSUME NEW l, LogsEvents(l), SnapshotsOK(l),
         NEW s, IsTrue(l, s), HasOutcome(l, Len(l), s)
  PROVE  LET m == Append(l, Snapshot(s))
         IN  HasOutcome(m, SnapshotAt(m), LatestState(m))
<1> DEFINE e == Snapshot(s)
           m == Append(l, e)
           n == Len(l)
<1>1. e.type = "working_state_updated" /\ e.state = s
  BY EventFields
<1> HIDE DEF e
<1>2. /\ n \in Nat /\ DOMAIN l = 1..n /\ DOMAIN m = 1..(n + 1)
      /\ \A i \in 1..n : m[i] = l[i]
      /\ m[n + 1] = e
  BY AppendGrows DEF LogsEvents
<1>3. SnapshotAt(m) = n + 1
  BY SnapshotTaken DEF IsTrue, e
<1> HIDE DEF m, n
<1>4. LatestState(m) = s
  <2>1. LatestState(m) = FromRecord(s)
    BY <1>1, <1>2, <1>3 DEF LatestState
  <2> QED BY <2>1, TrueIsNormal
<1>5. HasOutcome(l, n, s)
  BY DEF n
<1>6. \A i \in DOMAIN m : m[i].type \in Observations =>
        i \in DOMAIN l /\ m[i] = l[i]
  BY <1>1, <1>2 DEF Observations, TerminalTypes, WaitingTypes
<1>7. \A i \in DOMAIN l : i \in DOMAIN m /\ m[i] = l[i] /\ i <= n
                          /\ i <= n + 1
  BY <1>2
<1>8. HasOutcome(m, n + 1, s)
  BY <1>5, <1>6, <1>7 DEF HasOutcome
<1> QED BY <1>3, <1>4, <1>8 DEF m, e

(* A state with the observations of the last snapshot tells the newest, if *)
(* none came since.                                                        *)
LEMMA OutcomeKept ==
  ASSUME NEW l, LogsEvents(l), SnapshotsOK(l),
         HasOutcome(l, SnapshotAt(l), LatestState(l)), Late(l) = {},
         NEW s, s.recent = LatestState(l).recent
  PROVE  HasOutcome(l, Len(l), s)
<1> DEFINE p == SnapshotAt(l)
           n == Len(l)
<1>1. n \in Nat /\ DOMAIN l = 1..n /\ p \in 0..n
  BY LogIsCharged, LatestIsState
<1>2. ASSUME NEW i \in DOMAIN l, l[i].type \in Observations PROVE i <= p
  <2>1. SUFFICES ASSUME ~(i <= p) PROVE FALSE
    OBVIOUS
  <2>2. i \in p + 1 .. n
    BY <1>1, <2>1
  <2>3. i \in Late(l)
    BY <1>2, <2>2 DEF Late, Learnt
  <2> QED BY <2>3
<1>3. HasOutcome(l, p, LatestState(l))
  OBVIOUS
<1> HIDE DEF p, n
<1>4. \A i \in DOMAIN l : i <= n
  BY <1>1
<1>5. HasOutcome(l, n, s)
  BY <1>2, <1>3, <1>4 DEF HasOutcome, Tells
<1> QED BY <1>5 DEF n

(* What recovery learns from an unseen event.                              *)
LEMMA FoldTells ==
  ASSUME NEW l, LogsEvents(l), SnapshotsOK(l), LearntOK(l),
         NEW s, IsTrue(l, s), NEW i \in Unseen(l)
  PROVE  /\ l[i].type # "input_received" => Tells(Fold(l, s, i), l[i])
         /\ l[i].type = "input_received" => Fold(l, s, i).recent = s.recent
<1> DEFINE a == l[i].action
           obs == l[i].obs
           answer == l[i].answer
<1>1. i \in DOMAIN l /\ l[i].type \in Learnt
  <2>1. i \in Late(l)
    BY LateIsUnseen
  <2>2. Len(l) \in Nat /\ DOMAIN l = 1..Len(l) /\ SnapshotAt(l) \in 0..Len(l)
    BY LogIsCharged, LatestIsState
  <2> QED BY <2>1, <2>2 DEF Late
<1>2. CASE l[i].type # "input_received"
  <2> DEFINE u == FoldedUpdate(l, s, i)
             o == [id |-> a.id, kind |-> a.kind, status |-> obs.status,
                   ref |-> a.ref]
  <2>1. UpdateFits(s, u) /\ IsUpdate(u)
    BY FoldedFits
  <2>2. obs.status \in SuccessStatuses => Shown(l, o)
    <3>1. SUFFICES ASSUME obs.status \in SuccessStatuses PROVE Shown(l, o)
      OBVIOUS
    <3>2. l[i].type \in TerminalTypes
      BY <1>1, <1>2, <3>1 DEF Learnt, Observations, LearntOK
    <3> QED BY <1>1, <3>2 DEF Shown
  <2>3. Fold(l, s, i) = Advance(s, a, obs, u)
    BY <1>2 DEF Fold
  <2> HIDE DEF a, obs, u
  <2>4. o \in Range(Advance(s, a, obs, u).recent)
    BY <2>1, <2>2, AdvancedIsTrue
  <2>5. o.id = a.id /\ o.status = obs.status
    OBVIOUS
  <2> HIDE DEF o
  <2>6. Tells(Fold(l, s, i), l[i])
    BY <2>3, <2>4, <2>5 DEF Tells, a, obs
  <2> QED BY <1>2, <2>6
<1>3. CASE l[i].type = "input_received"
  <2>1. Fold(l, s, i) \in {s, RecordAnswer(s, a.id, answer)}
    BY <1>3 DEF Fold
  <2> HIDE DEF a, answer
  <2>2. RecordAnswer(s, a.id, answer).recent = s.recent
    BY DEF RecordAnswer, IsTrue, IsState, StateFields
  <2> QED BY <1>3, <2>1, <2>2
<1> QED BY <1>2, <1>3

(* The newest observation is the newest of its kind of its action, and so  *)
(* unseen until a snapshot follows it.                                     *)
LEMMA NewestIsUnseen ==
  ASSUME NEW l, LogsEvents(l), SnapshotsOK(l), LearntOK(l),
         NEW i \in DOMAIN l, l[i].type \in Observations, i > SnapshotAt(l),
         \A j \in DOMAIN l : l[j].type \in Observations => j <= i
  PROVE  i \in Unseen(l)
<1> DEFINE id == l[i].action.id
<1>1. /\ Len(l) \in Nat /\ DOMAIN l = 1..Len(l)
      /\ SnapshotAt(l) \in 0..Len(l)
  BY LogIsCharged, LatestIsState
<1>2. l[i].action # NoAction
  BY DEF LearntOK, Learnt
<1>3. ASSUME NEW types, types \subseteq Observations, l[i].type \in types
      PROVE  i \in Of(l, id, types) /\ i = At(l, id, types)
  <2> DEFINE found == Of(l, id, types)
  <2>1. i \in found /\ found \subseteq 1..Len(l)
    BY <1>1, <1>2, <1>3 DEF Of
  <2>2. \A j \in found : j <= i
    BY <1>3 DEF Of
  <2>3. At(l, id, types) = Newest(found)
    BY DEF At
  <2> HIDE DEF found
  <2>4. Newest(found) \in found /\ \A j \in found : j <= Newest(found)
    BY <1>1, <2>1, NewestIsLast
  <2>5. Newest(found) = i
    BY <1>1, <2>1, <2>2, <2>4
  <2> QED BY <2>1, <2>3, <2>5 DEF found
<1>4. i \in ObservedAt(l, id)
  BY <1>3 DEF ObservedAt, Observations
<1>5. i \in SnapshotAt(l) + 1 .. Len(l)
  BY <1>1
<1> QED BY <1>2, <1>4, <1>5 DEF Unseen

(* The rebuilt state tells the newest observation of the log.              *)
LEMMA RebuiltTells ==
  ASSUME NEW l, LogsEvents(l), SnapshotsOK(l), TrueLog(l),
         HasOutcome(l, SnapshotAt(l), LatestState(l))
  PROVE  HasOutcome(l, Len(l), Rebuilt(l))
<1> DEFINE from == SnapshotAt(l)
<1>1. /\ Len(l) \in Nat /\ DOMAIN l = 1..Len(l) /\ from \in 0..Len(l)
      /\ LearntOK(l) /\ IsTrue(l, LatestState(l))
      /\ HasOutcome(l, from, LatestState(l))
  BY LogIsCharged, LatestIsState, LatestIsTrue DEF TrueLog
<1>2. PICK f : Rebuilds(f, l) /\ Rebuilt(l) = f[Len(l)]
  BY RebuiltBySteps
<1>3. SUFFICES ASSUME NEW i \in DOMAIN l, l[i].type \in Observations,
                      \A j \in DOMAIN l :
                        (l[j].type \in Observations /\ j <= Len(l)) => j <= i
               PROVE  Tells(Rebuilt(l), l[i])
  BY DEF HasOutcome
<1>4. \A j \in DOMAIN l : l[j].type \in Observations => j <= i
  BY <1>1, <1>3
<1>5. i > from => i \in Unseen(l)
  BY <1>1, <1>3, <1>4, NewestIsUnseen
<1>6. i <= from => Tells(LatestState(l), l[i])
  BY <1>1, <1>3, <1>4 DEF HasOutcome
<1>7. ASSUME NEW n \in Unseen(l)
      PROVE  n = i \/ n < i \/ l[n].type = "input_received"
  <2>1. n \in DOMAIN l /\ n \in Late(l)
    BY <1>1, LateIsUnseen DEF Late
  <2>2. l[n].type \in Observations \/ l[n].type = "input_received"
    BY <2>1 DEF Late, Learnt
  <2> QED BY <1>1, <1>3, <1>4, <2>1, <2>2
<1>8. l[i].type # "input_received"
  BY <1>3 DEF Observations, TerminalTypes, WaitingTypes
<1>9. f[from] = LatestState(l)
      /\ \A n \in from + 1 .. Len(l) :
           f[n] = IF n \in Unseen(l) THEN Fold(l, f[n - 1], n) ELSE f[n - 1]
  BY <1>2 DEF Rebuilds
<1> DEFINE Q(n) == IsTrue(l, f[n]) /\ (i <= n => Tells(f[n], l[i]))
           S == {k \in Nat : from + k <= Len(l) => Q(from + k)}
<1> HIDE DEF from
<1>10. 0 \in S
  <2>1. from + 0 = from
    BY <1>1
  <2> QED BY <1>1, <1>6, <1>9, <2>1
<1>11. ASSUME NEW k \in Nat, k \in S PROVE k + 1 \in S
  <2> DEFINE n == from + k
             p == from + (k + 1)
  <2>1. SUFFICES ASSUME p <= Len(l) PROVE Q(p)
    OBVIOUS
  <2>2. /\ n \in Nat /\ p \in Nat /\ p = n + 1 /\ p - 1 = n
        /\ n <= Len(l) /\ p \in from + 1 .. Len(l) /\ p \in DOMAIN l
        /\ from < p
    BY <1>1, <2>1
  <2>3. Q(n)
    BY <1>11, <2>2
  <2>4. f[p] = IF p \in Unseen(l) THEN Fold(l, f[n], p) ELSE f[n]
    BY <1>9, <2>2
  <2> HIDE DEF n, p
  <2> DEFINE s == f[n]
             t == f[p]
  <2>5. IsTrue(l, s) /\ (i <= n => Tells(s, l[i]))
        /\ t = IF p \in Unseen(l) THEN Fold(l, s, p) ELSE s
    BY <2>3, <2>4
  <2> HIDE DEF s, t
  <2>6. IsTrue(l, t)
    BY <1>1, <2>5, FoldIsTrue
  <2>7. ASSUME i <= p PROVE Tells(t, l[i])
    <3>1. CASE i = p
      <4>1. p \in Unseen(l)
        BY <1>5, <2>2, <3>1 DEF from
      <4>2. Tells(Fold(l, s, p), l[p])
        BY <1>1, <1>8, <2>5, <3>1, <4>1, FoldTells
      <4> QED BY <2>5, <3>1, <4>1, <4>2
    <3>2. CASE i # p
      <4>1. i <= n
        BY <1>1, <2>2, <2>7, <3>2
      <4>2. p \notin Unseen(l) => t = s
        BY <2>5
      <4>3. p \in Unseen(l) => t.recent = s.recent
        <5>1. SUFFICES ASSUME p \in Unseen(l) PROVE t.recent = s.recent
          OBVIOUS
        <5>2. l[p].type = "input_received"
          BY <1>1, <1>7, <2>2, <2>7, <3>2, <5>1
        <5>3. Fold(l, s, p).recent = s.recent
          BY <1>1, <2>5, <5>1, <5>2, FoldTells
        <5> QED BY <2>5, <5>1, <5>3
      <4> QED BY <2>5, <4>1, <4>2, <4>3 DEF Tells
    <3> QED BY <3>1, <3>2
  <2> QED BY <2>6, <2>7 DEF t
<1> HIDE DEF S
<1> DEFINE d == Len(l) - from
<1>12. d \in Nat /\ from + d = Len(l)
  BY <1>1
<1> HIDE DEF d
<1>13. d \in S
  BY <1>10, <1>11, <1>12, SetInduction
<1>14. Q(Len(l))
  BY <1>12, <1>13 DEF S
<1> QED BY <1>1, <1>2, <1>3, <1>14

-----------------------------------------------------------------------------
(* How a step keeps the outcome.                                           *)

(* An event that is no snapshot.                                           *)
LEMMA EventTells ==
  ASSUME Inv, IdInv, TellsOutcome, NEW e, e.type # "working_state_updated",
         log' = Append(log, e)
  PROVE  TellsOutcome'
<1>1. LogsEvents(log) /\ SnapshotsOK(log)
  BY LogFacts
<1>2. HasOutcome(log', SnapshotAt(log'), LatestState(log'))
  BY <1>1, OutcomeStays DEF TellsOutcome
<1> QED BY <1>2 DEF TellsOutcome

(* A snapshot of a state that tells the newest observation.                *)
LEMMA SnapshotTells ==
  ASSUME Inv, IdInv, NEW s, IsTrue(log, s), HasOutcome(log, Len(log), s),
         log' = Append(log, Snapshot(s))
  PROVE  TellsOutcome'
<1>1. LogsEvents(log) /\ SnapshotsOK(log)
  BY LogFacts
<1>2. HasOutcome(log', SnapshotAt(log'), LatestState(log'))
  BY <1>1, OutcomeRecorded
<1> QED BY <1>2 DEF TellsOutcome

(* A snapshot of the state that the loop has, stopped or not.              *)
LEMMA KeptTells ==
  ASSUME Inv, IdInv, TellsOutcome, Late(log) = {}, NEW s, IsTrue(log, s),
         s.recent = LatestState(log).recent, log' = Append(log, Snapshot(s))
  PROVE  TellsOutcome'
<1>1. LogsEvents(log) /\ SnapshotsOK(log)
  BY LogFacts
<1>2. HasOutcome(log, Len(log), s)
  BY <1>1, OutcomeKept DEF TellsOutcome
<1> QED BY <1>2, SnapshotTells

(* Recovery records what it rebuilt.                                       *)
LEMMA PersistTells ==
  ASSUME Inv, IdInv, KnowInv, TellsOutcome,
         log' = IF Unseen(log) = {} THEN log
                ELSE Append(log, Snapshot(Rebuilt(log)))
  PROVE  TellsOutcome'
<1>1. LogsEvents(log) /\ SnapshotsOK(log) /\ TrueLog(log)
  BY LogFacts DEF KnowInv
<1> DEFINE s == Rebuilt(log)
<1>2. IsTrue(log, s) /\ HasOutcome(log, Len(log), s)
  BY <1>1, RebuiltIsTrue, RebuiltTells DEF TellsOutcome
<1>3. log' = log \/ log' = Append(log, Snapshot(s))
  OBVIOUS
<1> HIDE DEF s
<1>4. CASE log' = log
  BY <1>4 DEF TellsOutcome
<1>5. CASE log' = Append(log, Snapshot(s))
  BY <1>2, <1>5, SnapshotTells
<1> QED BY <1>3, <1>4, <1>5

(* The state after an observation that has returned tells it, and so does  *)
(* what is made of that state.                                             *)
LEMMA AdvancedTells ==
  ASSUME Inv, IdInv, KnowInv, pc \in ReturnsTo \ {"resumed"},
         job.obs.status # "recovery_required" \/ pc = "advance",
         NEW u, UpdateFits(LatestState(log), u), IsUpdate(u),
         NEW s, s = Advance(LatestState(log), job.action, job.obs, u),
         NEW t, t.recent = s.recent
  PROVE  HasOutcome(log, Len(log), t)
<1> DEFINE o == [id |-> job.action.id, kind |-> job.action.kind,
                 status |-> job.obs.status, ref |-> job.action.ref]
<1>1. Reports(log) /\ LearntOK(log) /\ IsTrue(log, LatestState(log))
  BY LatestKnown DEF KnowInv, KnowsOutcome, TrueLog
<1>2. Len(log) \in Nat /\ DOMAIN log = 1..Len(log) /\ Len(log) \in DOMAIN log
  BY <1>1, LogFacts DEF Reports
<1>3. job.obs.status \in SuccessStatuses => Shown(log, o)
  <2>1. SUFFICES ASSUME job.obs.status \in SuccessStatuses
                 PROVE  \E i \in DOMAIN log :
                          /\ log[i].type \in TerminalTypes
                          /\ log[i].action = job.action
                          /\ log[i].obs = job.obs
    BY DEF Shown
  <2>2. log[Len(log)].type \in TerminalTypes
    BY <1>1, <1>2, <2>1 DEF Reports, LearntOK, Observations
  <2> QED BY <1>1, <1>2, <2>2 DEF Reports
<1>4. o \in Range(s.recent)
  BY <1>1, <1>3, AdvancedIsTrue
<1>5. o.id = job.action.id /\ o.status = job.obs.status
  OBVIOUS
<1> HIDE DEF o
<1>6. Tells(t, log[Len(log)])
  BY <1>1, <1>4, <1>5 DEF Tells, Reports
<1>7. \A i \in DOMAIN log :
        (\A j \in DOMAIN log :
           log[j].type \in Observations /\ j <= Len(log) => j <= i) =>
          i = Len(log)
  <2>1. log[Len(log)].type \in Observations /\ Len(log) <= Len(log)
    BY <1>1, <1>2 DEF Reports
  <2> QED BY <1>2, <2>1
<1> QED BY <1>6, <1>7 DEF HasOutcome

LEMMA QuietTells ==
  ASSUME Inv, IdInv, TellsOutcome,
         \/ log' = log
         \/ \E e : e.type # "working_state_updated" /\ log' = Append(log, e)
  PROVE  TellsOutcome'
<1>1. CASE log' = log
  BY <1>1 DEF TellsOutcome
<1>2. CASE \E e : e.type # "working_state_updated" /\ log' = Append(log, e)
  BY <1>2, EventTells
<1> QED BY <1>1, <1>2

LEMMA ExecuteTells ==
  Inv /\ IdInv /\ TellsOutcome /\ Execute => TellsOutcome'
<1> SUFFICES ASSUME Inv, IdInv, TellsOutcome, Execute PROVE TellsOutcome'
  OBVIOUS
<1>1. CASE Tool \/ Complete
  BY <1>1, QuietTells DEF Tool, Complete
<1>2. ASSUME NEW e, e.type # "working_state_updated", log' = Append(log, e)
      PROVE  TellsOutcome'
  BY <1>2, EventTells
<1>3. ASSUME NEW type, type # "working_state_updated", NEW a,
             \/ log' = Append(log, ActionEvent(type, a))
             \/ \E obs : log' = Append(log, Result(type, a, obs))
      PROVE  TellsOutcome'
  <2>1. /\ ActionEvent(type, a).type = type
        /\ \A obs : Result(type, a, obs).type = type
    BY EventFields
  <2> QED BY <1>2, <1>3, <2>1
<1>4. CASE AuthorizeRead
  <2>1. log' = Append(log, ActionEvent("action_authorized", job.action))
    BY <1>4 DEF AuthorizeRead
  <2> QED BY <1>3, <2>1
<1>5. CASE Ask
  <2>1. log' = Append(log, Result("input_required", job.action,
                                  Plain("input_required")))
    BY <1>5 DEF Ask
  <2> QED BY <1>3, <2>1
<1>6. CASE AuthorizeSideEffect
  <2> DEFINE a == job.action
             asked == [Result("approval_required", a,
                              Plain("approval_required"))
                         EXCEPT !.checkpoint = Checkpoint(a),
                                !.baseline = Baseline(a)]
  <2>1. \/ \E obs : log' = Append(log, Result("action_replayed", a, obs))
        \/ \E obs : log' = Append(log, Result("action_conflict", a, obs))
        \/ \E obs : log' = Append(log, Result("action_denied", a, obs))
        \/ log' = Append(log, ActionEvent("action_authorized", a))
        \/ log' = Append(log, asked)
    BY <1>6 DEF AuthorizeSideEffect
  <2>2. asked.type = "approval_required"
    BY EventFields
  <2> HIDE DEF asked, a
  <2> QED BY <1>2, <1>3, <2>1, <2>2
<1>7. CASE Reserve
  <2> DEFINE a == job.action
  <2>1. \/ log' = log
        \/ \E obs : log' = Append(log, Result("action_replayed", a, obs))
        \/ \E obs : log' = Append(log, Result("action_recovery_required", a,
                                              obs))
    BY <1>7 DEF Reserve
  <2> HIDE DEF a
  <2> QED BY <1>3, <2>1, QuietTells
<1>8. CASE Start
  <2>1. \E type \in StartTypes :
          log' = Append(log, ActionEvent(type, job.action))
    BY <1>8 DEF Start, StartTypes
  <2> QED BY <1>3, <2>1 DEF StartTypes
<1>9. CASE Report
  <2>1. log' = Append(log, Result(ReportType, job.action, job.obs))
    BY <1>9 DEF Report
  <2>2. ReportType # "working_state_updated"
    BY DEF ReportType
  <2> QED BY <1>3, <2>1, <2>2
<1> QED BY <1>1, <1>4, <1>5, <1>6, <1>7, <1>8, <1>9 DEF Execute

LEMMA AdvanceStateTells ==
  Inv /\ IdInv /\ KnowInv /\ TellsOutcome /\ AdvanceState => TellsOutcome'
<1> SUFFICES ASSUME Inv, IdInv, KnowInv, TellsOutcome, AdvanceState
             PROVE  TellsOutcome'
  OBVIOUS
<1> DEFINE s == Advance(job.state, job.action, job.obs, job.update)
<1>1. pc = "advance" /\ log' = Append(log, Snapshot(s))
  BY DEF AdvanceState
<1>2. job.state = LatestState(log) /\ pc \in ReturnsTo \ {"resumed"}
  BY <1>1 DEF KnowInv, Holds, InLoop, ReturnsTo
<1>3. UpdateFits(job.state, job.update) /\ IsUpdate(job.update)
  BY <1>1 DEF KnowInv, InLoop, Decided
<1>4. IsTrue(log, s)
  BY <1>2, <1>3, OutcomeIsTrue
<1>5. HasOutcome(log, Len(log), s)
  BY <1>1, <1>2, <1>3, AdvancedTells
<1> HIDE DEF s
<1> QED BY <1>1, <1>4, <1>5, SnapshotTells

LEMMA LoopTells ==
  Inv /\ IdInv /\ KnowInv /\ TellsOutcome /\ Loop => TellsOutcome'
<1> SUFFICES ASSUME Inv, IdInv, KnowInv, TellsOutcome, Loop
             PROVE  TellsOutcome'
  OBVIOUS
<1>1. CASE Recover \/ Resumed
  <2>1. log' = IF Unseen(log) = {} THEN log
               ELSE Append(log, Snapshot(Rebuilt(log)))
    BY <1>1 DEF Recover, Resumed, PersistRebuilt
  <2> QED BY <2>1, PersistTells
<1>2. CASE ResumePending \/ EnterLoop \/ LimitReached
  <2>1. log' = log
    BY <1>2 DEF ResumePending, EnterLoop, LimitReached
  <2> QED BY <2>1, QuietTells
<1>3. CASE Reconcile
  <2> DEFINE a == ActionOf(log, Pending(log))
             e == Result("action_recovered", a, StoredObs(a))
  <2>1. log' = Append(log, e)
    BY <1>3 DEF Reconcile
  <2>2. e.type = "action_recovered"
    BY EventFields
  <2> HIDE DEF e
  <2> QED BY <2>1, <2>2, EventTells
<1>4. CASE Decide
  <2>1. PICK a \in DecidedActions, u \in Offered :
          log' = Append(log, [ActionEvent("decision_recorded", a)
                                EXCEPT !.update = u])
    BY <1>4 DEF Decide
  <2> DEFINE e == [ActionEvent("decision_recorded", a) EXCEPT !.update = u]
  <2>2. e.type = "decision_recorded"
    BY EventFields
  <2>3. log' = Append(log, e)
    BY <2>1
  <2> HIDE DEF e
  <2> QED BY <2>2, <2>3, EventTells
<1>5. CASE Gate
  <2>1. \/ log' = log
        \/ \E type \in {"finish_blocked", "action_conflict"} : \E obs :
             log' = Append(log, Result(type, job.action, obs))
    BY <1>5 DEF Gate
  <2>2. \A type, obs : Result(type, job.action, obs).type = type
    BY EventFields
  <2> QED BY <2>1, <2>2, QuietTells
<1>6. ASSUME NEW reason, pc \in {"step", "end"},
             \/ log' = log
             \/ log' = Append(log, Snapshot(Stop(job.state, reason)))
      PROVE  TellsOutcome'
  <2> DEFINE s == Stop(job.state, reason)
  <2>1. /\ Late(log) = {} /\ job.state = LatestState(log)
        /\ IsTrue(log, LatestState(log))
    BY <1>6, LatestKnown DEF KnowInv, Learned, Holds
  <2>2. IsTrue(log, s) /\ s.recent = LatestState(log).recent
    BY <2>1, StoppedIsTrue
  <2>3. log' = log \/ log' = Append(log, Snapshot(s))
    BY <1>6
  <2> HIDE DEF s
  <2> QED BY <2>1, <2>2, <2>3, KeptTells, QuietTells
<1>7. CASE DecisionFails
  BY <1>6, <1>7 DEF DecisionFails
<1>8. CASE EndLoop
  BY <1>6, <1>8 DEF EndLoop
<1> QED BY <1>1, <1>2, <1>3, <1>4, <1>5, <1>7, <1>8, AdvanceStateTells
        DEF Loop

LEMMA UserCallTells ==
  Inv /\ IdInv /\ TellsOutcome /\ UserCall => TellsOutcome'
<1> SUFFICES ASSUME Inv, IdInv, TellsOutcome, UserCall PROVE TellsOutcome'
  OBVIOUS
<1>1. CASE RestoreQuestion \/ Cancel
  <2>1. log' = log
    BY <1>1 DEF RestoreQuestion, Cancel
  <2> QED BY <2>1, QuietTells
<1>2. ASSUME NEW type, type # "working_state_updated", NEW a, NEW answer,
             log' = Append(log, [ActionEvent(type, a) EXCEPT !.answer = answer])
      PROVE  TellsOutcome'
  <2> DEFINE e == [ActionEvent(type, a) EXCEPT !.answer = answer]
  <2>1. e.type = type
    BY EventFields
  <2>2. log' = Append(log, e)
    BY <1>2
  <2> HIDE DEF e
  <2> QED BY <1>2, <2>1, <2>2, EventTells
<1>3. ASSUME NEW type, type # "working_state_updated", NEW a, NEW c,
             log' = Append(log, [ActionEvent(type, a) EXCEPT !.checkpoint = c])
      PROVE  TellsOutcome'
  <2> DEFINE e == [ActionEvent(type, a) EXCEPT !.checkpoint = c]
  <2>1. e.type = type
    BY EventFields
  <2>2. log' = Append(log, e)
    BY <1>3
  <2> HIDE DEF e
  <2> QED BY <1>3, <2>1, <2>2, EventTells
<1>4. CASE Answer
  <2>1. \/ log' = log
        \/ \E answer : log' = Append(log,
                         [ActionEvent("input_received", run.question)
                            EXCEPT !.answer = answer])
    BY <1>4 DEF Answer
  <2> QED BY <1>2, <2>1, QuietTells
<1>5. CASE Approve
  <2>1. log' = Append(log, [ActionEvent("approval_granted",
                                        PendingApprovalAction)
                              EXCEPT !.checkpoint = run.checkpoint])
    BY <1>5 DEF Approve
  <2> QED BY <1>3, <2>1
<1>6. CASE Reject
  <2>1. log' = Append(log, [ActionEvent("approval_rejected",
                                        PendingApprovalAction)
                              EXCEPT !.checkpoint = run.checkpoint])
    BY <1>6 DEF Reject
  <2> QED BY <1>3, <2>1
<1> QED BY <1>1, <1>4, <1>5, <1>6 DEF UserCall

LEMMA AnsweredTells ==
  Inv /\ IdInv /\ KnowInv /\ TellsOutcome /\ Answered => TellsOutcome'
<1> SUFFICES ASSUME Inv, IdInv, KnowInv, TellsOutcome, Answered
             PROVE  TellsOutcome'
  OBVIOUS
<1> DEFINE id == job.action.id
           i == At(log, id, {"input_received"})
           answer == log[i].answer
           s == Rebuilt(log)
           t == RecordAnswer(s, id, answer)
<1>1. /\ pc = "answered"
      /\ \/ log' = log
         \/ log' = Append(log, Snapshot(s))
         \/ log' = Append(log, Snapshot(t))
  BY DEF Answered
<1>2. /\ LogsEvents(log) /\ SnapshotsOK(log) /\ TrueLog(log) /\ LearntOK(log)
      /\ NewestAnswer(log, id)
  BY <1>1, LogFacts DEF KnowInv, KnowsAnswer, TrueLog
<1>3. IsTrue(log, s) /\ HasOutcome(log, Len(log), s)
  BY <1>2, RebuiltIsTrue, RebuiltTells DEF TellsOutcome
<1>4. i \in DOMAIN log /\ log[i].type = "input_received"
      /\ log[i].action.id = id
  BY <1>2, NewestIsGiven
<1> HIDE DEF i
<1>5. Given(log, [id |-> id, answer |-> answer])
  BY <1>4 DEF Given
<1> HIDE DEF s, answer, id
<1>6. IsTrue(log, t)
  BY <1>3, <1>5, AnsweredIsTrue
<1>7. t.recent = s.recent
  BY <1>3 DEF RecordAnswer, IsTrue, IsState, StateFields
<1>8. HasOutcome(log, Len(log), t)
  <2> HIDE DEF t
  <2> QED BY <1>3, <1>7 DEF HasOutcome, Tells
<1> HIDE DEF t
<1> QED BY <1>1, <1>3, <1>6, <1>8, QuietTells, SnapshotTells

LEMMA WrittenTells ==
  Inv /\ IdInv /\ KnowInv /\ TellsOutcome /\ Written => TellsOutcome'
<1> SUFFICES ASSUME Inv, IdInv, KnowInv, TellsOutcome, Written
             PROVE  TellsOutcome'
  OBVIOUS
<1> DEFINE a == job.action
           state == Advance(LatestState(log), a, job.obs, NoUpdate)
           changed == job.obs.changed
           after == PostWrite(state, a.id, changed, Commands)
           stopped == Stop(state, "approval_required")
<1>1. /\ pc = "written" /\ pc \in ReturnsTo \ {"resumed"}
      /\ a.kind \in SideEffects
  BY DEF Written, ReturnsTo, KnowInv, KnowsActions
<1>2. IsTrue(log, state)
  BY <1>1, NoUpdateFits, OutcomeIsTrue
<1>3. ASSUME job.obs.status # "recovery_required", NEW t,
             t.recent = state.recent
      PROVE  HasOutcome(log, Len(log), t)
  BY <1>1, <1>3, NoUpdateFits, AdvancedTells
<1>4. CASE job.obs.status = "approval_required"
  <2>1. log' = Append(log, Snapshot(stopped))
    BY <1>4 DEF Written, SuccessStatuses
  <2> HIDE DEF state
  <2>2. IsTrue(log, stopped) /\ stopped.recent = state.recent
    BY <1>2, StoppedIsTrue
  <2>3. HasOutcome(log, Len(log), stopped)
    BY <1>3, <1>4, <2>2
  <2> HIDE DEF stopped
  <2> QED BY <2>1, <2>2, <2>3, SnapshotTells
<1>5. CASE job.obs.status \in SuccessStatuses
  <2>1. log' = Append(log, Snapshot(after))
    BY <1>5 DEF Written, SuccessStatuses
  <2>2. Succeeded(log, a.id, EvidenceKinds, NoRef)
    <3>1. Reports(log) /\ LearntOK(log)
      BY <1>1, <1>5 DEF KnowInv, KnowsOutcome, SuccessStatuses, TrueLog
    <3>2. Len(log) \in DOMAIN log
      BY <3>1, LogFacts DEF Reports
    <3>3. log[Len(log)].type \in TerminalTypes
      BY <1>5, <3>1, <3>2 DEF Reports, LearntOK, Observations
    <3>4. a.kind \in EvidenceKinds
      BY <1>1 DEF SideEffects, EvidenceKinds
    <3> QED BY <1>5, <3>1, <3>2, <3>3, <3>4 DEF Reports, Succeeded
  <2>3. Commands \in Seq(Range(Commands))
    BY AgentLoopAssumption
  <2> HIDE DEF state, changed
  <2>4. IsTrue(log, after) /\ after.recent = state.recent
    BY <1>2, <2>2, <2>3, PostWriteIsTrue
  <2>5. HasOutcome(log, Len(log), after)
    BY <1>3, <1>5, <2>4 DEF SuccessStatuses
  <2> HIDE DEF after
  <2> QED BY <2>1, <2>4, <2>5, SnapshotTells
<1>6. CASE job.obs.status \notin SuccessStatuses \union {"approval_required"}
  BY <1>6, QuietTells DEF Written
<1> QED BY <1>4, <1>5, <1>6

LEMMA ContinueTells ==
  Inv /\ IdInv /\ KnowInv /\ OutcomeInv /\ Continue => TellsOutcome'
<1> SUFFICES ASSUME Inv, IdInv, KnowInv, OutcomeInv, Continue
             PROVE  TellsOutcome'
  OBVIOUS
<1>1. TellsOutcome /\ ToldInv
  BY DEF OutcomeInv
<1>2. ASSUME NEW s, s = Advance(LatestState(log), job.action, job.obs,
                                NoUpdate),
             NEW t, t \in {s, Stop(s, "approval_required")},
             pc \in ReturnsTo \ {"resumed"},
             job.obs.status # "recovery_required",
             log' = Append(log, Snapshot(t))
      PROVE  TellsOutcome'
  <2>1. IsTrue(log, s)
    BY <1>2, NoUpdateFits, OutcomeIsTrue
  <2>2. IsTrue(log, t) /\ t.recent = s.recent
    BY <1>2, <2>1, StoppedIsTrue
  <2>3. HasOutcome(log, Len(log), t)
    BY <1>2, <2>2, NoUpdateFits, AdvancedTells
  <2> QED BY <1>2, <2>2, <2>3, SnapshotTells
<1>3. ASSUME NEW reason, pc \in {"rejected", "close", "observed"},
             \/ log' = log
             \/ log' = Append(log, Snapshot(Stop(LatestState(log), reason)))
      PROVE  TellsOutcome'
  <2> DEFINE s == Stop(LatestState(log), reason)
  <2>1. Late(log) = {} /\ IsTrue(log, LatestState(log))
    BY <1>3, LatestKnown DEF KnowInv, Learned
  <2>2. IsTrue(log, s) /\ s.recent = LatestState(log).recent
    BY <2>1, StoppedIsTrue
  <2>3. log' = log \/ log' = Append(log, Snapshot(s))
    BY <1>3
  <2> HIDE DEF s
  <2> QED BY <1>1, <2>1, <2>2, <2>3, KeptTells, QuietTells
<1>4. CASE RejectedState
  BY <1>3, <1>4 DEF RejectedState
<1>5. CASE CloseWrite
  <2>1. pc = "close" /\ job.state = LatestState(log)
    BY <1>5 DEF CloseWrite, KnowInv, Holds
  <2> QED BY <1>3, <1>5, <2>1 DEF CloseWrite
<1>6. CASE Observed
  BY <1>3, <1>6 DEF Observed
<1>7. CASE Diffed
  <2>1. /\ pc = "diffed" /\ job.state = LatestState(log)
        /\ log' = Append(log, Snapshot(Advance(job.state, job.action, job.obs,
                                               NoUpdate)))
    BY <1>7 DEF Diffed, KnowInv, Holds
  <2>2. job.obs.status # "recovery_required"
    BY <1>1, <2>1 DEF ToldInv
  <2> QED BY <1>2, <2>1, <2>2 DEF ReturnsTo
<1>8. CASE Validated
  <2>1. /\ pc = "validated"
        /\ log' = Append(log, Snapshot(Advance(LatestState(log), job.action,
                                               job.obs, NoUpdate)))
    BY <1>8 DEF Validated
  <2>2. job.obs.status # "recovery_required"
    BY <1>1, <2>1 DEF ToldInv
  <2> QED BY <1>2, <2>1, <2>2 DEF ReturnsTo
<1>9. CASE Requested
  <2>1. CASE job.obs.status = "approval_required"
    <3>1. /\ pc = "requested"
          /\ log' = Append(log, Snapshot(Stop(
                      Advance(LatestState(log), job.action, job.obs,
                              NoUpdate), "approval_required")))
      BY <1>9, <2>1 DEF Requested
    <3> QED BY <1>2, <2>1, <3>1 DEF ReturnsTo
  <2>2. CASE job.obs.status # "approval_required"
    BY <1>1, <1>9, <2>2, QuietTells DEF Requested
  <2> QED BY <2>1, <2>2
<1> QED BY <1>1, <1>4, <1>5, <1>6, <1>7, <1>8, <1>9, AnsweredTells,
           WrittenTells DEF Continue

(* A call tells what it reports: a performed action has a result of a tool, *)
(* and nothing that ran before is executed for a diff or for a command.    *)
LEMMA ToldKeeps ==
  Inv /\ IdInv /\ KnowInv /\ ConsentInv /\ ToldInv /\ [Next]_vars => ToldInv'
<1> SUFFICES ASSUME Inv, IdInv, KnowInv, ConsentInv, ToldInv, [Next]_vars
             PROVE  ToldInv'
  OBVIOUS
<1>1. CASE UNCHANGED <<pc, job>>
  BY <1>1 DEF ToldInv
<1>2. CASE pc' \notin {"report", "diffed", "validated"}
  BY <1>2 DEF ToldInv
<1>3. ASSUME NEW obs, Observe(obs), pc \in Executes,
             job.then \in {"diffed", "validated"} =>
               obs.status # "recovery_required"
      PROVE  ToldInv'
  <2>1. pc' = job.then /\ job'.obs = obs /\ job.then \in ReturnsTo
    BY <1>3, LogFacts DEF Observe, IsJob, Inv, TypeInv, JobOK
  <2> QED BY <1>3, <2>1 DEF ToldInv, ReturnsTo
<1>4. /\ Plain("conflict").status # "recovery_required"
      /\ Plain("policy_denied").status # "recovery_required"
      /\ Plain("approval_required").status # "recovery_required"
      /\ Plain("input_required").status # "recovery_required"
      /\ "recovery_required" \notin ToolStatuses
  BY DEF Plain, Obs, ToolStatuses
<1>5. StoreOK
  BY DEF Inv, TypeInv
<1>6. CASE Execute
  <2>1. CASE AuthorizeRead \/ Start \/ Tool
    BY <1>2, <2>1 DEF AuthorizeRead, Start, Tool
  <2>2. CASE Ask
    <3>1. pc = "ask" /\ Observe(Plain("input_required"))
      BY <2>2 DEF Ask, Executing
    <3> QED BY <1>3, <1>4, <3>1 DEF Executes
  <2>3. CASE AuthorizeSideEffect
    <3>1. /\ pc = "execute"
          /\ \/ /\ \E r \in Reserved(job.action) : r.obs # NoObs
                /\ Observe(StoredObs(job.action))
             \/ Observe(Plain("conflict"))
             \/ Observe(Plain("policy_denied"))
             \/ Observe(Plain("approval_required"))
             \/ pc' = "reserve"
      BY <2>3 DEF AuthorizeSideEffect, Executing
    <3>2. CASE /\ \E r \in Reserved(job.action) : r.obs # NoObs
               /\ Observe(StoredObs(job.action))
      <4>1. StoredObs(job.action).status # "recovery_required"
        BY <1>4, <1>5, <3>2, StoredIsReported
      <4> QED BY <1>3, <3>1, <3>2, <4>1 DEF Executes
    <3> QED BY <1>2, <1>3, <1>4, <3>1, <3>2 DEF Executes
  <2>4. CASE Reserve
    <3>1. CASE Reserved(job.action) = {}
      BY <1>2, <2>4, <3>1 DEF Reserve
    <3>2. CASE Reserved(job.action) # {}
      <4>1. pc = "reserve" /\ \E obs : Observe(obs)
        BY <2>4, <3>2 DEF Reserve, Executing
      <4>2. job.then \notin {"diffed", "validated"}
        BY <3>2, <4>1 DEF ConsentInv, Consents
      <4> QED BY <1>3, <4>1, <4>2 DEF Executes
    <3> QED BY <3>1, <3>2
  <2>5. CASE Complete
    <3>1. pc = "complete" /\ pc' = "report" /\ job' = job
      BY <2>5 DEF Complete, Executing
    <3> QED BY <3>1 DEF ToldInv, Inv, GateInv
  <2>6. CASE Report
    <3>1. pc = "report" /\ Observe(job.obs)
      BY <2>6 DEF Report, Executing
    <3>2. job.obs.status \in ToolStatuses
      BY <3>1 DEF ToldInv
    <3> QED BY <1>3, <1>4, <3>1, <3>2 DEF Executes
  <2> QED BY <1>6, <2>1, <2>2, <2>3, <2>4, <2>5, <2>6 DEF Execute
<1>7. CASE Loop
  <2>1. \/ UNCHANGED <<pc, job>>
        \/ pc' \in {"resume", "execute", "start", "wait", "idle", "step",
                    "gate", "end", "advance"}
    BY <1>7 DEF Loop, Reconcile, Recover, ResumePending, Resumed, EnterLoop,
                Decide, DecisionFails, LimitReached, Gate, AdvanceState,
                EndLoop, Return, Fail, Reset
  <2> QED BY <1>1, <1>2, <2>1
<1>8. CASE Continue
  <2>1. pc' \in {"recover", "idle", "execute", "close", "observed"}
    BY <1>8 DEF Continue, Answered, RejectedState, Written, Diffed,
                CloseWrite, Requested, Validated, Observed, RequestNext,
                Resume, Return, Fail, Reset
  <2> QED BY <1>2, <2>1
<1>9. CASE StartLoop \/ ResumeLoop \/ UserCall \/ Crash
  <2>1. \/ UNCHANGED <<pc, job>>
        \/ pc' \in {"step", "recover", "answered", "execute", "rejected",
                    "idle"}
    BY <1>9 DEF StartLoop, ResumeLoop, UserCall, Answer, Approve, Reject,
                RestoreQuestion, Cancel, Crash, Call, Resume, Reset
  <2> QED BY <1>1, <1>2, <2>1
<1>10. CASE OutsideEdit \/ UNCHANGED vars
  BY <1>1, <1>10 DEF OutsideEdit, vars
<1> QED BY <1>6, <1>7, <1>8, <1>9, <1>10 DEF Next, Progress

LEMMA NextTells ==
  Inv /\ IdInv /\ KnowInv /\ ConsentInv /\ OutcomeInv /\ [Next]_vars =>
    OutcomeInv'
<1> SUFFICES ASSUME Inv, IdInv, KnowInv, ConsentInv, OutcomeInv, [Next]_vars
             PROVE  OutcomeInv'
  OBVIOUS
<1>1. ToldInv /\ TellsOutcome
  BY DEF OutcomeInv
<1>2. ToldInv'
  BY <1>1, ToldKeeps
<1> SUFFICES TellsOutcome'
  BY <1>2 DEF OutcomeInv
<1>3. CASE Progress
  BY <1>1, <1>3, ExecuteTells, LoopTells, ContinueTells DEF Progress
<1>4. CASE UserCall
  BY <1>1, <1>4, UserCallTells
<1>5. CASE StartLoop
  <2> DEFINE s == CreateState
  <2>1. log = <<>> /\ log' = <<Snapshot(s)>>
    BY <1>5 DEF StartLoop
  <2>2. IsTrue(log, s) /\ HasOutcome(log, Len(log), s)
    BY <2>1, CreatedIsTrue DEF HasOutcome
  <2> HIDE DEF s
  <2>3. log' = Append(log, Snapshot(s))
    BY <2>1
  <2> QED BY <2>2, <2>3, SnapshotTells
<1>6. CASE ResumeLoop \/ Crash \/ OutsideEdit \/ UNCHANGED vars
  <2>1. log' = log
    BY <1>6 DEF ResumeLoop, Crash, OutsideEdit, vars
  <2> QED BY <1>1, <2>1, QuietTells
<1> QED BY <1>3, <1>4, <1>5, <1>6 DEF Next

LEMMA InitTells == Init => OutcomeInv
<1> SUFFICES ASSUME Init PROVE OutcomeInv
  OBVIOUS
<1>1. pc = "idle" /\ log = <<>>
  BY DEF Init
<1>2. TellsOutcome
  BY <1>1 DEF TellsOutcome, HasOutcome
<1> QED BY <1>1, <1>2 DEF OutcomeInv, ToldInv

LEMMA OutcomeInvHolds ==
  Spec => [](Inv /\ IdInv /\ KnowInv /\ ConsentInv /\ OutcomeInv)
<1>1. Init => Inv /\ IdInv /\ KnowInv /\ ConsentInv /\ OutcomeInv
  BY InitHolds, InitIds, InitKnows, InitConsents, InitTells
<1>2. Inv /\ IdInv /\ KnowInv /\ ConsentInv /\ OutcomeInv /\ [Next]_vars =>
        (Inv /\ IdInv /\ KnowInv /\ ConsentInv /\ OutcomeInv)'
  BY NextKeeps, NextIds, NextKnows, NextConsents, NextTells
<1> QED BY <1>1, <1>2, PTL DEF Spec

-----------------------------------------------------------------------------
(* Theorems.                                                               *)

(* A crash loses nothing of a step: between the observation of a loop's    *)
(* action and the record of the new state, recovery from the log computes  *)
(* exactly that state (analyze_runtime_recovery against                    *)
(* advance_agent_working_state).                                           *)
THEOREM RecoveryIsExact == Spec => []RecoveryRebuildsState
<1>1. Inv /\ IdInv /\ KnowInv => RecoveryRebuildsState
  <2> SUFFICES ASSUME Inv, IdInv, KnowInv, pc = "advance"
               PROVE  Rebuilt(log) =
                        Advance(job.state, job.action, job.obs, job.update)
    BY DEF RecoveryRebuildsState
  <2> DEFINE n == Len(log)
             s == LatestState(log)
             id == job.action.id
  <2>1. /\ LogsEvents(log) /\ SnapshotsOK(log) /\ LearntOK(log)
        /\ n \in Nat /\ DOMAIN log = 1..n
    BY LogFacts DEF KnowInv, TrueLog
  <2>2. Reports(log) /\ Late(log) \subseteq {n}
    BY DEF KnowInv, KnowsOutcome, ReturnsTo
  <2>3. job.state = s /\ Decided(log)
    BY DEF KnowInv, Holds, InLoop
  <2>4. /\ n \in DOMAIN log /\ log[n].type \in Observations
        /\ log[n].action = job.action /\ log[n].obs = job.obs
    BY <2>1, <2>2 DEF Reports
  <2>5. Rebuilt(log) = Advance(s, job.action, job.obs,
                               FoldedUpdate(log, s, n))
    <3> HIDE DEF n
    <3>1. n = Len(log)
      BY DEF n
    <3>2. Rebuilt(log) = Advance(s, log[n].action, log[n].obs,
                                 FoldedUpdate(log, s, n))
      BY <2>1, <2>2, <2>4, <3>1, RebuiltOfOne
    <3> QED BY <2>4, <3>2
  <2>6. FoldedUpdate(log, s, n) = job.update
    <3>1. \A j \in ObservedAt(log, id) : j > SnapshotAt(log) => n <= j
      <4>1. SUFFICES ASSUME NEW j \in ObservedAt(log, id),
                            j > SnapshotAt(log)
                     PROVE  n <= j
        OBVIOUS
      <4>2. j \in DOMAIN log /\ log[j].type \in Learnt
        BY DEF ObservedAt, Of, Learnt, Observations
      <4>3. SnapshotAt(log) \in 0..n
        BY <2>1, SnapshotIsLast
      <4>4. j \in Late(log)
        BY <2>1, <4>1, <4>2, <4>3 DEF Late
      <4> QED BY <2>1, <2>2, <4>4
    <3>2. /\ Has(log, id, {"decision_recorded"})
          /\ At(log, id, {"decision_recorded"}) > SnapshotAt(log)
          /\ log[At(log, id, {"decision_recorded"})].update = job.update
          /\ UpdateFits(s, job.update)
      BY <2>3 DEF Decided
    <3>3. log[n].action.id = id
      BY <2>4
    <3> HIDE DEF id, n, s
    <3> QED BY <3>1, <3>2, <3>3 DEF FoldedUpdate
  <2> QED BY <2>3, <2>5, <2>6
<1> QED BY <1>1, KnowInvHolds, PTL

(* The plan and the criteria, in the last snapshot and in the running      *)
(* call, claim only what the log shows to have succeeded: a completed item *)
(* and a passed criterion cite evidence, and a validation criterion only   *)
(* its own command (runtime/state.py).                                     *)
THEOREM EvidenceIsObserved == Spec => []EvidenceWasObserved
<1>1. Inv /\ IdInv /\ KnowInv => EvidenceWasObserved
  BY LatestKnown, TrueIsBacked DEF KnowInv, EvidenceWasObserved
<1> QED BY <1>1, KnowInvHolds, PTL

(* The model decides with the latest answer of the user, whichever process *)
(* took the answer and wherever it died (submit_input and                  *)
(* _persist_input_state).                                                  *)
THEOREM AnswersAreKnown == Spec => []AnswersReachTheModel
<1>1. Inv /\ IdInv /\ KnowInv => AnswersReachTheModel
  <2> DEFINE answered == Requests({"input_received"})
             n == Newest(answered)
  <2> SUFFICES ASSUME Inv, IdInv, KnowInv, pc = "step", answered # {}
               PROVE  \E r \in Range(job.state.inputs) :
                        r.id = log[n].action.id /\ r.answer = log[n].answer
    BY DEF AnswersReachTheModel
  <2>1. Len(log) \in Nat /\ DOMAIN log = 1..Len(log)
    BY LogFacts
  <2>2. job.state = LatestState(log) /\ Late(log) = {}
    BY DEF KnowInv, Holds, Learned
  <2>3. HasAnswer(log, Len(log), job.state)
    BY <2>2, LatestKnown
  <2>4. answered \subseteq 1..Len(log)
    BY <2>1 DEF Requests, Events
  <2>5. n \in answered /\ \A j \in answered : j <= n
    <3> HIDE DEF answered
    <3> QED BY <2>1, <2>4, NewestIsLast
  <2>6. /\ n \in DOMAIN log /\ log[n].type = "input_received"
        /\ n <= Len(log)
        /\ \A j \in DOMAIN log : log[j].type = "input_received" => j <= n
    <3> HIDE DEF n
    <3> QED BY <2>1, <2>4, <2>5 DEF Requests, Events
  <2> HIDE DEF n, answered
  <2> QED BY <2>3, <2>6 DEF HasAnswer
<1> QED BY <1>1, KnowInvHolds, PTL

(* The model decides with the outcome of the last action that ended or had *)
(* to wait, whichever process executed it and wherever that process died   *)
(* (advance_agent_working_state and analyze_runtime_recovery).             *)
THEOREM LastOutcomeStaysKnown == Spec => []LastOutcomeIsKnown
<1>1. Inv /\ IdInv /\ KnowInv /\ OutcomeInv => LastOutcomeIsKnown
  <2> DEFINE observed == Requests(TerminalTypes \union WaitingTypes)
             n == Newest(observed)
  <2> SUFFICES ASSUME Inv, IdInv, KnowInv, OutcomeInv, pc = "step",
                      observed # {}
               PROVE  \E o \in Range(job.state.recent) :
                        /\ o.id = log[n].action.id
                        /\ o.status = log[n].obs.status
    BY DEF LastOutcomeIsKnown
  <2>1. /\ Len(log) \in Nat /\ DOMAIN log = 1..Len(log)
        /\ LogsEvents(log) /\ SnapshotsOK(log)
    BY LogFacts
  <2>2. job.state = LatestState(log) /\ Late(log) = {}
    BY DEF KnowInv, Holds, Learned
  <2>3. HasOutcome(log, Len(log), job.state)
    BY <2>1, <2>2, OutcomeKept DEF OutcomeInv, TellsOutcome
  <2>4. observed \subseteq 1..Len(log)
    BY <2>1 DEF Requests, Events
  <2>5. n \in observed /\ \A j \in observed : j <= n
    <3> HIDE DEF observed
    <3> QED BY <2>1, <2>4, NewestIsLast
  <2>6. /\ n \in DOMAIN log /\ log[n].type \in Observations
        /\ n <= Len(log)
        /\ \A j \in DOMAIN log : log[j].type \in Observations => j <= n
    <3> HIDE DEF n
    <3> QED BY <2>1, <2>4, <2>5 DEF Requests, Events, Observations
  <2> HIDE DEF n, observed
  <2> QED BY <2>3, <2>6 DEF HasOutcome, Tells
<1> QED BY <1>1, OutcomeInvHolds, PTL

(* A side effect has a result, and a command has begun, only with the      *)
(* consent of the user: its latest request was granted under the same      *)
(* checkpoint and that checkpoint was not rejected (_valid_approval_grant  *)
(* with the executions, replays and recoveries of all the calls).          *)
THEOREM PerformedWithConsent ==
  Spec => [](\A r \in reservations :
               MustConsent(r) => Consented(log, r.action))
<1>1. ConsentInv => \A r \in reservations :
                      MustConsent(r) => Consented(log, r.action)
  BY DEF ConsentInv, ConsentLog
<1> QED BY <1>1, OutcomeInvHolds, PTL
=============================================================================
