-------------------------- MODULE AgentLoopOverlay --------------------------
(***************************************************************************)
(* Theorems of AgentLoop for every value of its constants: the overlay of  *)
(* a call, the edits that the working state lists and the files agree.     *)
(*                                                                         *)
(* All three are compared with what the log proposed: Standing is the      *)
(* content that the last completed proposal for a file leads to.  BegunInv *)
(* says what has begun (an action that touches the edits starts once, and  *)
(* what it reports is stored before the log tells); OverlayInv, which      *)
(* holds while nothing disturbs (AgentLoop.Undisturbed), that the files,   *)
(* the listed edits, the overlay and every report on its way to the log    *)
(* agree with Standing.  A write that changed its file and is not in the   *)
(* log yet is the one exception (Changing).                                *)
(***************************************************************************)
EXTENDS AgentLoopOpen

-----------------------------------------------------------------------------
(* The edits that the rebuilt state lists, and how they follow the log.    *)

Listed(l) == Rebuilt(l).edits

(* An action that waits says nothing of the edits.                         *)
WaitsPlain(l) ==
  \A i \in DOMAIN l : l[i].type \in WaitingTypes => l[i].obs.report = "none"

LEMMA EditsOfStates ==
  ASSUME NEW s, IsState(s)
  PROVE  /\ \A a, obs, u : Advance(s, a, obs, u).edits =
                             AdvanceEdits(s.edits, a, obs)
         /\ \A u : ApplyUpdate(s, u).edits = s.edits
         /\ \A reason : Stop(s, reason).edits = s.edits
         /\ \A id, answer : RecordAnswer(s, id, answer).edits = s.edits
         /\ \A id, changed, commands :
              PostWrite(s, id, changed, commands).edits = s.edits
         /\ FromRecord(s).edits = s.edits
<1>1. ASSUME NEW u PROVE ApplyUpdate(s, u).edits = s.edits
  BY DEF ApplyUpdate, IsState, StateFields
<1>2. ASSUME NEW a, NEW obs, NEW u
      PROVE  Advance(s, a, obs, u).edits = AdvanceEdits(s.edits, a, obs)
  <2> DEFINE t == ApplyUpdate(s, u)
  <2>1. IsState(t) /\ t.edits = s.edits
    BY <1>1, StatesKeepFields
  <2> HIDE DEF t
  <2> QED BY <2>1 DEF Advance, t, IsState, StateFields
<1>3. ASSUME NEW reason PROVE Stop(s, reason).edits = s.edits
  BY DEF Stop, IsState, StateFields
<1>4. ASSUME NEW id, NEW answer
      PROVE  RecordAnswer(s, id, answer).edits = s.edits
  BY DEF RecordAnswer, IsState, StateFields
<1>5. ASSUME NEW id, NEW changed, NEW commands
      PROVE  PostWrite(s, id, changed, commands).edits = s.edits
  BY DEF PostWrite, IsState, StateFields
<1>6. FromRecord(s).edits = s.edits
  BY DEF FromRecord
<1> QED BY <1>1, <1>2, <1>3, <1>4, <1>5, <1>6

LEMMA PlainAdvance ==
  ASSUME NEW edits, NEW a, NEW obs,
         obs.report = "none" \/ a.kind \notin WriteKinds \union
                                  {"propose_patch", "inspect_proposed_diff"}
  PROVE  AdvanceEdits(edits, a, obs) = edits
BY DEF AdvanceEdits

LEMMA EditsOfFold ==
  ASSUME NEW l, WaitsPlain(l), NEW s, IsState(s), NEW i \in Unseen(l),
         i \in DOMAIN l
  PROVE  Fold(l, s, i).edits =
           IF l[i].type \in TerminalTypes
           THEN AdvanceEdits(s.edits, l[i].action, l[i].obs) ELSE s.edits
<1>1. CASE l[i].type = "input_received"
  <2>1. l[i].type \notin TerminalTypes
    BY <1>1 DEF TerminalTypes
  <2> QED BY <1>1, <2>1, EditsOfStates DEF Fold
<1>2. CASE l[i].type # "input_received"
  <2>1. Fold(l, s, i).edits = AdvanceEdits(s.edits, l[i].action, l[i].obs)
    BY <1>2, EditsOfStates DEF Fold
  <2>2. l[i].type \in TerminalTypes \/ l[i].type \in WaitingTypes
    BY <1>2 DEF Unseen, ObservedAt, Of
  <2>3. l[i].type \in WaitingTypes => l[i].obs.report = "none"
    BY DEF WaitsPlain
  <2> QED BY <2>1, <2>2, <2>3, PlainAdvance
<1> QED BY <1>1, <1>2

(* The events behind the last snapshot whose result counts for the edits.  *)
Effective(l) == {i \in Unseen(l) : l[i].type \in TerminalTypes}
ListsEdits(g, l) ==
  /\ g[SnapshotAt(l)] = LatestState(l).edits
  /\ \A n \in SnapshotAt(l) + 1 .. Len(l) :
       g[n] = IF n \in Effective(l)
              THEN AdvanceEdits(g[n - 1], l[n].action, l[n].obs)
              ELSE g[n - 1]

LEMMA ListedBySteps ==
  ASSUME NEW l, LogsEvents(l), SnapshotsOK(l), WaitsPlain(l)
  PROVE  \E g : ListsEdits(g, l) /\ Listed(l) = g[Len(l)]
<1> DEFINE from == SnapshotAt(l)
<1>1. /\ Len(l) \in Nat /\ DOMAIN l = 1..Len(l) /\ from \in 0..Len(l)
      /\ IsState(LatestState(l))
  BY LogIsCharged, LatestIsState
<1>2. PICK f : Rebuilds(f, l) /\ Rebuilt(l) = f[Len(l)]
  BY RebuiltBySteps
<1>3. /\ f[from] = LatestState(l)
      /\ \A n \in from + 1 .. Len(l) :
           f[n] = IF n \in Unseen(l) THEN Fold(l, f[n - 1], n) ELSE f[n - 1]
  BY <1>2 DEF Rebuilds
<1> HIDE DEF from
<1> DEFINE S == {k \in Nat : from + k <= Len(l) => IsState(f[from + k])}
<1>4. 0 \in S
  <2>1. from + 0 = from
    BY <1>1
  <2> QED BY <1>1, <1>3, <2>1
<1>5. ASSUME NEW k \in Nat, k \in S PROVE k + 1 \in S
  <2>1. SUFFICES ASSUME from + (k + 1) <= Len(l)
                 PROVE  IsState(f[from + (k + 1)])
    OBVIOUS
  <2>2. /\ from + (k + 1) \in from + 1 .. Len(l)
        /\ (from + (k + 1)) - 1 = from + k /\ from + k <= Len(l)
    BY <1>1, <2>1
  <2>3. IsState(f[from + k])
    BY <1>5, <2>2
  <2>4. IsState(Fold(l, f[from + k], from + (k + 1)))
    BY <2>3, FoldCounts
  <2> QED BY <1>3, <2>2, <2>3, <2>4
<1>6. ASSUME NEW n \in from .. Len(l) PROVE IsState(f[n])
  <2> HIDE DEF S
  <2>1. n - from \in Nat /\ from + (n - from) = n /\ n <= Len(l)
    BY <1>1
  <2>2. n - from \in S
    BY <1>4, <1>5, <2>1, SetInduction
  <2> QED BY <2>1, <2>2 DEF S
<1> HIDE DEF S
<1> DEFINE g == [n \in from .. Len(l) |-> f[n].edits]
<1>7. g[from] = LatestState(l).edits
  <2>1. from \in from .. Len(l)
    BY <1>1
  <2>2. g[from] = f[from].edits
    BY <2>1
  <2> QED BY <1>3, <2>2
<1>8. ASSUME NEW n \in from + 1 .. Len(l)
      PROVE  g[n] = IF n \in Effective(l)
                    THEN AdvanceEdits(g[n - 1], l[n].action, l[n].obs)
                    ELSE g[n - 1]
  <2>1. /\ n \in from .. Len(l) /\ n - 1 \in from .. Len(l)
        /\ n \in DOMAIN l
    BY <1>1
  <2>2. IsState(f[n - 1]) /\ g[n] = f[n].edits /\ g[n - 1] = f[n - 1].edits
    BY <1>6, <2>1
  <2> HIDE DEF g
  <2>3. CASE n \in Unseen(l)
    <3>1. f[n] = Fold(l, f[n - 1], n)
      BY <1>3, <2>3
    <3> QED BY <2>1, <2>2, <2>3, <3>1, EditsOfFold DEF Effective
  <2>4. CASE n \notin Unseen(l)
    BY <1>3, <2>2, <2>4 DEF Effective
  <2> QED BY <2>3, <2>4
<1>9. Listed(l) = g[Len(l)]
  <2>1. Len(l) \in from .. Len(l)
    BY <1>1
  <2> QED BY <1>2, <2>1 DEF Listed
<1> QED BY <1>7, <1>8, <1>9 DEF ListsEdits, from

(* An event that is no snapshot changes what is listed by its own result,  *)
(* if it has one and takes the place of none that still counts.            *)
LEMMA ListedGrows ==
  ASSUME NEW l, LogsEvents(l), SnapshotsOK(l), WaitsPlain(l), NEW e,
         e.type # "working_state_updated",
         e.type \in WaitingTypes => e.obs.report = "none",
         e.type \in TerminalTypes =>
           /\ e.action # NoAction
           /\ \A i \in Of(l, e.action.id, TerminalTypes) : i <= SnapshotAt(l),
         LogsEvents(Append(l, e))
  PROVE  /\ WaitsPlain(Append(l, e))
         /\ Listed(Append(l, e)) =
              IF e.type \in TerminalTypes
              THEN AdvanceEdits(Listed(l), e.action, e.obs) ELSE Listed(l)
<1> DEFINE m == Append(l, e)
           n == Len(l)
           from == SnapshotAt(l)
<1>1. /\ n \in Nat /\ DOMAIN l = 1..n /\ DOMAIN m = 1..(n + 1)
      /\ Len(m) = n + 1
      /\ \A i \in 1..n : m[i] = l[i]
      /\ m[n + 1] = e
  BY AppendGrows DEF LogsEvents
<1>2. /\ SnapshotAt(m) = from /\ LatestState(m) = LatestState(l)
      /\ SnapshotsOK(m) /\ from \in 0..n /\ LogsEvents(m)
  BY SnapshotKept, LatestIsState
<1>3. WaitsPlain(m)
  <2>1. \A i \in 1..(n + 1) : i \in 1..n \/ i = n + 1
    BY <1>1
  <2> HIDE DEF m
  <2> QED BY <1>1, <2>1 DEF WaitsPlain
<1>4. /\ \A x : Of(m, x, TerminalTypes) =
             Of(l, x, TerminalTypes) \union
               (IF e.action # NoAction /\ e.action.id = x
                   /\ e.type \in TerminalTypes THEN {n + 1} ELSE {})
      /\ \A x : Of(l, x, TerminalTypes) \subseteq 1..n
  BY OfGrows
<1> HIDE DEF m
<1>5. ASSUME NEW i \in from + 1 .. n
      PROVE  i \in Effective(m) <=> i \in Effective(l)
  <2> DEFINE id == l[i].action.id
  <2>1. m[i] = l[i] /\ i \in 1..n /\ i > from /\ i \in from + 1 .. n + 1
    BY <1>1, <1>2
  <2>2. ASSUME l[i].type \in TerminalTypes, l[i].action # NoAction
        PROVE  Of(m, id, TerminalTypes) = Of(l, id, TerminalTypes)
    <3>1. i \in Of(l, id, TerminalTypes)
      BY <1>1, <2>1, <2>2 DEF Of
    <3>2. ~(e.type \in TerminalTypes /\ e.action.id = id)
      <4>1. SUFFICES ASSUME e.type \in TerminalTypes, e.action.id = id
                     PROVE  FALSE
        OBVIOUS
      <4>2. i <= from
        BY <3>1, <4>1
      <4> QED BY <1>2, <2>1, <4>2
    <3> QED BY <1>4, <3>2
  <2>3. /\ \A k \in TerminalTypes : k \notin WaitingTypes /\ k # "input_received"
    BY DEF TerminalTypes, WaitingTypes
  <2>4. i \in Effective(l) <=>
          /\ l[i].type \in TerminalTypes /\ l[i].action # NoAction
          /\ i \in Of(l, id, TerminalTypes)
          /\ i = At(l, id, TerminalTypes)
    BY <2>1, <2>3 DEF Effective, Unseen, ObservedAt, Of
  <2>5. i \in Effective(m) <=>
          /\ m[i].type \in TerminalTypes /\ m[i].action # NoAction
          /\ i \in Of(m, id, TerminalTypes)
          /\ i = At(m, id, TerminalTypes)
    BY <1>1, <1>2, <2>1, <2>3 DEF Effective, Unseen, ObservedAt, Of
  <2> HIDE DEF id
  <2> QED BY <2>1, <2>2, <2>4, <2>5 DEF At
<1>6. n + 1 \in Effective(m) <=> e.type \in TerminalTypes
  <2>1. e.type \notin TerminalTypes => n + 1 \notin Effective(m)
    BY <1>1 DEF Effective
  <2>2. ASSUME e.type \in TerminalTypes PROVE n + 1 \in Effective(m)
    <3> DEFINE P == Of(m, e.action.id, TerminalTypes)
    <3>1. n + 1 \in P /\ P \subseteq 1..(n + 1) /\ n + 1 \in Nat
      BY <1>1, <1>4, <2>2
    <3>2. Newest(P) = n + 1
      <4> DEFINE p == n + 1
                 q == Newest(P)
      <4>1. p \in P /\ P \subseteq 1..p /\ p \in Nat
        BY <3>1
      <4> HIDE DEF p, P
      <4>2. q \in P /\ p <= q
        BY <4>1, NewestIsLast
      <4>3. q \in 1..p
        BY <4>1, <4>2
      <4> HIDE DEF q
      <4>4. q = p
        BY <4>1, <4>2, <4>3
      <4> QED BY <4>4 DEF p, q
    <3>3. n + 1 = At(m, e.action.id, TerminalTypes)
      BY <3>2 DEF At
    <3>4. n + 1 \in from + 1 .. Len(m)
      BY <1>1, <1>2
    <3> HIDE DEF P
    <3> QED BY <1>1, <1>2, <2>2, <3>1, <3>3, <3>4
            DEF Effective, Unseen, ObservedAt, P
  <2> QED BY <2>1, <2>2
<1>7. PICK g : ListsEdits(g, l) /\ Listed(l) = g[n]
  BY ListedBySteps
<1>8. PICK h : ListsEdits(h, m) /\ Listed(m) = h[Len(m)]
  BY <1>2, <1>3, ListedBySteps
<1> HIDE DEF n, from
<1>9. /\ h[from] = g[from]
      /\ \A i \in from + 1 .. n :
           h[i] = IF i \in Effective(l)
                  THEN AdvanceEdits(h[i - 1], l[i].action, l[i].obs)
                  ELSE h[i - 1]
      /\ \A i \in from + 1 .. n :
           g[i] = IF i \in Effective(l)
                  THEN AdvanceEdits(g[i - 1], l[i].action, l[i].obs)
                  ELSE g[i - 1]
  <2>1. \A i \in from + 1 .. n : m[i] = l[i] /\ i \in from + 1 .. n + 1
    BY <1>1, <1>2
  <2> QED BY <1>1, <1>2, <1>5, <1>7, <1>8, <2>1 DEF ListsEdits, n, from
<1> DEFINE S == {k \in Nat : from + k <= n => h[from + k] = g[from + k]}
<1>10. 0 \in S
  <2>1. from + 0 = from
    BY <1>2
  <2> QED BY <1>9, <2>1
<1>11. ASSUME NEW k \in Nat, k \in S PROVE k + 1 \in S
  <2>1. SUFFICES ASSUME from + (k + 1) <= n
                 PROVE  h[from + (k + 1)] = g[from + (k + 1)]
    OBVIOUS
  <2>2. /\ from + (k + 1) \in from + 1 .. n
        /\ (from + (k + 1)) - 1 = from + k /\ from + k <= n
    BY <1>1, <1>2, <2>1
  <2>3. h[from + k] = g[from + k]
    BY <1>11, <2>2
  <2> QED BY <1>9, <2>2, <2>3
<1> HIDE DEF S
<1>12. h[n] = g[n]
  <2>1. n - from \in Nat /\ from + (n - from) = n /\ n <= n
    BY <1>1, <1>2
  <2>2. n - from \in S
    BY <1>10, <1>11, <2>1, SetInduction
  <2> QED BY <2>1, <2>2 DEF S
<1>13. h[n + 1] = IF n + 1 \in Effective(m)
                  THEN AdvanceEdits(h[n], e.action, e.obs) ELSE h[n]
  <2>1. n + 1 \in from + 1 .. n + 1 /\ (n + 1) - 1 = n
    BY <1>1, <1>2
  <2> QED BY <1>1, <1>2, <1>8, <2>1 DEF ListsEdits
<1>14. Listed(m) = IF e.type \in TerminalTypes
                   THEN AdvanceEdits(Listed(l), e.action, e.obs)
                   ELSE Listed(l)
  BY <1>1, <1>6, <1>7, <1>8, <1>12, <1>13
<1> QED BY <1>3, <1>14 DEF m

LEMMA ListedRecords ==
  ASSUME NEW l, LogsEvents(l), SnapshotsOK(l), WaitsPlain(l),
         NEW s, IsState(s), LogsEvents(Append(l, Snapshot(s)))
  PROVE  LET m == Append(l, Snapshot(s))
         IN  WaitsPlain(m) /\ Listed(m) = s.edits
<1> DEFINE m == Append(l, Snapshot(s))
           n == Len(l)
<1>1. /\ n \in Nat /\ DOMAIN l = 1..n /\ DOMAIN m = 1..(n + 1)
      /\ Len(m) = n + 1
      /\ \A i \in 1..n : m[i] = l[i]
      /\ m[n + 1] = Snapshot(s)
  BY AppendGrows DEF LogsEvents
<1>2. SnapshotAt(m) = n + 1 /\ SnapshotsOK(m) /\ LogsEvents(m)
  BY SnapshotTaken
<1>3. /\ Snapshot(s).type = "working_state_updated"
      /\ Snapshot(s).state = s
  BY EventFields
<1> HIDE DEF m, n
<1>4. WaitsPlain(m)
  <2>1. \A i \in 1..(n + 1) : i \in 1..n \/ i = n + 1
    BY <1>1
  <2> QED BY <1>1, <1>3, <2>1 DEF WaitsPlain, WaitingTypes
<1>5. Unseen(m) = {}
  <2>1. (n + 1) + 1 .. n + 1 = {}
    BY <1>1
  <2> QED BY <1>1, <1>2, <2>1 DEF Unseen
<1>6. Rebuilt(m) = LatestState(m)
  BY <1>2, <1>5, RebuiltCounts
<1>7. LatestState(m) = FromRecord(s)
  BY <1>1, <1>2, <1>3 DEF LatestState
<1> QED BY <1>4, <1>6, <1>7, EditsOfStates DEF Listed, m

-----------------------------------------------------------------------------
(* Steps that record at most a state, with the edits that are listed.      *)

Base == Inv /\ IdInv /\ KnowInv /\ ConsentInv /\ OutcomeInv /\ OpenInv

Recording ==
  \/ StartLoop \/ ResumeLoop \/ RestoreQuestion \/ Cancel \/ Recover
  \/ ResumePending \/ Resumed \/ EnterLoop \/ DecisionFails \/ LimitReached
  \/ AdvanceState \/ EndLoop \/ Answered \/ RejectedState \/ Written
  \/ Diffed \/ CloseWrite \/ Requested \/ Validated \/ Observed \/ Crash

Records ==
  /\ \E s : /\ IsState(s) /\ s.edits = Listed(log)
            /\ log' \in {log, Append(log, Snapshot(s))}
  /\ UNCHANGED <<reservations, disk, outsideEdits>>

LEMMA LearnedIsListed ==
  ASSUME Inv, IdInv, KnowInv
  PROVE  /\ IsState(LatestState(log)) /\ IsState(Rebuilt(log))
         /\ Late(log) = {} => Listed(log) = LatestState(log).edits
<1>1. LogsEvents(log) /\ SnapshotsOK(log) /\ LearntOK(log)
  BY LogFacts DEF KnowInv, TrueLog
<1>2. Late(log) = {} => Unseen(log) = {}
  BY <1>1, LateIsUnseen
<1> QED BY <1>1, <1>2, LatestIsState, RebuiltCounts DEF Listed

LEMMA OutcomeIsListed ==
  ASSUME Inv, IdInv, KnowInv, pc \in ReturnsTo \ {"resumed"},
         pc = "advance" \/ job.obs.status # "recovery_required"
  PROVE  \A u : LET s == Advance(LatestState(log), job.action, job.obs, u)
               IN  IsState(s) /\ s.edits = Listed(log)
<1> DEFINE n == Len(log)
           t == LatestState(log)
<1>1. /\ LogsEvents(log) /\ SnapshotsOK(log) /\ LearntOK(log)
      /\ n \in Nat /\ DOMAIN log = 1..n
  BY LogFacts DEF KnowInv, TrueLog
<1>2. Reports(log) /\ Late(log) \subseteq {n}
  BY DEF KnowInv, KnowsOutcome
<1>3. /\ n \in DOMAIN log /\ log[n].type \in Observations
      /\ log[n].action = job.action /\ log[n].obs = job.obs
  BY <1>1, <1>2 DEF Reports
<1>4. Rebuilt(log) = Advance(t, job.action, job.obs, FoldedUpdate(log, t, n))
  <2> HIDE DEF n
  <2>1. n = Len(log)
    BY DEF n
  <2>2. Rebuilt(log) = Advance(t, log[n].action, log[n].obs,
                               FoldedUpdate(log, t, n))
    BY <1>1, <1>2, <1>3, <2>1, RebuiltOfOne
  <2> QED BY <1>3, <2>2
<1>5. IsState(t)
  BY LearnedIsListed
<1> HIDE DEF t, n
<1>6. Listed(log) = AdvanceEdits(t.edits, job.action, job.obs)
  <2>1. Advance(t, job.action, job.obs, FoldedUpdate(log, t, n)).edits =
          AdvanceEdits(t.edits, job.action, job.obs)
    BY <1>5, EditsOfStates
  <2> QED BY <1>4, <2>1 DEF Listed
<1>7. ASSUME NEW u
      PROVE  /\ IsState(Advance(t, job.action, job.obs, u))
             /\ Advance(t, job.action, job.obs, u).edits = Listed(log)
  BY <1>5, <1>6, EditsOfStates, AdvanceCounts
<1> QED BY <1>7 DEF t

LEMMA RecordingRecords == ASSUME Base, Recording PROVE Records
<1> DEFINE Writes(s) == /\ IsState(s) /\ s.edits = Listed(log)
                        /\ log' \in {log, Append(log, Snapshot(s))}
           Rests == UNCHANGED <<reservations, disk, outsideEdits>>
<1>1. SUFFICES (\E s : Writes(s)) /\ Rests
  BY DEF Records
<1>2. Inv /\ IdInv /\ KnowInv /\ OutcomeInv /\ IsJob(job)
  BY LogFacts DEF Base
<1> DEFINE t == LatestState(log)
<1>3. /\ IsState(t) /\ IsState(Rebuilt(log))
      /\ Rebuilt(log).edits = Listed(log)
      /\ Late(log) = {} => t.edits = Listed(log)
  BY <1>2, LearnedIsListed DEF Listed
<1>4. \A s : IsState(s) =>
        \A reason : IsState(Stop(s, reason))
                   /\ Stop(s, reason).edits = s.edits
  BY StatesKeepFields, EditsOfStates
<1>5. Learned => Late(log) = {}
  BY <1>2 DEF KnowInv
<1>6. Holds => job.state = t
  BY <1>2 DEF KnowInv
<1>7. Writes(Rebuilt(log)) \/ log' # log
  BY <1>3
<1> HIDE DEF t
<1>8. CASE \/ ResumeLoop \/ RestoreQuestion \/ Cancel \/ ResumePending
           \/ EnterLoop \/ LimitReached \/ Crash
  <2>1. log' = log /\ Rests
    BY <1>8 DEF ResumeLoop, RestoreQuestion, Cancel, ResumePending,
                EnterLoop, LimitReached, Crash, stored, bounds
  <2> QED BY <1>7, <2>1
<1>9. CASE StartLoop
  <2>1. log = <<>> /\ log' = <<Snapshot(CreateState)>> /\ Rests
    BY <1>9 DEF StartLoop
  <2>2. log' = Append(log, Snapshot(CreateState))
    BY <2>1
  <2>3. IsState(CreateState)
    BY CreatedIsState
  <2>4. Listed(log) = CreateState.edits
    <3>1. Late(log) = {} /\ SnapshotAt(log) = 0
      BY <2>1 DEF Late, SnapshotAt
    <3>2. t = CreateState
      BY <3>1 DEF LatestState, t
    <3> QED BY <1>3, <3>1, <3>2
  <2> QED BY <2>1, <2>2, <2>3, <2>4
<1>10. CASE Recover \/ Resumed
  <2>1. log' \in {log, Append(log, Snapshot(Rebuilt(log)))} /\ Rests
    BY <1>10 DEF Recover, Resumed, PersistRebuilt, bounds
  <2> QED BY <1>3, <2>1
<1>11. CASE DecisionFails \/ EndLoop \/ CloseWrite
  <2>1. /\ pc \in {"step", "end", "close"} /\ Rests
        /\ \E reason :
             log' \in {log, Append(log, Snapshot(Stop(job.state, reason)))}
    BY <1>11 DEF DecisionFails, EndLoop, CloseWrite, bounds
  <2>2. job.state = t /\ Late(log) = {}
    BY <1>5, <1>6, <2>1 DEF Learned, Holds
  <2> QED BY <1>3, <1>4, <2>1, <2>2
<1>12. CASE RejectedState \/ Observed
  <2>1. /\ pc \in {"rejected", "observed"} /\ Rests
        /\ \E reason : log' \in {log, Append(log, Snapshot(Stop(t, reason)))}
    BY <1>12 DEF RejectedState, Observed, bounds, t
  <2>2. Late(log) = {}
    BY <1>5, <2>1 DEF Learned
  <2> QED BY <1>3, <1>4, <2>1, <2>2
<1>13. CASE Answered
  <2> DEFINE r == Rebuilt(log)
  <2>1. \A id, answer : /\ IsState(RecordAnswer(r, id, answer))
                        /\ RecordAnswer(r, id, answer).edits = r.edits
    BY <1>3, StatesKeepFields, EditsOfStates
  <2>2. /\ Rests
        /\ \/ log' \in {log, Append(log, Snapshot(r))}
           \/ \E id, answer :
                log' = Append(log, Snapshot(RecordAnswer(r, id, answer)))
    BY <1>13 DEF Answered, bounds
  <2> HIDE DEF r
  <2> QED BY <1>3, <2>1, <2>2 DEF r
<1>14. CASE AdvanceState \/ Written \/ Diffed \/ Requested \/ Validated
  <2>1. /\ pc \in ReturnsTo \ {"resumed"} /\ Rests
        /\ AdvanceState => pc = "advance"
        /\ Diffed => pc = "diffed"
        /\ Validated => pc = "validated"
    BY <1>14 DEF AdvanceState, Written, Diffed, Requested, Validated,
                 ReturnsTo, bounds
  <2> DEFINE adv(u) == Advance(t, job.action, job.obs, u)
  <2>2. ASSUME pc = "advance" \/ job.obs.status # "recovery_required"
        PROVE  \A u : IsState(adv(u)) /\ adv(u).edits = Listed(log)
    BY <1>2, <2>1, <2>2, OutcomeIsListed DEF t
  <2>3. pc \in {"diffed", "validated"} =>
          job.obs.status # "recovery_required"
    BY <1>2 DEF OutcomeInv, ToldInv
  <2>4. pc \in {"advance", "diffed"} => job.state = t
    BY <1>6 DEF Holds, InLoop
  <2> HIDE DEF adv
  <2>5. CASE AdvanceState \/ Diffed \/ Validated
    <3>1. \E u : log' = Append(log, Snapshot(adv(u)))
      BY <2>1, <2>4, <2>5 DEF AdvanceState, Diffed, Validated, adv, t
    <3>2. pc = "advance" \/ job.obs.status # "recovery_required"
      BY <2>1, <2>3, <2>5
    <3> QED BY <2>1, <2>2, <3>1, <3>2
  <2>6. CASE Requested
    <3>1. \/ log' = log
          \/ /\ job.obs.status = "approval_required"
             /\ \E u, reason : log' = Append(log, Snapshot(Stop(adv(u), reason)))
      BY <2>6 DEF Requested, adv, t
    <3> QED BY <1>4, <1>7, <2>1, <2>2, <3>1
  <2>7. CASE Written
    <3>1. job.obs.status \in SuccessStatuses =>
            job.obs.status # "recovery_required"
      BY DEF SuccessStatuses
    <3>2. \A s : IsState(s) => \A id, changed, commands :
            /\ IsState(PostWrite(s, id, changed, commands))
            /\ PostWrite(s, id, changed, commands).edits = s.edits
      BY StatesKeepFields, EditsOfStates
    <3>3. \/ log' = log
          \/ /\ job.obs.status = "approval_required"
             /\ \E u, reason : log' = Append(log, Snapshot(Stop(adv(u), reason)))
          \/ /\ job.obs.status \in SuccessStatuses
             /\ \E u, id, changed, commands :
                  log' = Append(log, Snapshot(
                                  PostWrite(adv(u), id, changed, commands)))
      BY <2>7 DEF Written, adv, t
    <3> QED BY <1>4, <1>7, <2>1, <2>2, <3>1, <3>2, <3>3
  <2> QED BY <1>14, <2>5, <2>6, <2>7
<1> QED BY <1>8, <1>9, <1>10, <1>11, <1>12, <1>13, <1>14 DEF Recording

LEMMA RecordsLeave ==
  ASSUME Base, WaitsPlain(log), Records, LogOK'
  PROVE  /\ WaitsPlain(log') /\ Listed(log') = Listed(log)
         /\ Unresolved(log') = Unresolved(log)
         /\ PendingApproval(log') = PendingApproval(log)
         /\ PendingApproval(log) # 0 => Asked(log') = Asked(log)
         /\ \A id, types : Of(log', id, types) = Of(log, id, types)
         /\ Recorded(log') = Recorded(log)
         /\ DOMAIN log \subseteq DOMAIN log'
         /\ \A i \in DOMAIN log : log'[i] = log[i]
         /\ \A i \in DOMAIN log' :
              i \in DOMAIN log \/ log'[i].type = "working_state_updated"
<1>1. /\ Inv /\ LogsEvents(log) /\ SnapshotsOK(log)
      /\ Len(log) \in Nat /\ DOMAIN log = 1..Len(log)
  BY LogFacts DEF Base
<1>2. PICK s : /\ IsState(s) /\ s.edits = Listed(log)
               /\ log' \in {log, Append(log, Snapshot(s))}
  BY DEF Records
<1>3. /\ Unresolved(log') = Unresolved(log)
      /\ PendingApproval(log') = PendingApproval(log)
      /\ PendingApproval(log) # 0 => Asked(log') = Asked(log)
  BY <1>1, <1>2, SnapshotOpens
<1>4. CASE log' = log
  <2>1. WaitsPlain(log') /\ Listed(log') = Listed(log)
    BY <1>4
  <2> QED BY <1>3, <1>4, <2>1
<1>5. CASE log' = Append(log, Snapshot(s))
  <2>1. WaitsPlain(log') /\ Listed(log') = s.edits
    BY <1>1, <1>2, <1>5, ListedRecords DEF LogOK
  <2>2. /\ Recorded(log') = Recorded(log)
        /\ \A id, types : Of(log', id, types) = Of(log, id, types)
    BY <1>1, <1>2, <1>5, SnapshotTaken
  <2>3. Snapshot(s).type = "working_state_updated"
    BY EventFields
  <2>4. /\ DOMAIN log' = 1..(Len(log) + 1)
        /\ \A i \in 1..Len(log) : log'[i] = log[i]
        /\ log'[Len(log) + 1] = Snapshot(s)
    BY <1>1, <1>5, AppendGrows DEF LogsEvents
  <2>5. \A i \in 1..(Len(log) + 1) : i \in 1..Len(log) \/ i = Len(log) + 1
    BY <1>1
  <2>6. 1..Len(log) \subseteq 1..(Len(log) + 1)
    BY <1>1
  <2> QED BY <1>1, <1>2, <1>3, <2>1, <2>2, <2>3, <2>4, <2>5, <2>6
<1> QED BY <1>2, <1>4, <1>5

-----------------------------------------------------------------------------
(* The proposals of a log.                                                 *)

(* The content that the last proposal leads to, and all that one led to.   *)
Standing(l, p) == ProposedBefore(l, p, Len(l) + 1)
Visited(l, p) == {Original} \union {l[i].action.to : i \in Proposals(l, p)}
(* Each proposal starts from the one before.                               *)
IsChain(l) ==
  \A p \in Paths : \A i \in Proposals(l, p) :
    l[i].action.from = ProposedBefore(l, p, i)

IsProposal(e, p) ==
  /\ e.type \in TerminalTypes /\ e.action.kind = "propose_patch"
  /\ e.action.path = p /\ e.obs.status = "completed"
(* The event does not disturb: see Undisturbed.                            *)
IsFair(l, e, i) ==
  e.type \in TerminalTypes =>
    /\ e.type = "action_recovered" => e.action.kind # "propose_patch"
    /\ (e.action.kind \in WriteKinds /\ e.obs.report = "written") =>
         e.action.to = ProposedBefore(l, e.action.path, i)
FairLog(l) == \A i \in DOMAIN l : IsFair(l, l[i], i)

LEMMA UndisturbedIsFair == Undisturbed <=> outsideEdits = 0 /\ FairLog(log)
BY DEF Undisturbed, FairLog, IsFair

LEMMA ProposalsGrow ==
  ASSUME NEW l, LogsEvents(l), NEW e
  PROVE  LET m == Append(l, e)
         IN  /\ \A p : /\ Proposals(l, p) \subseteq 1..Len(l)
                       /\ Proposals(m, p) = Proposals(l, p) \union
                            (IF IsProposal(e, p) THEN {Len(l) + 1} ELSE {})
                       /\ \A i \in 1..(Len(l) + 1) :
                            ProposedBefore(m, p, i) = ProposedBefore(l, p, i)
                       /\ Standing(m, p) = IF IsProposal(e, p)
                                           THEN e.action.to
                                           ELSE Standing(l, p)
                       /\ Visited(m, p) = Visited(l, p) \union
                            (IF IsProposal(e, p) THEN {e.action.to} ELSE {})
             /\ IsChain(m) <=>
                  /\ IsChain(l)
                  /\ \A p \in Paths : IsProposal(e, p) =>
                       e.action.from = Standing(l, p)
             /\ FairLog(m) <=>
                  /\ FairLog(l)
                  /\ e.type \in TerminalTypes =>
                       /\ e.type = "action_recovered" =>
                            e.action.kind # "propose_patch"
                       /\ (/\ e.action.kind \in WriteKinds
                           /\ e.obs.report = "written") =>
                            e.action.to = Standing(l, e.action.path)
<1> DEFINE m == Append(l, e)
           n == Len(l)
<1>1. /\ n \in Nat /\ DOMAIN l = 1..n /\ DOMAIN m = 1..(n + 1)
      /\ Len(m) = n + 1
      /\ \A i \in 1..n : m[i] = l[i]
      /\ m[n + 1] = e
  BY AppendGrows DEF LogsEvents
<1>2. 1..(n + 1) = 1..n \union {n + 1} /\ n + 1 \notin 1..n
  BY <1>1
<1> HIDE DEF m, n
<1>3. ASSUME NEW p
      PROVE  /\ Proposals(l, p) \subseteq 1..n
             /\ Proposals(m, p) = Proposals(l, p) \union
                  (IF IsProposal(e, p) THEN {n + 1} ELSE {})
  BY <1>1, <1>2 DEF Proposals, IsProposal
<1>4. ASSUME NEW p, NEW i \in 1..(n + 1)
      PROVE  ProposedBefore(m, p, i) = ProposedBefore(l, p, i)
  <2> DEFINE before == {j \in Proposals(l, p) : j < i}
  <2>1. {j \in Proposals(m, p) : j < i} = before
    <3>1. ~(n + 1 < i)
      BY <1>1
    <3> QED BY <1>3, <3>1
  <2>2. before # {} => Newest(before) \in 1..n
    <3>1. before \subseteq 1..n
      BY <1>3
    <3> HIDE DEF before
    <3> QED BY <1>1, <3>1, NewestIsLast
  <2> HIDE DEF before
  <2> QED BY <1>1, <2>1, <2>2 DEF ProposedBefore, before
<1>5. ASSUME NEW p
      PROVE  Standing(m, p) = IF IsProposal(e, p) THEN e.action.to
                              ELSE Standing(l, p)
  <2> DEFINE P == Proposals(l, p)
             Q == Proposals(m, p)
             after == {j \in Q : j < (n + 1) + 1}
             before == {j \in P : j < n + 1}
  <2>1. P \subseteq 1..n /\ Q = P \union (IF IsProposal(e, p) THEN {n + 1} ELSE {})
    BY <1>3
  <2>2. after = Q /\ before = P /\ Q \subseteq 1..(n + 1) /\ n + 1 \in Nat
    BY <1>1, <1>2, <2>1
  <2>3. Standing(m, p) = IF Q = {} THEN Original ELSE m[Newest(Q)].action.to
    BY <1>1, <2>2 DEF Standing, ProposedBefore
  <2>4. Standing(l, p) = IF P = {} THEN Original ELSE l[Newest(P)].action.to
    BY <1>1, <2>2 DEF Standing, ProposedBefore, n
  <2> HIDE DEF P, Q, after, before
  <2>5. CASE IsProposal(e, p)
    <3> DEFINE k == n + 1
               q == Newest(Q)
    <3>1. k \in Q /\ Q \subseteq 1..k /\ k \in Nat
      BY <2>1, <2>2, <2>5
    <3> HIDE DEF k
    <3>2. q \in Q /\ k <= q
      BY <3>1, NewestIsLast
    <3>3. q \in 1..k
      BY <3>1, <3>2
    <3>4. q = k
      <4> HIDE DEF q
      <4> QED BY <3>1, <3>2, <3>3
    <3>5. m[Newest(Q)] = e /\ Q # {}
      BY <1>1, <3>1, <3>4 DEF k
    <3> QED BY <2>3, <2>5, <3>5
  <2>6. CASE ~IsProposal(e, p)
    <3>1. Q = P
      BY <2>1, <2>6
    <3>2. P # {} => Newest(P) \in 1..n
      BY <1>1, <2>1, NewestIsLast
    <3> QED BY <1>1, <2>3, <2>4, <2>6, <3>1, <3>2
  <2> QED BY <2>5, <2>6
<1>6. ASSUME NEW p
      PROVE  Visited(m, p) = Visited(l, p) \union
               (IF IsProposal(e, p) THEN {e.action.to} ELSE {})
  <2>1. /\ Proposals(l, p) \subseteq 1..n
        /\ Proposals(m, p) = Proposals(l, p) \union
             (IF IsProposal(e, p) THEN {n + 1} ELSE {})
    BY <1>3
  <2>2. \A i \in Proposals(l, p) : m[i] = l[i]
    BY <1>1, <2>1
  <2> QED BY <1>1, <2>1, <2>2 DEF Visited
<1>7. \A p : Standing(l, p) = ProposedBefore(l, p, n + 1)
  BY DEF Standing, n
<1>8. IsChain(m) <=> /\ IsChain(l)
                     /\ \A p \in Paths : IsProposal(e, p) =>
                          e.action.from = Standing(l, p)
  <2>1. ASSUME NEW p \in Paths
        PROVE  (\A i \in Proposals(m, p) :
                  m[i].action.from = ProposedBefore(m, p, i)) <=>
               /\ \A i \in Proposals(l, p) :
                    l[i].action.from = ProposedBefore(l, p, i)
               /\ IsProposal(e, p) => e.action.from = Standing(l, p)
    <3>1. /\ Proposals(l, p) \subseteq 1..n
          /\ Proposals(m, p) = Proposals(l, p) \union
               (IF IsProposal(e, p) THEN {n + 1} ELSE {})
      BY <1>3
    <3>2. ASSUME NEW i \in Proposals(l, p)
          PROVE  m[i] = l[i] /\ ProposedBefore(m, p, i) =
                                  ProposedBefore(l, p, i)
      BY <1>1, <1>2, <1>4, <3>1
    <3>3. n + 1 \in 1..(n + 1)
      BY <1>1
    <3>4. ProposedBefore(m, p, n + 1) = Standing(l, p)
      BY <1>4, <1>7, <3>3
    <3> QED BY <1>1, <3>1, <3>2, <3>4
  <2> QED BY <2>1 DEF IsChain
<1>9. FairLog(m) <=>
        FairLog(l) /\ IsFair(l, e, n + 1)
  <2>1. ASSUME NEW i \in 1..n
        PROVE  IsFair(m, m[i], i) <=> IsFair(l, l[i], i)
    <3>1. m[i] = l[i] /\ i \in 1..(n + 1)
      BY <1>1, <1>2
    <3>2. \A p : ProposedBefore(m, p, i) = ProposedBefore(l, p, i)
      BY <1>4, <3>1
    <3> QED BY <3>1, <3>2 DEF IsFair
  <2>2. IsFair(m, m[n + 1], n + 1) <=> IsFair(l, e, n + 1)
    <3>1. n + 1 \in 1..(n + 1)
      BY <1>1
    <3>2. \A p : ProposedBefore(m, p, n + 1) = ProposedBefore(l, p, n + 1)
      BY <1>4, <3>1
    <3> QED BY <1>1, <3>2 DEF IsFair
  <2> QED BY <1>1, <1>2, <2>1, <2>2 DEF FairLog
<1>10. IsFair(l, e, n + 1) <=>
         (e.type \in TerminalTypes =>
            /\ e.type = "action_recovered" => e.action.kind # "propose_patch"
            /\ (e.action.kind \in WriteKinds /\ e.obs.report = "written") =>
                 e.action.to = Standing(l, e.action.path))
  BY <1>7 DEF IsFair
<1> QED BY <1>3, <1>4, <1>5, <1>6, <1>8, <1>9, <1>10 DEF m, n

-----------------------------------------------------------------------------
(* What has begun: the actions that touch the edits.                       *)

EditKinds == WriteKinds \union {"propose_patch", "inspect_proposed_diff"}
Started(l, id) == Has(l, id, StartTypes)

(* A proposal ends once.                                                   *)
OnceProposed(l) ==
  \A i \in DOMAIN l :
    (l[i].type \in TerminalTypes /\ l[i].action.kind = "propose_patch") =>
      i = At(l, l[i].action.id, TerminalTypes)
AsksOnly(l) == \A i \in DOMAIN l : l[i].type = "input_required" =>
                                     l[i].action.kind = "ask_user"
ResultsBegan == \A r \in reservations : r.obs # NoObs =>
                                         Started(log, r.action.id)
(* A write that waits for its approval has not begun, and its file is the  *)
(* one it was asked for.                                                   *)
WaitingWrite ==
  (PendingApproval(log) # 0 /\ Asked(log).kind \in WriteKinds) =>
    /\ ~Started(log, Asked(log).id)
    /\ outsideEdits = 0 =>
         /\ Asked(log).id \in Unresolved(log)
         /\ Asked(log).kind = "apply_patch" =>
              disk[Asked(log).path] = Asked(log).from
BegunLog == OnceProposed(log) /\ AsksOnly(log) /\ ResultsBegan /\ WaitingWrite

LEMMA TracksGrow ==
  ASSUME NEW l, LogsEvents(l), NEW e
  PROVE  LET m == Append(l, e)
         IN  /\ \A id, types : Has(m, id, types) <=>
                  \/ Has(l, id, types)
                  \/ /\ e.action # NoAction /\ e.action.id = id
                     /\ e.type \in types
             /\ \A id \in Unresolved(l) :
                  \/ id \in Unresolved(m)
                  \/ /\ e.action # NoAction /\ e.action.id = id
                     /\ \/ e.type \in TerminalTypes
                        \/ e.type \in {"input_received", "approval_rejected"}
             /\ \A id \in Unresolved(m) :
                  id \in Tracked(l) => id \in Unresolved(l)
             /\ e.action # NoAction => e.action.id \in Tracked(m)
<1> DEFINE m == Append(l, e)
<1>1. \A id, types : Of(m, id, types) = Of(l, id, types) \union
                  (IF e.action # NoAction /\ e.action.id = id
                      /\ e.type \in types THEN {Len(l) + 1} ELSE {})
  BY OfGrows
<1>2. \A id, types : Has(m, id, types) <=>
                  \/ Has(l, id, types)
                  \/ /\ e.action # NoAction /\ e.action.id = id
                     /\ e.type \in types
  <2> HIDE DEF m
  <2> QED BY <1>1 DEF Has
<1>3. /\ Len(l) \in Nat /\ DOMAIN l = 1..Len(l) /\ DOMAIN m = 1..(Len(l) + 1)
      /\ \A i \in 1..Len(l) : m[i] = l[i]
      /\ m[Len(l) + 1] = e
  BY AppendGrows DEF LogsEvents
<1> HIDE DEF m
<1>4. /\ Tracked(l) \subseteq Tracked(m)
      /\ e.action # NoAction => e.action.id \in Tracked(m)
  <2>1. Len(l) + 1 \in DOMAIN m /\ \A i \in DOMAIN l : i \in DOMAIN m
    BY <1>3
  <2> QED BY <1>3, <2>1 DEF Tracked
<1>5. ASSUME NEW id \in Unresolved(l)
      PROVE  \/ id \in Unresolved(m)
             \/ /\ e.action # NoAction /\ e.action.id = id
                /\ \/ e.type \in TerminalTypes
                   \/ e.type \in {"input_received", "approval_rejected"}
  BY <1>2, <1>4 DEF Unresolved
<1>6. ASSUME NEW id \in Unresolved(m), id \in Tracked(l)
      PROVE  id \in Unresolved(l)
  BY <1>2, <1>6 DEF Unresolved
<1> QED BY <1>2, <1>4, <1>5, <1>6 DEF m

LEMMA OnceProposedGrows ==
  ASSUME NEW l, LogsEvents(l), OnceProposed(l), NEW e,
         ActionsOK(Append(l, e)), LogsEvents(Append(l, e)),
         e.type \in TerminalTypes =>
           /\ e.action # NoAction
           /\ e.action.kind = "propose_patch" =>
                ~Has(l, e.action.id, TerminalTypes),
         \A i \in DOMAIN l : l[i].type \in TerminalTypes =>
                               l[i].action # NoAction
  PROVE  OnceProposed(Append(l, e))
<1> DEFINE m == Append(l, e)
           n == Len(l)
<1>1. /\ n \in Nat /\ DOMAIN l = 1..n /\ DOMAIN m = 1..(n + 1)
      /\ \A i \in 1..n : m[i] = l[i]
      /\ m[n + 1] = e
  BY AppendGrows DEF LogsEvents
<1>2. \A id : Of(m, id, TerminalTypes) = Of(l, id, TerminalTypes) \union
                  (IF e.action # NoAction /\ e.action.id = id
                      /\ e.type \in TerminalTypes THEN {n + 1} ELSE {})
  BY OfGrows
<1>3. ActionsOK(m)
  OBVIOUS
<1> HIDE DEF m, n
<1>4. SUFFICES ASSUME NEW i \in 1..(n + 1), m[i].type \in TerminalTypes,
                      m[i].action.kind = "propose_patch"
               PROVE  i = At(m, m[i].action.id, TerminalTypes)
  BY <1>1 DEF OnceProposed, m
<1>5. CASE i \in 1..n
  <2> DEFINE x == m[i].action.id
  <2>1. m[i] = l[i] /\ l[i].action # NoAction
    BY <1>1, <1>4, <1>5
  <2>2. i = At(l, x, TerminalTypes) /\ i \in Of(l, x, TerminalTypes)
    BY <1>1, <1>4, <1>5, <2>1 DEF OnceProposed, Of
  <2>3. ~(e.action # NoAction /\ e.action.id = x /\ e.type \in TerminalTypes)
    <3>1. SUFFICES ASSUME e.action # NoAction, e.action.id = x,
                          e.type \in TerminalTypes
                   PROVE  FALSE
      OBVIOUS
    <3>2. m[i].action \in Recorded(m) /\ e.action \in Recorded(m)
      <4>1. n + 1 \in DOMAIN m /\ i \in DOMAIN m
        BY <1>1
      <4> QED BY <1>1, <2>1, <3>1, <4>1 DEF Recorded
    <3>3. e.action = m[i].action
      BY <1>3, <3>1, <3>2 DEF ActionsOK
    <3>4. ~Has(l, x, TerminalTypes)
      BY <1>4, <3>1, <3>3
    <3> QED BY <2>2, <3>4 DEF Has
  <2>4. Of(m, x, TerminalTypes) = Of(l, x, TerminalTypes)
    BY <1>2, <2>3
  <2> QED BY <2>2, <2>4 DEF At
<1>6. CASE i = n + 1
  <2> DEFINE x == e.action.id
  <2>1. m[i] = e /\ e.action # NoAction /\ ~Has(l, x, TerminalTypes)
    BY <1>1, <1>4, <1>6
  <2>2. Of(m, x, TerminalTypes) = {i}
    BY <1>2, <1>4, <1>6, <2>1 DEF Has
  <2>3. Newest({i}) = i
    <3>1. i \in Nat /\ {i} \subseteq 1..i
      BY <1>1, <1>6
    <3> QED BY <3>1, NewestIsLast
  <2> QED BY <2>1, <2>2, <2>3 DEF At
<1> QED BY <1>1, <1>5, <1>6

(* Who has consented to the action of the newest request has settled it.   *)
LEMMA ConsentIsNotPending ==
  ASSUME NEW l, LogsEvents(l), RequestsOK(l), PendingApproval(l) # 0,
         NEW b, Consented(l, b)
  PROVE  b.id # Asked(l).id
<1>1. SUFFICES ASSUME b.id = Asked(l).id PROVE FALSE
  OBVIOUS
<1> DEFINE P == Events({"approval_required"}, l)
           k == Newest(P)
           c == l[k].checkpoint
<1>2. /\ Len(l) \in Nat /\ DOMAIN l = 1..Len(l) /\ P \subseteq 1..Len(l)
  BY LogIsCharged DEF Events
<1>3. P # {} /\ PendingApproval(l) = c
  BY DEF PendingApproval
<1>4. k \in P /\ \A j \in P : j <= k
  BY <1>2, <1>3, NewestIsLast
<1>5. l[k].type = "approval_required" /\ k \in DOMAIN l /\ l[k].action = Asked(l)
  BY <1>4 DEF Events, Asked
<1>6. l[k].action # NoAction
  BY <1>5 DEF RequestsOK, WaitingTypes
<1> DEFINE Q == Of(l, b.id, {"approval_required"})
<1>7. k \in Q /\ Q \subseteq P
  BY <1>1, <1>5, <1>6 DEF Of, Events
<1>8. At(l, b.id, {"approval_required"}) = k
  <2>1. Q \subseteq 1..Len(l) /\ Q # {}
    BY <1>2, <1>7
  <2>2. Newest(Q) \in Q /\ k <= Newest(Q)
    BY <1>2, <1>7, <2>1, NewestIsLast
  <2>3. Newest(Q) <= k /\ Newest(Q) \in 1..Len(l) /\ k \in 1..Len(l)
    BY <1>2, <1>4, <1>7, <2>2
  <2> HIDE DEF Q, k
  <2>4. Newest(Q) = k
    BY <1>2, <2>2, <2>3
  <2> QED BY <2>4 DEF At, Q
<1>9. IsSettled(l, c)
  <2> DEFINE g == At(l, b.id, {"approval_granted"})
             R == Of(l, b.id, {"approval_granted"})
  <2>1. R # {} /\ l[g].checkpoint = c
    BY <1>8 DEF Consented, Has
  <2>2. R \subseteq 1..Len(l)
    BY <1>2 DEF Of
  <2>3. g \in R
    BY <1>2, <2>1, <2>2, NewestIsLast DEF At
  <2> QED BY <2>1, <2>3 DEF IsSettled, Settling, Of
<1> HIDE DEF c
<1> QED BY <1>3, <1>9, SettledIsNotPending

(* The action in execution: what has happened to it, and what has not.     *)
BegunJob ==
  /\ (pc = "gate" \/ (pc = "execute" /\ job.then = "advance")) =>
       ~Has(log, job.action.id, EventTypes \ {"decision_recorded"})
  /\ pc \in Executes => Late(log) = {}
  /\ job.retry => /\ pc \in {"start", "tool", "complete", "report"}
                  /\ job.action.kind \notin SideEffects
  /\ pc \in {"tool", "complete", "report"} => Started(log, job.action.id)
  /\ (/\ pc \in {"execute", "ask", "reserve", "start"}
      /\ job.action.kind \in EditKinds /\ ~job.retry) =>
       ~Started(log, job.action.id)
  /\ (pc \in {"start", "tool", "complete"} /\ job.action.kind \in WriteKinds) =>
       [action |-> job.action, obs |-> NoObs] \in reservations
  /\ pc = "report" => [action |-> job.action, obs |-> job.obs] \in reservations
  /\ (pc \in Executes \ {"execute"} /\ job.then = "advance") =>
       job.action.kind \notin WriteKinds
  /\ (pc \in Executes
        /\ job.action.kind \in {"propose_patch", "inspect_proposed_diff"}) =>
       job.then \in {"advance", "resumed"}
  /\ (pc \in Executes /\ job.action.kind = "propose_patch") =>
       ~Has(log, job.action.id, TerminalTypes)
  /\ (pc \in Executes /\ job.action.kind \in WriteKinds /\ outsideEdits = 0) =>
       job.action.id \in Unresolved(log)

(* The edits of the state, of the results and of the overlay.              *)
TypedEdits ==
  /\ Listed(log) \in Overlays /\ WaitsPlain(log)
  /\ \A r \in reservations : r.obs # NoObs => r.obs \in Results
  /\ pc \in {"complete", "report"} => job.obs \in Results
  /\ pc = "idle" => overlay = NoEdits

BegunInv == BegunLog /\ BegunJob /\ TypedEdits

LEMMA AdvanceTyped ==
  ASSUME NEW edits \in Overlays, NEW a, IsAction(a), NEW obs,
         obs \in Results \/ obs.report = "none"
  PROVE  AdvanceEdits(edits, a, obs) \in Overlays
<1> DEFINE p == a.path
           moved == IF edits[p] = NoEdit THEN edits[p]
                    ELSE [edits[p] EXCEPT !.status = "conflict"]
<1>1. CASE obs.report = "none"
  BY <1>1, PlainAdvance
<1>2. CASE obs \in Results
  <2>1. obs.edits \in Overlays
    BY <1>2 DEF Results
  <2>2. a.kind \in WriteKinds \union {"propose_patch"} =>
          /\ p \in Paths /\ edits[p] \in EditSet /\ obs.edits[p] \in EditSet
    BY <2>1 DEF IsAction, Overlays
  <2>3. a.kind \in WriteKinds \union {"propose_patch"} => moved \in EditSet
    BY <2>2, EntriesAreEdits
  <2>4. \A x \in EditSet : [edits EXCEPT ![p] = x] \in Overlays
    BY DEF Overlays
  <2>5. AdvanceEdits(edits, a, obs) \in
          {edits, obs.edits}
          \union (IF a.kind \in WriteKinds \union {"propose_patch"}
                  THEN {[edits EXCEPT ![p] = NoEdit],
                        [edits EXCEPT ![p] = obs.edits[p]],
                        [edits EXCEPT ![p] = moved]}
                  ELSE {})
    <3>1. [edits EXCEPT ![p] = moved] =
            [edits EXCEPT ![p] = IF @ = NoEdit THEN @
                                 ELSE [@ EXCEPT !.status = "conflict"]]
      OBVIOUS
    <3> HIDE DEF moved
    <3> QED BY <3>1 DEF AdvanceEdits, WriteKinds
  <2> HIDE DEF moved, p
  <2> QED BY <2>1, <2>2, <2>3, <2>4, <2>5, EntriesAreEdits
<1> QED BY <1>1, <1>2

(* What an event makes of the edits.                                       *)
LEMMA EventLists ==
  ASSUME Base, TypedEdits, NEW e, log' = Append(log, e), LogOK',
         e.type # "working_state_updated",
         e.type \in WaitingTypes => e.obs.report = "none",
         e.type \in TerminalTypes =>
           /\ e.action # NoAction
           /\ e.obs \in Results \/ e.obs.report = "none"
           /\ Late(log) = {} \/ ~Has(log, e.action.id, TerminalTypes)
  PROVE  /\ WaitsPlain(log') /\ Listed(log') \in Overlays
         /\ Listed(log') = IF e.type \in TerminalTypes
                           THEN AdvanceEdits(Listed(log), e.action, e.obs)
                           ELSE Listed(log)
<1>1. /\ Inv /\ LogsEvents(log) /\ SnapshotsOK(log)
      /\ Len(log) \in Nat /\ DOMAIN log = 1..Len(log)
      /\ SnapshotAt(log) \in 0..Len(log)
  BY LogFacts, LatestIsState DEF Base
<1>2. WaitsPlain(log) /\ Listed(log) \in Overlays
  BY DEF TypedEdits
<1>3. e.type \in TerminalTypes =>
        \A i \in Of(log, e.action.id, TerminalTypes) : i <= SnapshotAt(log)
  <2>1. SUFFICES ASSUME e.type \in TerminalTypes,
                        NEW i \in Of(log, e.action.id, TerminalTypes)
                 PROVE  i <= SnapshotAt(log)
    OBVIOUS
  <2>2. Late(log) = {}
    BY <2>1 DEF Has
  <2>3. i \in 1..Len(log) /\ log[i].type \in Learnt
    BY <1>1 DEF Of, Learnt, Observations
  <2> QED BY <1>1, <2>2, <2>3 DEF Late
<1>4. /\ WaitsPlain(log')
      /\ Listed(log') = IF e.type \in TerminalTypes
                        THEN AdvanceEdits(Listed(log), e.action, e.obs)
                        ELSE Listed(log)
  BY <1>1, <1>2, <1>3, ListedGrows DEF LogOK
<1>5. e.type \in TerminalTypes => IsAction(e.action)
  <2>1. /\ log'[Len(log) + 1] = e /\ Len(log') = Len(log) + 1
    BY <1>1, AppendGrows DEF LogsEvents
  <2>2. Len(log) + 1 \in 1..Len(log')
    BY <1>1, <2>1
  <2> QED BY <2>1, <2>2 DEF LogOK, LogsEvents, IsEvent
<1>6. Listed(log') \in Overlays
  BY <1>2, <1>4, <1>5, AdvanceTyped
<1> QED BY <1>4, <1>6

(* The call does not execute an action.                                    *)
LEMMA BegunAtRest ==
  ASSUME pc' \notin Executes \union {"gate"}, ~job'.retry
  PROVE  BegunJob'
<1>1. /\ pc' # "gate" /\ pc' \notin Executes
      /\ pc' \notin {"start", "tool", "complete", "report"}
      /\ pc' \notin {"execute", "ask", "reserve", "start"}
      /\ pc' \notin {"start", "tool", "complete"} /\ pc' # "execute"
      /\ pc' \notin {"tool", "complete", "report"} /\ pc' # "report"
      /\ pc' \notin Executes \ {"execute"}
  BY DEF Executes
<1> QED BY <1>1 DEF BegunJob

LEMMA BegunRecords ==
  ASSUME Base, Base', BegunInv, Records
  PROVE  /\ BegunLog'
         /\ (/\ pc' \notin {"complete", "report"}
             /\ pc' = "idle" => overlay' = NoEdits) => TypedEdits'
         /\ Listed(log') = Listed(log)
         /\ \A id, types : Has(log', id, types) <=> Has(log, id, types)
         /\ Unresolved(log') = Unresolved(log)
<1>1. WaitsPlain(log) /\ Inv'
  BY DEF BegunInv, TypedEdits, Base
<1>2. /\ WaitsPlain(log') /\ Listed(log') = Listed(log)
      /\ Unresolved(log') = Unresolved(log)
      /\ PendingApproval(log') = PendingApproval(log)
      /\ PendingApproval(log) # 0 => Asked(log') = Asked(log)
      /\ \A id, types : Of(log', id, types) = Of(log, id, types)
      /\ DOMAIN log \subseteq DOMAIN log'
      /\ \A i \in DOMAIN log : log'[i] = log[i]
      /\ \A i \in DOMAIN log' :
           i \in DOMAIN log \/ log'[i].type = "working_state_updated"
  BY <1>1, RecordsLeave DEF Inv, TypeInv
<1>3. /\ \A id, types : Has(log', id, types) <=> Has(log, id, types)
      /\ \A id, types : At(log', id, types) = At(log, id, types)
  BY <1>2 DEF Has, At
<1>4. UNCHANGED <<reservations, disk, outsideEdits>>
  BY DEF Records
<1>5. OnceProposed(log')
  <2>1. OnceProposed(log)
    BY DEF BegunInv, BegunLog
  <2> QED BY <1>2, <1>3, <2>1 DEF OnceProposed, TerminalTypes
<1>6. AsksOnly(log')
  <2>1. AsksOnly(log)
    BY DEF BegunInv, BegunLog
  <2> QED BY <1>2, <2>1 DEF AsksOnly
<1>7. ResultsBegan'
  BY <1>3, <1>4 DEF BegunInv, BegunLog, ResultsBegan, Started
<1>8. WaitingWrite'
  BY <1>2, <1>3, <1>4 DEF BegunInv, BegunLog, WaitingWrite, Started
<1>9. (/\ pc' \notin {"complete", "report"}
       /\ pc' = "idle" => overlay' = NoEdits) => TypedEdits'
  BY <1>2, <1>4 DEF BegunInv, TypedEdits
<1> QED BY <1>2, <1>3, <1>5, <1>6, <1>7, <1>8, <1>9 DEF BegunLog

(* Where a recording step leads to.                                        *)
LEMMA RecordingPoints ==
  ASSUME Inv, BegunInv, Recording
  PROVE  /\ pc' = "idle" => overlay' = NoEdits
         /\ pc' \notin {"ask", "reserve", "tool", "complete", "report", "gate"}
         /\ \/ ResumePending
            \/ ~job'.retry /\ pc' \notin Executes
            \/ /\ ~job'.retry /\ pc' = "execute"
               /\ job'.then \in {"diffed", "requested"}
               /\ job'.action.kind \in {"inspect_diff", "validate"}
<1> DEFINE Leads ==
             /\ pc' = "idle" => overlay' = NoEdits
             /\ pc' \notin {"ask", "reserve", "tool", "complete", "report", "gate"}
             /\ \/ ResumePending
                \/ ~job'.retry /\ pc' \notin Executes
                \/ /\ ~job'.retry /\ pc' = "execute"
                   /\ job'.then \in {"diffed", "requested"}
                   /\ job'.action.kind \in {"inspect_diff", "validate"}
<1>1. SUFFICES Leads
  OBVIOUS
<1>2. IsJob(job)
  BY AtAnyPoint
<1>3. /\ job.retry => pc \in {"start", "tool", "complete", "report"}
      /\ pc = "idle" => overlay = NoEdits
  BY DEF BegunInv, BegunJob, TypedEdits
<1>4. \A call : ~Job(call).retry /\ IsJob(Job(call))
  BY NoJobFields DEF Job
<1>5. ASSUME Reset PROVE Leads
  BY <1>4, <1>5 DEF Reset, NoJob, Executes
<1>6. ASSUME NEW l, NEW cycle, Resume(l, cycle) PROVE Leads
  BY <1>4, <1>6 DEF Resume, IsJob, Executes
<1>7. ASSUME pc' \notin Executes \union {"idle", "gate"}, job'.retry = job.retry,
             pc \notin {"start", "tool", "complete", "report"}
      PROVE  Leads
  BY <1>3, <1>7 DEF Executes
<1>8. ASSUME NEW cycle, RequestNext(cycle),
             pc \notin {"start", "tool", "complete", "report"}
      PROVE  Leads
  <2>1. /\ pc' = "execute" /\ job'.action = Validation(cycle.write, cycle.next)
        /\ job'.then = "requested" /\ job'.retry = job.retry
    BY <1>2, <1>8 DEF RequestNext, IsJob
  <2>2. job'.action.kind = "validate"
    BY <2>1 DEF Validation, Action
  <2> QED BY <1>3, <1>8, <2>1, <2>2
<1>9. CASE RestoreQuestion \/ Cancel
  <2>1. pc' = "idle" /\ job' = job /\ overlay' = overlay /\ pc = "idle"
    BY <1>9 DEF RestoreQuestion, Cancel
  <2> QED BY <1>3, <2>1 DEF Executes
<1>10. CASE StartLoop
  <2>1. pc' = "step" /\ ~job'.retry
    BY <1>4, <1>10 DEF StartLoop, IsJob
  <2> QED BY <2>1 DEF Executes
<1>11. CASE ResumeLoop \/ Answered
  BY <1>6, <1>11 DEF ResumeLoop, Answered
<1>12. CASE Crash \/ DecisionFails \/ EndLoop \/ RejectedState \/ Requested
  BY <1>5, <1>12 DEF Crash, DecisionFails, EndLoop, RejectedState, Requested,
                     Return, Fail
<1>13. CASE Observed
  BY <1>5, <1>6, <1>13 DEF Observed, Fail
<1>14. CASE Recover \/ LimitReached \/ AdvanceState \/ Diffed
  <2>1. /\ pc' \in {"resume", "end", "step", "close"} /\ job'.retry = job.retry
        /\ pc \notin {"start", "tool", "complete", "report"}
    BY <1>2, <1>14 DEF Recover, PersistRebuilt, LimitReached, AdvanceState,
                       Diffed, IsJob
  <2> QED BY <1>7, <2>1 DEF Executes
<1>15. CASE Resumed \/ EnterLoop
  <2>1. \/ Reset
        \/ /\ pc' \in {"wait", "step"} /\ job'.retry = job.retry
           /\ pc \notin {"start", "tool", "complete", "report"}
    BY <1>2, <1>15 DEF Resumed, PersistRebuilt, EnterLoop, Return, IsJob
  <2>2. pc' \in {"wait", "step"} => pc' \notin Executes \union {"idle", "gate"}
    BY DEF Executes
  <2> QED BY <1>5, <1>7, <2>1, <2>2
<1>16. CASE CloseWrite
  BY <1>5, <1>8, <1>16 DEF CloseWrite, Fail
<1>17. CASE Validated
  <2>1. /\ pc = "validated"
        /\ \/ \E cycle : RequestNext(cycle)
           \/ pc' = "observed" /\ job' = [job EXCEPT !.cycle.next = 0]
    BY <1>17 DEF Validated
  <2>2. job' = [job EXCEPT !.cycle.next = 0] => job'.retry = job.retry
    BY <1>2 DEF IsJob
  <2> QED BY <1>7, <1>8, <2>1, <2>2 DEF Executes
<1>18. CASE Written
  <2> DEFINE diff == Read(Append(job.action.id, "diff"), "inspect_diff", 1)
  <2>1. /\ pc = "written"
        /\ \/ Reset
           \/ /\ pc' = "execute" /\ job'.action = diff /\ job'.then = "diffed"
              /\ job'.retry = job.retry
    BY <1>2, <1>18 DEF Written, Return, IsJob
  <2>2. diff.kind = "inspect_diff"
    BY DEF Read, Action
  <2> HIDE DEF diff
  <2> QED BY <1>3, <1>5, <2>1, <2>2
<1>19. CASE ResumePending
  <2>1. pc' \in {"execute", "start", "wait"}
    BY <1>19 DEF ResumePending
  <2> QED BY <1>19, <2>1
<1> QED BY <1>9, <1>10, <1>11, <1>12, <1>13, <1>14, <1>15, <1>16, <1>17,
           <1>18, <1>19 DEF Recording

LEMMA ResumePendingBegins ==
  Base /\ Base' /\ BegunInv /\ ResumePending => BegunJob'
<1> SUFFICES ASSUME Base, Base', BegunInv, ResumePending PROVE BegunJob'
  OBVIOUS
<1> DEFINE a == ActionOf(log, Pending(log))
           next == NextStep(log)
<1>1. /\ pc = "resume" /\ log' = log /\ IsJob(job) /\ LogsEvents(log)
      /\ UNCHANGED outsideEdits
  BY AtAnyPoint DEF ResumePending, Base, bounds
<1>2. ~job.retry
  BY <1>1 DEF BegunInv, BegunJob
<1>3. CASE next \notin {"execute_pending", "retry_read_only"}
  <2>1. pc' = "wait" /\ job' = job
    BY <1>3 DEF ResumePending
  <2> QED BY <1>2, <2>1, BegunAtRest DEF Executes
<1>4. CASE next \in {"execute_pending", "retry_read_only"}
  <2>1. Unresolved(log) # {}
    BY <1>4, NextStepOfPending
  <2>2. Pending(log) \in Unresolved(log) /\ a.id = Pending(log)
    BY <1>1, <2>1, PendingInLog
  <2>3. ~Has(log, a.id, TerminalTypes)
    BY <2>2 DEF Unresolved
  <2>4. Late(log') = {}
    BY <1>1 DEF Base, KnowInv, Learned
  <2>5. PendingClass(log) = IF next = "execute_pending" THEN "not_started"
                            ELSE "interrupted_read_only"
    BY <1>4 DEF NextStep
  <2>6. IF next = "execute_pending" THEN ~Has(log, a.id, StartTypes)
        ELSE a.kind \notin SideEffects
    BY <2>1, <2>2, <2>5 DEF PendingClass, Classification
  <2>7. /\ job'.action = a /\ job'.then = "resumed"
        /\ \/ next = "execute_pending" /\ pc' = "execute" /\ ~job'.retry
           \/ next = "retry_read_only" /\ pc' = "start" /\ job'.retry
    BY <1>1, <1>2, <1>4 DEF ResumePending, IsJob
  <2>8. \A k \in WriteKinds : k \in SideEffects
    BY DEF WriteKinds, SideEffects
  <2> HIDE DEF a, next
  <2>9. CASE pc' = "execute"
    BY <1>1, <2>2, <2>3, <2>4, <2>6, <2>7, <2>9 DEF BegunJob, Started
  <2>10. CASE pc' = "start"
    BY <1>1, <2>2, <2>3, <2>4, <2>6, <2>7, <2>8, <2>10 DEF BegunJob, Started
  <2> QED BY <2>7, <2>9, <2>10
<1> QED BY <1>3, <1>4

LEMMA RecordingBegins == Base /\ Base' /\ BegunInv /\ Recording => BegunInv'
<1> SUFFICES ASSUME Base, Base', BegunInv, Recording PROVE BegunInv'
  OBVIOUS
<1>1. /\ pc' = "idle" => overlay' = NoEdits
      /\ pc' \notin {"ask", "reserve", "tool", "complete", "report", "gate"}
      /\ \/ ResumePending
         \/ ~job'.retry /\ pc' \notin Executes
         \/ /\ ~job'.retry /\ pc' = "execute"
            /\ job'.then \in {"diffed", "requested"}
            /\ job'.action.kind \in {"inspect_diff", "validate"}
  BY RecordingPoints DEF Base
<1>2. Records
  BY RecordingRecords
<1>3. BegunLog' /\ TypedEdits'
  BY <1>1, <1>2, BegunRecords
<1>4. CASE ResumePending
  BY <1>3, <1>4, ResumePendingBegins DEF BegunInv
<1>5. CASE ~job'.retry /\ pc' \notin Executes
  BY <1>1, <1>3, <1>5, BegunAtRest DEF BegunInv
<1>6. CASE /\ ~job'.retry /\ pc' = "execute"
           /\ job'.then \in {"diffed", "requested"}
           /\ job'.action.kind \in {"inspect_diff", "validate"}
  <2>1. Late(log') = {}
    BY <1>6 DEF Base, KnowInv, Learned, Executes
  <2>2. job'.action.kind \notin EditKinds
        /\ job'.action.kind \notin WriteKinds
    BY <1>6 DEF EditKinds, WriteKinds
  <2>3. BegunJob'
    BY <1>6, <2>1, <2>2 DEF BegunJob
  <2> QED BY <1>3, <2>3 DEF BegunInv
<1> QED BY <1>1, <1>4, <1>5, <1>6

-----------------------------------------------------------------------------
(* The execution of an action.                                             *)

LEMMA KnownById ==
  ASSUME NEW l, ActionsOK(l), NEW a, a # NoAction, IsKnown(l, a),
         NEW b \in Recorded(l), a.id = b.id
  PROVE  a = b
<1>1. CASE a \in Recorded(l)
  BY <1>1 DEF ActionsOK
<1>2. CASE IsDerived(a)
  BY <1>2, DerivedById DEF ActionsOK
<1> QED BY <1>1, <1>2 DEF IsKnown

LEMMA AskedIsRecorded ==
  ASSUME NEW l, LogsEvents(l), RequestsOK(l), PendingApproval(l) # 0
  PROVE  /\ Asked(l) \in Recorded(l) /\ Asked(l).kind \in SideEffects
         /\ Newest(Events({"approval_required"}, l)) \in
              Of(l, Asked(l).id, {"approval_required"})
<1> DEFINE P == Events({"approval_required"}, l)
           k == Newest(P)
<1>1. /\ Len(l) \in Nat /\ DOMAIN l = 1..Len(l) /\ P \subseteq 1..Len(l)
  BY LogIsCharged DEF Events
<1>2. P # {}
  BY DEF PendingApproval
<1>3. k \in P
  BY <1>1, <1>2, NewestIsLast
<1>4. l[k].type = "approval_required" /\ k \in DOMAIN l /\ l[k].action = Asked(l)
  BY <1>3 DEF Events, Asked
<1>5. l[k].action # NoAction /\ l[k].action.kind \in SideEffects
  BY <1>4 DEF RequestsOK, WaitingTypes
<1> HIDE DEF k
<1>6. Asked(l) \in Recorded(l)
  BY <1>4, <1>5 DEF Recorded
<1>7. k \in Of(l, Asked(l).id, {"approval_required"})
  BY <1>4, <1>5 DEF Of
<1> QED BY <1>4, <1>5, <1>6, <1>7 DEF k

(* The asked action, if it is in execution, is the one in execution.       *)
LEMMA AskedIsExecuted ==
  ASSUME Base, pc \in Executes, job.action # NoAction,
         PendingApproval(log) # 0
  PROVE  Asked(log) = job.action /\ job.then = "resumed"
<1>1. /\ LogsEvents(log) /\ ActionsOK(log) /\ RequestsOK(log)
  BY LogFacts DEF Base, IdLog
<1>2. IsKnown(log, job.action)
  BY DEF Base, IdInv
<1>3. Asked(log).id = job.action.id /\ job.then = "resumed"
  BY DEF Base, OpenInv
<1>4. Asked(log) \in Recorded(log)
  BY <1>1, AskedIsRecorded
<1> QED BY <1>1, <1>2, <1>3, <1>4, KnownById

LEMMA NoWriteWaits ==
  ASSUME Base, pc \in Executes, job.action # NoAction,
         \/ pc # "execute" \/ job.action.kind \notin SideEffects
         \/ ValidGrant(job.action)
  PROVE  PendingApproval(log) # 0 => Asked(log).kind \notin WriteKinds
<1>1. SUFFICES ASSUME PendingApproval(log) # 0, Asked(log).kind \in WriteKinds
               PROVE  FALSE
  OBVIOUS
<1>2. Asked(log) = job.action
  BY <1>1, AskedIsExecuted
<1>3. job.action.kind \in SideEffects
  BY <1>1, <1>2 DEF WriteKinds, SideEffects
<1>4. Consented(log, job.action)
  <2>1. CASE pc # "execute"
    BY <1>3, <2>1 DEF Base, ConsentInv, Consents
  <2>2. CASE pc = "execute"
    BY <1>3, <2>2, ValidIsConsent DEF Base, ConsentInv
  <2> QED BY <2>1, <2>2
<1>5. LogsEvents(log) /\ RequestsOK(log)
  BY LogFacts DEF Base, IdLog
<1> QED BY <1>1, <1>2, <1>4, <1>5, ConsentIsNotPending

LEMMA HasFewer ==
  ASSUME NEW l, NEW id, NEW types, NEW more, types \subseteq more,
         ~Has(l, id, more)
  PROVE  ~Has(l, id, types)
BY DEF Has, Of

(* An event of the action in execution that observes nothing.              *)
LEMMA ExecuteLogs ==
  ASSUME Base, Base', BegunInv, pc \in Executes, job.action # NoAction, NEW e,
         \/ log' = log
         \/ /\ log' = Append(log, e) /\ e.action = job.action
            /\ e.type \in {"action_authorized"} \union StartTypes
  PROVE  /\ \A id, types : Has(log, id, types) => Has(log', id, types)
         /\ \A id : Has(log', id, TerminalTypes) => Has(log, id, TerminalTypes)
         /\ \A id \in Unresolved(log) : id \in Unresolved(log')
         /\ \A id \in Unresolved(log') : id \in Tracked(log) =>
              id \in Unresolved(log)
         /\ Started(log', job.action.id) =>
              \/ Started(log, job.action.id)
              \/ log' = Append(log, e) /\ e.type \in StartTypes
         /\ (log' = Append(log, e) /\ e.type \in StartTypes) =>
              Started(log', job.action.id)
         /\ \A id : Started(log', id) =>
              Started(log, id) \/ id = job.action.id
         /\ Late(log') = {} /\ OnceProposed(log') /\ AsksOnly(log')
         /\ PendingApproval(log') = PendingApproval(log)
         /\ PendingApproval(log) # 0 => Asked(log') = Asked(log)
         /\ Listed(log') = Listed(log) /\ WaitsPlain(log')
         /\ Listed(log') \in Overlays
<1>1. /\ Inv /\ IdInv /\ KnowInv /\ LogsEvents(log) /\ LogsEvents(log')
      /\ Len(log) \in Nat /\ DOMAIN log = 1..Len(log)
      /\ ActionsOK(log') /\ LearntOK(log) /\ LogOK'
  BY LogFacts DEF Base, Inv, TypeInv, IdInv, IdLog, LogOK, KnowInv, TrueLog
<1>2. /\ Late(log) = {} /\ OnceProposed(log) /\ AsksOnly(log)
      /\ WaitsPlain(log) /\ Listed(log) \in Overlays /\ TypedEdits
  BY DEF BegunInv, BegunJob, BegunLog, TypedEdits
<1>3. CASE log' = log
  <2>1. e.type \in StartTypes /\ log' = Append(log, e) => FALSE
    <3>1. Len(Append(log, e)) = Len(log) + 1
      BY <1>1, AppendGrows DEF LogsEvents
    <3> QED BY <1>1, <1>3, <3>1
  <2> QED BY <1>2, <1>3, <2>1
<1>4. CASE /\ log' = Append(log, e) /\ e.action = job.action
           /\ e.type \in {"action_authorized"} \union StartTypes
  <2>1. /\ e.type \notin TerminalTypes /\ e.type \notin WaitingTypes
        /\ e.type \notin Learnt /\ e.type # "working_state_updated"
        /\ e.type # "input_required" /\ e.type # "decision_recorded"
        /\ e.type \notin {"input_received", "approval_rejected"}
        /\ e.type \notin {"approval_required", "approval_granted",
                          "approval_rejected"}
    BY <1>4 DEF TerminalTypes, WaitingTypes, Learnt, Observations, StartTypes
  <2>2. /\ \A id, types : Has(log', id, types) <=>
                  \/ Has(log, id, types)
                  \/ /\ e.action # NoAction /\ e.action.id = id
                     /\ e.type \in types
        /\ \A id \in Unresolved(log) : id \in Unresolved(log')
        /\ \A id \in Unresolved(log') : id \in Tracked(log) =>
             id \in Unresolved(log)
    BY <1>1, <1>4, <2>1, TracksGrow
  <2>3. Late(log') = {}
    <3>1. TrueEvent(log, e)
      BY <2>1 DEF TrueEvent, Learnt, Observations
    <3> QED BY <1>1, <1>2, <1>4, <2>1, <3>1, EventKnown
  <2>4. OnceProposed(log')
    <3>1. \A i \in DOMAIN log : log[i].type \in TerminalTypes =>
            log[i].action # NoAction
      BY <1>1 DEF LearntOK, Learnt, Observations
    <3> QED BY <1>1, <1>2, <1>4, <2>1, <3>1, OnceProposedGrows
  <2>5. AsksOnly(log')
    <3>1. /\ DOMAIN log' = 1..(Len(log) + 1)
          /\ \A i \in 1..Len(log) : log'[i] = log[i]
          /\ log'[Len(log) + 1] = e
      <4>1. LogsEvents(log) /\ log' = Append(log, e) /\ Len(log) \in Nat
        BY <1>1, <1>4
      <4> QED BY ONLY <4>1, AppendGrows DEF LogsEvents
    <3>2. \A i \in 1..(Len(log) + 1) : i \in 1..Len(log) \/ i = Len(log) + 1
      BY <1>1
    <3> QED BY <1>1, <1>2, <2>1, <3>1, <3>2 DEF AsksOnly
  <2>6. /\ PendingApproval(log') = PendingApproval(log)
        /\ PendingApproval(log) # 0 => Asked(log') = Asked(log)
    BY <1>1, <1>4, <2>1, PendingApprovalKept
  <2>7. /\ Listed(log') = Listed(log) /\ WaitsPlain(log')
    BY <1>1, <1>2, <1>4, <2>1, EventLists
  <2> QED BY <1>2, <1>4, <2>1, <2>2, <2>3, <2>4, <2>5, <2>6, <2>7 DEF Started
<1> QED BY <1>3, <1>4

LEMMA ExecuteBegins ==
  ASSUME Base, Base', BegunInv, pc \in Executes, job.action # NoAction,
         pc' \in Executes \ {"execute"},
         job'.action = job.action, job'.then = job.then,
         job'.retry = job.retry, outsideEdits' = outsideEdits,
         pc # "execute" \/ job.action.kind \notin SideEffects
           \/ ValidGrant(job.action),
         NEW e,
         \/ log' = log
         \/ /\ log' = Append(log, e) /\ e.action = job.action
            /\ e.type \in {"action_authorized"} \union StartTypes,
         job.retry => pc' \in {"start", "tool", "complete", "report"},
         pc' \in {"tool", "complete", "report"} =>
           \/ pc \in {"tool", "complete"}
           \/ log' = Append(log, e) /\ e.type \in StartTypes,
         pc' \in {"ask", "reserve", "start"} =>
           /\ pc \in {"execute", "reserve"}
           /\ ~(log' = Append(log, e) /\ e.type \in StartTypes),
         (pc' \in {"start", "tool", "complete"}
            /\ job.action.kind \in WriteKinds) =>
           [action |-> job.action, obs |-> NoObs] \in reservations',
         pc' = "report" =>
           [action |-> job.action, obs |-> job'.obs] \in reservations',
         pc' \in {"complete", "report"} => job'.obs \in Results,
         \A r \in reservations' : r.obs # NoObs =>
           \/ r \in reservations
           \/ /\ r.action = job.action /\ r.obs \in Results
              /\ pc = "complete"
  PROVE  BegunInv'
<1>1. /\ BegunLog /\ BegunJob /\ TypedEdits /\ pc \in Executes
  BY DEF BegunInv
<1>2. /\ \A id, types : Has(log, id, types) => Has(log', id, types)
      /\ \A id : Has(log', id, TerminalTypes) => Has(log, id, TerminalTypes)
      /\ \A id \in Unresolved(log) : id \in Unresolved(log')
      /\ Started(log', job.action.id) =>
           \/ Started(log, job.action.id)
           \/ log' = Append(log, e) /\ e.type \in StartTypes
      /\ (log' = Append(log, e) /\ e.type \in StartTypes) =>
           Started(log', job.action.id)
      /\ Late(log') = {} /\ OnceProposed(log') /\ AsksOnly(log')
      /\ PendingApproval(log') = PendingApproval(log)
      /\ PendingApproval(log) # 0 => Asked(log') = Asked(log)
      /\ WaitsPlain(log') /\ Listed(log') \in Overlays
  BY ExecuteLogs
<1>3. PendingApproval(log) # 0 => Asked(log).kind \notin WriteKinds
  BY NoWriteWaits
<1>4. Started(log, job.action.id) => Started(log', job.action.id)
  BY <1>2 DEF Started
<1>5. BegunLog'
  <2>1. WaitingWrite'
    BY <1>2, <1>3 DEF WaitingWrite
  <2>2. ResultsBegan'
    <3>1. SUFFICES ASSUME NEW r \in reservations', r.obs # NoObs
                   PROVE  Started(log', r.action.id)
      BY DEF ResultsBegan
    <3>2. CASE r \in reservations
      <4>1. Started(log, r.action.id)
        BY <1>1, <3>1, <3>2 DEF BegunLog, ResultsBegan
      <4> QED BY <1>2, <4>1 DEF Started
    <3>3. CASE r.action = job.action /\ pc = "complete"
      <4>1. Started(log, job.action.id)
        BY <1>1, <3>3 DEF BegunJob
      <4> QED BY <1>4, <3>3, <4>1
    <3> QED BY <3>1, <3>2, <3>3
  <2> QED BY <1>2, <2>1, <2>2 DEF BegunLog
<1>6. TypedEdits'
  <2>1. pc' # "idle"
    BY DEF Executes
  <2>2. \A r \in reservations' : r.obs # NoObs => r.obs \in Results
    BY <1>1 DEF TypedEdits
  <2> QED BY <1>2, <2>1, <2>2 DEF TypedEdits
<1>7. (pc \in Executes /\ job.then = "advance") =>
        \/ job.action.kind \notin WriteKinds
        \/ pc' = "execute"
  <2>1. CASE pc # "execute"
    BY <1>1, <2>1 DEF BegunJob
  <2>2. CASE pc = "execute"
    <3>1. SUFFICES ASSUME job.then = "advance", job.action.kind \in WriteKinds
                   PROVE  FALSE
      OBVIOUS
    <3>2. job.action.kind \in SideEffects
      BY <3>1 DEF WriteKinds, SideEffects
    <3>3. Has(log, job.action.id, {"approval_granted"})
      BY <2>2, <3>2 DEF ValidGrant
    <3>4. ~Has(log, job.action.id, EventTypes \ {"decision_recorded"})
      BY <1>1, <2>2, <3>1 DEF BegunJob
    <3>5. {"approval_granted"} \subseteq EventTypes \ {"decision_recorded"}
      BY DEF EventTypes
    <3> QED BY <3>3, <3>4, <3>5, HasFewer
  <2> QED BY <2>1, <2>2
<1>8. pc' \in {"tool", "complete", "report"} => Started(log', job.action.id)
  BY <1>1, <1>2, <1>4 DEF BegunJob
<1>9. (/\ pc' \in {"execute", "ask", "reserve", "start"}
       /\ job.action.kind \in EditKinds /\ ~job.retry) =>
        ~Started(log', job.action.id)
  <2>1. SUFFICES ASSUME pc' \in {"ask", "reserve", "start"},
                        job.action.kind \in EditKinds, ~job.retry
                 PROVE  ~Started(log', job.action.id)
    OBVIOUS
  <2>2. ~Started(log, job.action.id)
    BY <1>1, <2>1 DEF BegunJob
  <2> QED BY <1>2, <2>1, <2>2
<1>10. job.retry => job.action.kind \notin SideEffects
  BY <1>1 DEF BegunJob
<1>11. job.action.kind \in {"propose_patch", "inspect_proposed_diff"} =>
         job.then \in {"advance", "resumed"}
  BY <1>1 DEF BegunJob
<1>12. job.action.kind = "propose_patch" =>
         ~Has(log', job.action.id, TerminalTypes)
  BY <1>1, <1>2 DEF BegunJob
<1>13. (job.action.kind \in WriteKinds /\ outsideEdits' = 0) =>
         job.action.id \in Unresolved(log')
  BY <1>1, <1>2 DEF BegunJob
<1>14. BegunJob'
  <2>1. pc' # "gate" /\ pc' # "execute"
    BY DEF Executes
  <2> QED BY <1>2, <1>7, <1>8, <1>9, <1>10, <1>11, <1>12, <1>13, <2>1
          DEF BegunJob
<1> QED BY <1>5, <1>6, <1>14 DEF BegunInv

LEMMA AuthorizedBegins ==
  ASSUME Base, Base', BegunInv, pc = "execute", job.action # NoAction,
         UNCHANGED <<reservations, job, outsideEdits>>,
         log' = Append(log, ActionEvent("action_authorized", job.action)),
         pc' \in {"ask", "reserve"},
         job.action.kind \notin SideEffects \/ ValidGrant(job.action)
  PROVE  BegunInv'
<1> DEFINE e == ActionEvent("action_authorized", job.action)
<1>1. e.action = job.action /\ e.type = "action_authorized" /\ IsJob(job)
      /\ log' = Append(log, e)
  BY EventFields, AtAnyPoint DEF Base
<1>2. e.type \notin StartTypes
  BY <1>1 DEF StartTypes
<1> HIDE DEF e
<1>3. pc \in Executes /\ pc' \in Executes \ {"execute"}
  BY DEF Executes
<1>4. ~job.retry
  BY DEF BegunInv, BegunJob
<1> QED BY <1>1, <1>2, <1>3, <1>4, ExecuteBegins

LEMMA AuthorizeReadBegins ==
  Base /\ Base' /\ BegunInv /\ AuthorizeRead => BegunInv'
BY AuthorizedBegins DEF AuthorizeRead, Executing, bounds

LEMMA StartBegins == Base /\ Base' /\ BegunInv /\ Start => BegunInv'
<1> SUFFICES ASSUME Base, Base', BegunInv, Start PROVE BegunInv'
  OBVIOUS
<1> DEFINE e == ActionEvent(IF job.retry THEN "action_recovery_started"
                            ELSE "action_started", job.action)
<1>1. /\ pc = "start" /\ job.action # NoAction /\ log' = Append(log, e)
      /\ pc' = "tool" /\ UNCHANGED <<reservations, job, outsideEdits>>
  BY DEF Start, Executing, bounds
<1>2. e.action = job.action /\ e.type \in StartTypes
  BY EventFields DEF StartTypes
<1> HIDE DEF e
<1>3. pc \in Executes /\ pc' \in Executes \ {"execute"}
  BY <1>1 DEF Executes
<1>4. job.action.kind \in WriteKinds =>
        [action |-> job.action, obs |-> NoObs] \in reservations
  BY <1>1 DEF BegunInv, BegunJob
<1> QED BY <1>1, <1>2, <1>3, <1>4, ExecuteBegins

LEMMA ToolBegins == Base /\ Base' /\ BegunInv /\ Tool => BegunInv'
<1> SUFFICES ASSUME Base, Base', BegunInv, Tool PROVE BegunInv'
  OBVIOUS
<1>1. /\ pc = "tool" /\ job.action # NoAction /\ pc' = "complete"
      /\ UNCHANGED <<log, reservations, outsideEdits>>
  BY DEF Tool, Executing, bounds
<1>2. IsJob(job)
  BY AtAnyPoint DEF Base
<1>3. PICK obs \in Results : job' = [job EXCEPT !.obs = obs]
  BY ToolReports DEF Base
<1>4. /\ job'.action = job.action /\ job'.then = job.then
      /\ job'.retry = job.retry /\ job'.obs = obs
  BY <1>2, <1>3 DEF IsJob
<1>5. pc \in Executes /\ pc' \in Executes \ {"execute"}
  BY <1>1 DEF Executes
<1>6. job.action.kind \in WriteKinds =>
        [action |-> job.action, obs |-> NoObs] \in reservations
  BY <1>1 DEF BegunInv, BegunJob
<1> QED BY <1>1, <1>3, <1>4, <1>5, <1>6, ExecuteBegins

LEMMA CompleteBegins == Base /\ Base' /\ BegunInv /\ Complete => BegunInv'
<1> SUFFICES ASSUME Base, Base', BegunInv, Complete PROVE BegunInv'
  OBVIOUS
<1> DEFINE new == [action |-> job.action, obs |-> job.obs]
<1>1. /\ pc = "complete" /\ job.action # NoAction /\ pc' = "report"
      /\ reservations' = (reservations \ Reserved(job.action)) \union {new}
      /\ UNCHANGED <<log, job, outsideEdits>>
  BY DEF Complete, Executing, bounds
<1>2. job.obs \in Results
  BY <1>1 DEF BegunInv, TypedEdits
<1>3. pc \in Executes /\ pc' \in Executes \ {"execute"}
  BY <1>1 DEF Executes
<1>4. new.action = job.action /\ new.obs = job.obs
  OBVIOUS
<1> QED BY <1>1, <1>2, <1>3, <1>4, ExecuteBegins

(* The action gets its reservation.                                        *)
LEMMA ReservedBegins ==
  ASSUME Base, Base', BegunInv, Reserve, Reserved(job.action) = {}
  PROVE  BegunInv'
<1> DEFINE new == [action |-> job.action, obs |-> NoObs]
<1>1. /\ pc = "reserve" /\ job.action # NoAction /\ pc' = "start"
      /\ reservations' = reservations \union {new}
      /\ UNCHANGED <<log, job, outsideEdits>>
  BY DEF Reserve, Executing, bounds
<1>2. pc \in Executes /\ pc' \in Executes \ {"execute"}
  BY <1>1 DEF Executes
<1>3. new.obs = NoObs
  OBVIOUS
<1> QED BY <1>1, <1>2, <1>3, ExecuteBegins

(* An action ends or has to wait, and the call goes on behind it.          *)
LEMMA EndsBegun ==
  ASSUME Base, Base', BegunInv, pc \in Executes, job.action # NoAction,
         NEW obs, Observe(obs), NEW e, log' = Append(log, e),
         e.action = job.action,
         e.type \in TerminalTypes \union WaitingTypes
                      \union {"action_recovery_required"},
         e.obs.report = "none" \/ (e.type \in TerminalTypes /\ e.obs \in Results),
         e.type = "input_required" => job.action.kind = "ask_user",
         UNCHANGED <<reservations, disk, outsideEdits>>, WaitingWrite'
  PROVE  BegunInv'
<1>1. /\ BegunLog /\ BegunJob /\ TypedEdits /\ Inv /\ KnowInv /\ LogsEvents(log)
      /\ Len(log) \in Nat /\ DOMAIN log = 1..Len(log) /\ IsJob(job)
      /\ LogsEvents(log') /\ ActionsOK(log') /\ LogOK' /\ LearntOK(log)
      /\ job.then \in ReturnsTo
  BY LogFacts, AtAnyPoint
     DEF BegunInv, Base, Inv, TypeInv, JobOK, IdInv, IdLog, LogOK, KnowInv, TrueLog
<1>2. pc' = job.then /\ ~job'.retry
  BY <1>1 DEF Observe, IsJob
<1>3. pc' \notin Executes \union {"gate", "complete", "report", "idle"}
  BY <1>1, <1>2 DEF ReturnsTo, Executes
<1>4. BegunJob'
  BY <1>2, <1>3, BegunAtRest
<1>5. \A id, types : Has(log', id, types) <=>
        \/ Has(log, id, types)
        \/ e.action # NoAction /\ e.action.id = id /\ e.type \in types
  BY <1>1, TracksGrow
<1>6. OnceProposed(log')
  <2>1. \A i \in DOMAIN log : log[i].type \in TerminalTypes =>
          log[i].action # NoAction
    BY <1>1 DEF LearntOK, Learnt, Observations
  <2>2. e.action.kind = "propose_patch" => ~Has(log, e.action.id, TerminalTypes)
    BY <1>1 DEF BegunJob
  <2> QED BY <1>1, <2>1, <2>2, OnceProposedGrows DEF BegunLog
<1>7. AsksOnly(log')
  <2>1. /\ DOMAIN log' = 1..(Len(log) + 1)
        /\ \A i \in 1..Len(log) : log'[i] = log[i]
        /\ log'[Len(log) + 1] = e
    BY <1>1, AppendGrows DEF LogsEvents
  <2>2. \A i \in 1..(Len(log) + 1) : i \in 1..Len(log) \/ i = Len(log) + 1
    BY <1>1
  <2>3. AsksOnly(log)
    BY <1>1 DEF BegunLog
  <2> QED BY <1>1, <2>1, <2>2, <2>3 DEF AsksOnly
<1>8. ResultsBegan'
  BY <1>1, <1>5 DEF BegunLog, ResultsBegan, Started
<1>9. WaitsPlain(log') /\ Listed(log') \in Overlays
  <2>1. Late(log) = {}
    BY <1>1 DEF BegunJob
  <2>2. e.type # "working_state_updated"
    BY DEF TerminalTypes, WaitingTypes
  <2>3. e.type \in WaitingTypes => e.obs.report = "none"
    BY DEF TerminalTypes, WaitingTypes
  <2> QED BY <1>1, <2>1, <2>2, <2>3, EventLists
<1>10. TypedEdits'
  BY <1>1, <1>3, <1>9 DEF TypedEdits
<1> QED BY <1>4, <1>6, <1>7, <1>8, <1>10 DEF BegunInv, BegunLog

(* A write that is asked for is not disturbed by what happens to another.  *)
LEMMA WaitsOn ==
  ASSUME Base, BegunInv, NEW e, log' = Append(log, e),
         e.type \notin StartTypes, e.type \notin Settling,
         e.type # "approval_required",
         UNCHANGED <<disk, outsideEdits>>,
         (PendingApproval(log) # 0 /\ outsideEdits = 0) =>
            Asked(log).kind \notin WriteKinds
  PROVE  WaitingWrite'
<1>1. LogsEvents(log)
  BY LogFacts DEF Base
<1>2. /\ PendingApproval(log') = PendingApproval(log)
      /\ PendingApproval(log) # 0 => Asked(log') = Asked(log)
  BY <1>1, PendingApprovalKept DEF Settling
<1>3. \A id, types : Has(log', id, types) <=>
        \/ Has(log, id, types)
        \/ e.action # NoAction /\ e.action.id = id /\ e.type \in types
  BY <1>1, TracksGrow
<1>4. WaitingWrite
  BY DEF BegunInv, BegunLog
<1> QED BY <1>2, <1>3, <1>4 DEF WaitingWrite, Started

LEMMA AskBegins == Base /\ Base' /\ BegunInv /\ Ask => BegunInv'
<1> SUFFICES ASSUME Base, Base', BegunInv, Ask PROVE BegunInv'
  OBVIOUS
<1> DEFINE e == Result("input_required", job.action, Plain("input_required"))
<1>1. /\ pc = "ask" /\ pc \in Executes /\ job.action # NoAction
      /\ log' = Append(log, e) /\ Observe(Plain("input_required"))
      /\ UNCHANGED <<reservations, disk, outsideEdits>>
  BY DEF Ask, Executing, Executes, bounds
<1>2. e.action = job.action /\ e.type = "input_required"
      /\ e.obs.report = "none"
  BY EventFields DEF Plain, Obs
<1> HIDE DEF e
<1>3. job.action.kind = "ask_user"
  BY <1>1 DEF Base, OpenInv
<1>4. e.type \notin StartTypes /\ e.type \notin Settling
      /\ e.type \in WaitingTypes
  BY <1>2 DEF StartTypes, Settling, WaitingTypes
<1>5. PendingApproval(log) # 0 => Asked(log).kind \notin WriteKinds
  BY <1>1, NoWriteWaits
<1>6. WaitingWrite'
  BY <1>1, <1>2, <1>4, <1>5, WaitsOn
<1> QED BY <1>1, <1>2, <1>3, <1>4, <1>6, EndsBegun

LEMMA ReportBegins == Base /\ Base' /\ BegunInv /\ Report => BegunInv'
<1> SUFFICES ASSUME Base, Base', BegunInv, Report PROVE BegunInv'
  OBVIOUS
<1> DEFINE e == Result(ReportType, job.action, job.obs)
<1>1. /\ pc = "report" /\ pc \in Executes /\ log' = Append(log, e)
      /\ job.action # NoAction /\ Observe(job.obs)
      /\ UNCHANGED <<reservations, disk, outsideEdits>>
  BY DEF Report, Executing, Executes, bounds
<1>2. e.action = job.action /\ e.type = ReportType /\ e.obs = job.obs
  BY EventFields
<1> HIDE DEF e
<1>3. ReportType \in {"action_recovered", "action_completed",
                      "action_conflict", "action_failed"}
  BY DEF ReportType
<1>4. /\ e.type \in TerminalTypes /\ e.type \notin StartTypes
      /\ e.type \notin Settling /\ e.type # "approval_required"
      /\ e.type # "input_required"
  BY <1>2, <1>3 DEF TerminalTypes, StartTypes, Settling
<1>5. PendingApproval(log) # 0 => Asked(log).kind \notin WriteKinds
  BY <1>1, NoWriteWaits
<1>6. WaitingWrite'
  BY <1>1, <1>4, <1>5, WaitsOn
<1>7. e.obs \in Results
  BY <1>1, <1>2 DEF BegunInv, TypedEdits
<1> QED BY <1>1, <1>2, <1>4, <1>6, <1>7, EndsBegun

(* The result that a reservation holds.                                    *)
LEMMA StoredIsAResult ==
  ASSUME Base, BegunInv, NEW a, Reserved(a) # {}
  PROVE  /\ \E r \in reservations : r.action.id = a.id /\ r.obs = StoredObs(a)
         /\ StoredObs(a) # NoObs =>
              StoredObs(a) \in Results /\ Started(log, a.id)
         /\ (\E r \in Reserved(a) : r.obs # NoObs) => StoredObs(a) # NoObs
<1> DEFINE q == CHOOSE r \in Reserved(a) : TRUE
<1>1. q \in Reserved(a) /\ StoredObs(a) = q.obs
  BY DEF StoredObs
<1> HIDE DEF q
<1>2. q \in reservations /\ q.action.id = a.id
  BY <1>1 DEF Reserved
<1>3. \A r \in Reserved(a) : r = q
  BY <1>2, AtAnyPoint DEF Base, StoreOK, Reserved
<1> QED BY <1>1, <1>2, <1>3 DEF BegunInv, BegunLog, ResultsBegan, TypedEdits

LEMMA ReserveBegins == Base /\ Base' /\ BegunInv /\ Reserve => BegunInv'
<1> SUFFICES ASSUME Base, Base', BegunInv, Reserve PROVE BegunInv'
  OBVIOUS
<1> DEFINE a == job.action
           obs == IF StoredObs(a) # NoObs THEN StoredObs(a)
                  ELSE Plain("recovery_required")
           type == IF StoredObs(a) # NoObs THEN "action_replayed"
                   ELSE "action_recovery_required"
           e == Result(type, a, obs)
<1>1. CASE Reserved(a) = {}
  BY <1>1, ReservedBegins
<1>2. CASE Reserved(a) # {}
  <2>1. /\ pc = "reserve" /\ pc \in Executes /\ a # NoAction
        /\ log' = Append(log, e) /\ Observe(obs)
        /\ UNCHANGED <<reservations, disk, outsideEdits>>
    BY <1>2 DEF Reserve, Executing, Executes, bounds
  <2>2. e.action = a /\ e.type = type /\ e.obs = obs
    BY EventFields
  <2>3. /\ type \notin StartTypes /\ type \notin Settling
        /\ type # "approval_required" /\ type # "input_required"
        /\ type \in TerminalTypes \union {"action_recovery_required"}
        /\ StoredObs(a) # NoObs => type \in TerminalTypes
    BY DEF TerminalTypes, StartTypes, Settling
  <2>4. \/ StoredObs(a) # NoObs /\ obs \in Results
        \/ obs.report = "none"
    BY <1>2, StoredIsAResult DEF Plain, Obs
  <2>5. PendingApproval(log) # 0 => Asked(log).kind \notin WriteKinds
    BY <2>1, NoWriteWaits
  <2> HIDE DEF e, obs, type
  <2>6. WaitingWrite'
    BY <2>1, <2>2, <2>3, <2>5, WaitsOn
  <2> QED BY <2>1, <2>2, <2>3, <2>4, <2>6, EndsBegun
<1> QED BY <1>1, <1>2

LEMMA AuthorizeSideEffectBegins ==
  Base /\ Base' /\ BegunInv /\ AuthorizeSideEffect => BegunInv'
<1> SUFFICES ASSUME Base, Base', BegunInv, AuthorizeSideEffect
             PROVE  BegunInv'
  OBVIOUS
<1> DEFINE a == job.action
           done == \E r \in Reserved(a) : r.obs # NoObs
           moved == a.kind = "apply_patch" /\ disk[a.path] # a.from
<1>1. /\ pc = "execute" /\ pc \in Executes /\ a # NoAction
      /\ a.kind \in SideEffects
      /\ UNCHANGED <<reservations, disk, outsideEdits>>
  BY DEF AuthorizeSideEffect, Executing, Executes, bounds
<1>2. LogsEvents(log) /\ WaitingWrite /\ BegunJob
  BY LogFacts DEF Base, BegunInv, BegunLog
<1>3. CASE ~Denied(a) /\ done
  <2> DEFINE e == Result("action_replayed", a, StoredObs(a))
  <2>1. log' = Append(log, e) /\ Observe(StoredObs(a))
    BY <1>3 DEF AuthorizeSideEffect
  <2>2. e.action = a /\ e.type = "action_replayed" /\ e.obs = StoredObs(a)
    BY EventFields
  <2> HIDE DEF e
  <2>3. StoredObs(a) \in Results /\ Started(log, a.id)
    BY <1>3, StoredIsAResult
  <2>4. PendingApproval(log) # 0 => Asked(log).kind \notin WriteKinds
    BY <1>1, <1>2, <2>3, AskedIsExecuted DEF WaitingWrite
  <2>5. /\ e.type \in TerminalTypes /\ e.type \notin StartTypes
        /\ e.type \notin Settling
    BY <2>2 DEF TerminalTypes, StartTypes, Settling
  <2>6. WaitingWrite'
    BY <1>1, <2>1, <2>2, <2>4, <2>5, WaitsOn
  <2> QED BY <1>1, <2>1, <2>2, <2>3, <2>5, <2>6, EndsBegun
<1>4. CASE ~Denied(a) /\ ~done /\ moved
  <2> DEFINE e == Result("action_conflict", a, Plain("conflict"))
  <2>1. log' = Append(log, e) /\ Observe(Plain("conflict"))
    BY <1>4 DEF AuthorizeSideEffect
  <2>2. e.action = a /\ e.type = "action_conflict" /\ e.obs.report = "none"
    BY EventFields DEF Plain, Obs
  <2> HIDE DEF e
  <2>3. (PendingApproval(log) # 0 /\ outsideEdits = 0) =>
           Asked(log).kind \notin WriteKinds
    BY <1>1, <1>2, <1>4, AskedIsExecuted DEF WaitingWrite
  <2>4. /\ e.type \in TerminalTypes /\ e.type \notin StartTypes
        /\ e.type \notin Settling
    BY <2>2 DEF TerminalTypes, StartTypes, Settling
  <2>5. WaitingWrite'
    BY <1>1, <2>1, <2>2, <2>3, <2>4, WaitsOn
  <2> QED BY <1>1, <2>1, <2>2, <2>4, <2>5, EndsBegun
<1>5. CASE ~Denied(a) /\ ~done /\ ~moved /\ ValidGrant(a)
  <2>1. /\ log' = Append(log, ActionEvent("action_authorized", a))
        /\ pc' = "reserve" /\ job' = job
    BY <1>5 DEF AuthorizeSideEffect
  <2> QED BY <1>1, <1>5, <2>1, AuthorizedBegins
<1>6. CASE ~Denied(a) /\ ~done /\ ~moved /\ ~ValidGrant(a)
  <2> DEFINE e == [Result("approval_required", a, Plain("approval_required"))
                     EXCEPT !.checkpoint = Checkpoint(a),
                            !.baseline = Baseline(a)]
  <2>1. log' = Append(log, e) /\ Observe(Plain("approval_required"))
    BY <1>6 DEF AuthorizeSideEffect
  <2>2. /\ e.type = "approval_required" /\ e.action = a
        /\ e.obs.report = "none"
    BY EventFields DEF Plain, Obs
  <2> HIDE DEF e
  <2>3. /\ e.type \notin TerminalTypes /\ e.type \notin StartTypes
        /\ e.type \in WaitingTypes
    BY <2>2 DEF TerminalTypes, StartTypes, WaitingTypes
  <2>4. Asked(log') = a
    BY <1>2, <2>1, <2>2, RequestIsAsked
  <2>5. /\ \A id, types : Has(log', id, types) <=>
             \/ Has(log, id, types)
             \/ e.action # NoAction /\ e.action.id = id /\ e.type \in types
        /\ \A id \in Unresolved(log) :
             \/ id \in Unresolved(log')
             \/ /\ e.action # NoAction /\ e.action.id = id
                /\ \/ e.type \in TerminalTypes
                   \/ e.type \in {"input_received", "approval_rejected"}
    BY <1>2, <2>1, TracksGrow
  <2>6. WaitingWrite'
    <3>1. SUFFICES ASSUME a.kind \in WriteKinds
                   PROVE  /\ ~Started(log', a.id)
                          /\ outsideEdits = 0 =>
                               /\ a.id \in Unresolved(log')
                               /\ a.kind = "apply_patch" =>
                                    disk[a.path] = a.from
      BY <1>1, <2>4 DEF WaitingWrite
    <3>2. a.kind \in EditKinds /\ ~job.retry
      BY <1>1, <1>2, <3>1 DEF EditKinds, BegunJob
    <3>3. ~Started(log, a.id)
      BY <1>1, <1>2, <3>2 DEF BegunJob
    <3>4. outsideEdits = 0 => a.id \in Unresolved(log)
      BY <1>1, <1>2, <3>1 DEF BegunJob
    <3> QED BY <1>6, <2>2, <2>3, <2>5, <3>3, <3>4 DEF Started
  <2> QED BY <1>1, <2>1, <2>2, <2>3, <2>6, EndsBegun
<1>7. CASE Denied(a)
  <2> DEFINE e == Result("action_denied", a, Plain("policy_denied"))
  <2>1. log' = Append(log, e) /\ Observe(Plain("policy_denied"))
    BY <1>7 DEF AuthorizeSideEffect
  <2>2. e.action = a /\ e.type = "action_denied" /\ e.obs.report = "none"
    BY EventFields DEF Plain, Obs
  <2> HIDE DEF e
  <2>3. PendingApproval(log) # 0 => Asked(log).kind \notin WriteKinds
    BY <1>1, <1>2, <1>7, AskedIsExecuted DEF Denied, WriteKinds
  <2>4. /\ e.type \in TerminalTypes /\ e.type \notin StartTypes
        /\ e.type \notin Settling
    BY <2>2 DEF TerminalTypes, StartTypes, Settling
  <2>5. WaitingWrite'
    BY <1>1, <2>1, <2>2, <2>3, <2>4, WaitsOn
  <2> QED BY <1>1, <2>1, <2>2, <2>4, <2>5, EndsBegun
<1> QED BY <1>3, <1>4, <1>5, <1>6, <1>7

LEMMA ExecuteStepBegins == Base /\ Base' /\ BegunInv /\ Execute => BegunInv'
BY AuthorizeReadBegins, AskBegins, AuthorizeSideEffectBegins, ReserveBegins,
   StartBegins, ToolBegins, CompleteBegins, ReportBegins DEF Execute

-----------------------------------------------------------------------------
(* The events that are logged between two executions.                      *)

LEMMA EventBegins ==
  ASSUME Base, Base', BegunInv, NEW e, log' = Append(log, e),
         e.type # "working_state_updated", e.type \notin WaitingTypes,
         e.type \in TerminalTypes =>
           /\ e.action # NoAction
           /\ e.obs \in Results \/ e.obs.report = "none"
           /\ ~Has(log, e.action.id, TerminalTypes),
         reservations' = reservations,
         pc' \notin {"complete", "report", "idle"}, WaitingWrite'
  PROVE  /\ BegunLog' /\ TypedEdits'
         /\ \A id, types : Has(log', id, types) <=>
              \/ Has(log, id, types)
              \/ e.action # NoAction /\ e.action.id = id /\ e.type \in types
<1>1. /\ BegunLog /\ TypedEdits /\ Inv /\ KnowInv /\ LogsEvents(log)
      /\ Len(log) \in Nat /\ DOMAIN log = 1..Len(log)
      /\ LogsEvents(log') /\ ActionsOK(log') /\ LogOK' /\ LearntOK(log)
  BY LogFacts DEF BegunInv, Base, Inv, TypeInv, IdInv, IdLog, LogOK, KnowInv,
                  TrueLog
<1>2. \A id, types : Has(log', id, types) <=>
        \/ Has(log, id, types)
        \/ e.action # NoAction /\ e.action.id = id /\ e.type \in types
  BY <1>1, TracksGrow
<1>3. OnceProposed(log')
  <2>1. \A i \in DOMAIN log : log[i].type \in TerminalTypes =>
          log[i].action # NoAction
    BY <1>1 DEF LearntOK, Learnt, Observations
  <2> QED BY <1>1, <2>1, OnceProposedGrows DEF BegunLog
<1>4. AsksOnly(log')
  <2>1. /\ DOMAIN log' = 1..(Len(log) + 1)
        /\ \A i \in 1..Len(log) : log'[i] = log[i]
        /\ log'[Len(log) + 1] = e
    BY <1>1, AppendGrows DEF LogsEvents
  <2>2. \A i \in 1..(Len(log) + 1) : i \in 1..Len(log) \/ i = Len(log) + 1
    BY <1>1
  <2>3. AsksOnly(log) /\ e.type # "input_required"
    BY <1>1 DEF BegunLog, WaitingTypes
  <2> QED BY <1>1, <2>1, <2>2, <2>3 DEF AsksOnly
<1>5. ResultsBegan'
  BY <1>1, <1>2 DEF BegunLog, ResultsBegan, Started
<1>6. WaitsPlain(log') /\ Listed(log') \in Overlays
  BY <1>1, EventLists
<1>7. TypedEdits'
  BY <1>1, <1>6 DEF TypedEdits
<1> QED BY <1>2, <1>3, <1>4, <1>5, <1>7 DEF BegunLog

(* The event names the open action that a call recovers.                   *)
LEMMA RecoveredResult ==
  ASSUME Base, BegunInv, Reconcile
  PROVE  LET a == ActionOf(log, Pending(log))
         IN  /\ log' = Append(log, Result("action_recovered", a, StoredObs(a)))
             /\ a \in Recorded(log) /\ a.id \in Unresolved(log)
             /\ ~Has(log, a.id, TerminalTypes) /\ Started(log, a.id)
             /\ StoredObs(a) \in Results
             /\ \E r \in reservations : r.action = a /\ r.obs = StoredObs(a)
<1> DEFINE a == ActionOf(log, Pending(log))
<1>1. /\ log' = Append(log, Result("action_recovered", a, StoredObs(a)))
      /\ Settled
  BY DEF Reconcile
<1>2. LogsEvents(log)
  BY LogFacts DEF Base
<1>3. Unresolved(log) # {} /\ \E r \in Reserved(a) : r.obs # NoObs
  BY <1>1 DEF Settled, PendingClass
<1>4. /\ Pending(log) \in Unresolved(log) /\ a.id = Pending(log)
      /\ a # NoAction /\ \E i \in DOMAIN log : log[i].action = a
  BY <1>2, <1>3, PendingInLog
<1> HIDE DEF a
<1>5. a \in Recorded(log)
  BY <1>4 DEF Recorded
<1>6. ~Has(log, a.id, TerminalTypes)
  BY <1>4 DEF Unresolved
<1>7. /\ \E r \in reservations : r.action.id = a.id /\ r.obs = StoredObs(a)
      /\ StoredObs(a) \in Results /\ Started(log, a.id)
  BY <1>3, StoredIsAResult
<1>8. \E r \in reservations : r.action = a /\ r.obs = StoredObs(a)
  <2>1. IsKnown(log, a)
    BY <1>5 DEF IsKnown
  <2> QED BY <1>4, <1>7, <2>1, SameAction DEF Base
<1> QED BY <1>1, <1>4, <1>5, <1>6, <1>7, <1>8 DEF a

LEMMA ReconcileBegins == Base /\ Base' /\ BegunInv /\ Reconcile => BegunInv'
<1> SUFFICES ASSUME Base, Base', BegunInv, Reconcile PROVE BegunInv'
  OBVIOUS
<1> DEFINE a == ActionOf(log, Pending(log))
           obs == StoredObs(a)
           e == Result("action_recovered", a, obs)
<1>1. /\ log' = Append(log, e) /\ a \in Recorded(log) /\ a.id \in Unresolved(log)
      /\ ~Has(log, a.id, TerminalTypes) /\ Started(log, a.id)
      /\ obs \in Results
  BY RecoveredResult
<1>2. /\ pc = "recover" /\ pc' = pc /\ job' = job
      /\ UNCHANGED <<reservations, disk, outsideEdits>>
  BY DEF Reconcile, bounds
<1>3. e.action = a /\ e.type = "action_recovered" /\ e.obs = obs
  BY EventFields
<1> HIDE DEF e, a, obs
<1>4. /\ e.type \in TerminalTypes /\ e.type \notin StartTypes
      /\ e.type \notin Settling /\ e.type \notin WaitingTypes
      /\ e.type # "working_state_updated"
  BY <1>3 DEF TerminalTypes, StartTypes, Settling, WaitingTypes
<1>5. PendingApproval(log) # 0 => Asked(log).kind \notin WriteKinds
  BY <1>1 DEF BegunInv, BegunLog, WaitingWrite, Base, OpenInv, OpenLog
<1>6. WaitingWrite'
  BY <1>1, <1>2, <1>3, <1>4, <1>5, WaitsOn
<1>7. a # NoAction
  BY <1>1 DEF Recorded
<1>8. pc' \notin {"complete", "report", "idle"}
  BY <1>2
<1>9. BegunLog' /\ TypedEdits'
  BY <1>1, <1>2, <1>3, <1>4, <1>6, <1>7, <1>8, EventBegins
<1>10. BegunJob'
  BY <1>2, BegunAtRest DEF BegunInv, BegunJob, Executes
<1> QED BY <1>9, <1>10 DEF BegunInv

(* No event has the id of a decision that is taken now.                    *)
LEMMA DecisionIsNew ==
  ASSUME Inv, IdInv, Ahead(log) = {}, NEW id,
         id = <<"explore", Iteration(log) + 1>>, NEW b \in Recorded(log)
  PROVE  b.id # id
<1>1. SUFFICES ASSUME b.id = id PROVE FALSE
  OBVIOUS
<1>2. /\ LogsEvents(log) /\ SnapshotsOK(log) /\ IdLog(log)
      /\ Iteration(log) \in Nat
  BY LogFacts, LatestIsState
<1>3. IsDecided(b) \/ IsDerived(b)
  BY <1>2 DEF IdLog, ActionsOK
<1>4. Number(b) = Iteration(log) + 1
  BY <1>1 DEF Number
<1>5. IsDecided(b)
  BY <1>1, <1>2, <1>4 DEF IsDecided
<1>6. b \in Ahead(log)
  BY <1>2, <1>4, <1>5 DEF Ahead
<1> QED BY <1>6

LEMMA NothingWaits ==
  ASSUME PendingApproval(log') = 0
  PROVE  WaitingWrite'
BY DEF WaitingWrite

LEMMA DecideBegins == Base /\ Base' /\ BegunInv /\ Decide => BegunInv'
<1> SUFFICES ASSUME Base, Base', BegunInv, Decide PROVE BegunInv'
  OBVIOUS
<1>1. PICK a \in DecidedActions, u \in Offered :
        /\ log' = Append(log, [ActionEvent("decision_recorded", a)
                                 EXCEPT !.update = u])
        /\ job' = [job EXCEPT !.action = a, !.update = u]
  BY DEF Decide
<1> DEFINE e == [ActionEvent("decision_recorded", a) EXCEPT !.update = u]
<1>2. e.action = a /\ e.type = "decision_recorded" /\ log' = Append(log, e)
  BY <1>1, EventFields
<1> HIDE DEF e
<1>3. /\ pc = "step" /\ pc' = "gate" /\ LogsEvents(log) /\ IsJob(job)
      /\ UNCHANGED <<reservations, disk, outsideEdits>>
      /\ LatestState(log).iteration \in Nat
      /\ Len(log) \in Nat /\ DOMAIN log = 1..Len(log)
  BY LogFacts, LatestIsState DEF Decide, Base, bounds, Iteration
<1>4. /\ job'.action = a /\ job'.retry = job.retry /\ ~job.retry
  BY <1>1, <1>3 DEF IsJob, BegunInv, BegunJob
<1>5. /\ Ahead(log) = {} /\ job.state.iteration = Iteration(log)
      /\ Iteration(log) \in Nat
  BY <1>3 DEF Base, IdInv, HoldsState, Iteration
<1>6. a # NoAction /\ a.id = <<"explore", Iteration(log) + 1>>
  BY <1>5, DecisionFits
<1>7. \A b \in Recorded(log) : b.id # a.id
  BY <1>5, <1>6, DecisionIsNew DEF Base
<1>8. \A types : ~Has(log, a.id, types)
  BY <1>7 DEF Has, Of, Recorded
<1>9. e.type \notin WaitingTypes /\ e.type \notin TerminalTypes
      /\ e.type # "working_state_updated"
  BY <1>2 DEF WaitingTypes, TerminalTypes
<1>10. PendingApproval(log) = 0
  BY <1>3 DEF Base, OpenInv, NothingOpen
<1>11. WaitingWrite'
  <2>1. PendingApproval(log') = 0
    BY <1>2, <1>3, <1>10, PendingApprovalKept
  <2> QED BY <2>1, NothingWaits
<1>12. /\ BegunLog' /\ TypedEdits'
       /\ \A id, types : Has(log', id, types) <=>
            \/ Has(log, id, types)
            \/ e.action # NoAction /\ e.action.id = id /\ e.type \in types
  <2>1. pc' \notin {"complete", "report", "idle"}
    BY <1>3
  <2> QED BY <1>2, <1>3, <1>9, <1>11, <2>1, EventBegins
<1>13. BegunJob'
  <2>1. ~Has(log', a.id, EventTypes \ {"decision_recorded"})
    BY <1>2, <1>8, <1>12
  <2>2. /\ pc' \notin Executes /\ pc' # "execute"
        /\ pc' \notin {"tool", "complete", "report"}
        /\ pc' \notin {"execute", "ask", "reserve", "start"}
        /\ pc' \notin {"start", "tool", "complete"}
        /\ pc' \notin Executes \ {"execute"}
    BY <1>3 DEF Executes
  <2> QED BY <1>3, <1>4, <2>1, <2>2 DEF BegunJob
<1> QED BY <1>12, <1>13 DEF BegunInv

LEMMA GateBegins == Base /\ Base' /\ BegunInv /\ Gate => BegunInv'
<1> SUFFICES ASSUME Base, Base', BegunInv, Gate PROVE BegunInv'
  OBVIOUS
<1> DEFINE a == job.action
           blocked == FinishBlocked(a)
           refused == a.kind \in WriteKinds
                        /\ (WriteConflict(a) \/ RepeatedRepair(a))
           obs == Plain(IF blocked THEN "acceptance_incomplete" ELSE "conflict")
           type == IF blocked THEN "finish_blocked" ELSE "action_conflict"
           e == Result(type, a, obs)
<1>1. /\ pc = "gate" /\ a \in Recorded(log) /\ a # NoAction /\ IsJob(job)
      /\ LogsEvents(log) /\ UNCHANGED <<reservations, disk, outsideEdits>>
  BY LogFacts DEF Gate, Base, KnowInv, KnowsActions, Recorded, bounds
<1>2. ~Has(log, a.id, EventTypes \ {"decision_recorded"}) /\ ~job.retry
  BY <1>1 DEF BegunInv, BegunJob
<1>3. /\ TerminalTypes \subseteq EventTypes \ {"decision_recorded"}
      /\ StartTypes \subseteq EventTypes \ {"decision_recorded"}
      /\ {"input_received", "approval_rejected"} \subseteq
            EventTypes \ {"decision_recorded"}
  BY DEF EventTypes, TerminalTypes, StartTypes
<1>4. /\ ~Has(log, a.id, TerminalTypes) /\ ~Has(log, a.id, StartTypes)
      /\ ~Has(log, a.id, {"input_received", "approval_rejected"})
  <2> HIDE DEF a
  <2> QED BY <1>2, <1>3, HasFewer
<1>5. PendingApproval(log) = 0
  BY <1>1 DEF Base, OpenInv
<1>6. CASE blocked \/ refused
  <2>1. /\ log' = Append(log, e) /\ pc' = "advance"
        /\ job' = [job EXCEPT !.obs = obs]
    BY <1>6 DEF Gate
  <2>2. e.action = a /\ e.type = type /\ e.obs.report = "none"
    BY EventFields DEF Plain, Obs
  <2>3. ~job'.retry
    BY <1>1, <1>2, <2>1 DEF IsJob
  <2> HIDE DEF obs, e
  <2>4. /\ e.type \in TerminalTypes /\ e.type \notin WaitingTypes
        /\ e.type # "working_state_updated"
        /\ e.type \notin {"approval_required", "approval_granted",
                          "approval_rejected"}
    BY <2>2 DEF TerminalTypes, WaitingTypes
  <2>5. WaitingWrite'
    <3>1. PendingApproval(log') = 0
      BY <1>1, <1>5, <2>1, <2>4, PendingApprovalKept
    <3> QED BY <3>1, NothingWaits
  <2>6. pc' \notin {"complete", "report", "idle"}
    BY <2>1
  <2>7. BegunLog' /\ TypedEdits'
    BY <1>1, <1>4, <2>1, <2>2, <2>4, <2>5, <2>6, EventBegins
  <2>8. pc' \notin Executes \union {"gate"}
    BY <2>1 DEF Executes
  <2> QED BY <2>3, <2>7, <2>8, BegunAtRest DEF BegunInv
<1>7. CASE ~(blocked \/ refused)
  <2>1. /\ log' = log /\ pc' = "execute" /\ overlay' = overlay
        /\ job'.action = a /\ job'.then = "advance" /\ job'.retry = job.retry
    BY <1>1, <1>7 DEF Gate, IsJob
  <2>2. Late(log) = {}
    BY <1>1 DEF Base, KnowInv, Learned
  <2>3. a.id \in Unresolved(log)
    <3>1. a.id \in Tracked(log)
      BY <1>1 DEF Tracked, Recorded
    <3> QED BY <1>4, <3>1 DEF Unresolved
  <2> HIDE DEF a
  <2>4. BegunJob'
    BY <1>2, <1>4, <2>1, <2>2, <2>3 DEF BegunJob, Started
  <2>5. TypedEdits'
    BY <1>1, <2>1 DEF BegunInv, TypedEdits
  <2>6. BegunLog'
    BY <1>1, <2>1 DEF BegunInv, BegunLog, ResultsBegan, WaitingWrite
  <2> QED BY <2>4, <2>5, <2>6 DEF BegunInv
<1> QED BY <1>6, <1>7

LEMMA CallRetry ==
  ASSUME NEW name, NEW point, NEW a, NEW then, Call(name, point, a, then)
  PROVE  /\ ~job'.retry
         /\ UNCHANGED <<reservations, disk, overlay, outsideEdits>>
<1>1. IsJob(Job(name)) /\ ~Job(name).retry
  BY NoJobFields DEF Job
<1> QED BY <1>1 DEF Call, IsJob

(* A question is asked by the action of its event.                         *)
LEMMA QuestionAsks ==
  ASSUME NEW l, LogsEvents(l), AsksOnly(l), PendingInput(l) # NoAction
  PROVE  PendingInput(l).kind = "ask_user"
<1> DEFINE asked == Events({"input_required"}, l)
           n == Newest(asked)
<1>1. asked # {} /\ PendingInput(l) = l[n].action
  BY DEF PendingInput
<1>2. Len(l) \in Nat /\ DOMAIN l = 1..Len(l) /\ asked \subseteq 1..Len(l)
  BY LogIsCharged DEF Events
<1>3. n \in asked
  <2> HIDE DEF asked
  <2> QED BY <1>1, <1>2, NewestIsLast
<1>4. n \in DOMAIN l /\ l[n].type = "input_required"
  BY <1>3 DEF Events
<1> QED BY <1>1, <1>4 DEF AsksOnly

LEMMA AnswerBegins == Base /\ Base' /\ BegunInv /\ Answer => BegunInv'
<1> SUFFICES ASSUME Base, Base', BegunInv, Answer PROVE BegunInv'
  OBVIOUS
<1> DEFINE q == run.question
<1>1. PICK answer \in Answers :
        \/ log' = log
        \/ /\ q = PendingInput(log)
           /\ log' = Append(log, [ActionEvent("input_received", q)
                                    EXCEPT !.answer = answer])
  BY DEF Answer
<1> DEFINE e == [ActionEvent("input_received", q) EXCEPT !.answer = answer]
<1>2. q # NoAction /\ Call("answer", "answered", q, "idle")
  BY DEF Answer
<1>3. /\ pc' = "answered" /\ ~job'.retry /\ LogsEvents(log)
      /\ UNCHANGED <<reservations, disk, overlay, outsideEdits>>
  BY <1>2, CallFields, CallRetry, LogFacts DEF Base
<1>4. BegunJob'
  BY <1>3, BegunAtRest DEF Executes
<1>5. CASE log' = log
  <2>1. BegunLog' /\ TypedEdits'
    BY <1>3, <1>5 DEF BegunInv, BegunLog, ResultsBegan, WaitingWrite,
                      TypedEdits
  <2> QED BY <1>4, <2>1 DEF BegunInv
<1>6. CASE q = PendingInput(log) /\ log' = Append(log, e)
  <2>1. q \in Recorded(log) /\ q.kind = "ask_user"
    BY <1>2, <1>3, <1>6, PendingInputWaits, QuestionAsks
    DEF BegunInv, BegunLog
  <2>2. e.type = "input_received" /\ e.action = q
    BY EventFields
  <2> HIDE DEF e, q
  <2>3. /\ e.type \notin WaitingTypes \union TerminalTypes \union StartTypes
        /\ e.type \notin {"approval_required", "approval_granted",
                          "approval_rejected", "working_state_updated"}
    BY <2>2 DEF WaitingTypes, TerminalTypes, StartTypes
  <2>4. WaitingWrite'
    <3>1. /\ PendingApproval(log') = PendingApproval(log)
          /\ PendingApproval(log) # 0 => Asked(log') = Asked(log)
      BY <1>3, <1>6, <2>3, PendingApprovalKept
    <3>2. SUFFICES ASSUME PendingApproval(log) # 0,
                          Asked(log).kind \in WriteKinds
                   PROVE  /\ ~Started(log', Asked(log).id)
                          /\ outsideEdits = 0 =>
                               /\ Asked(log).id \in Unresolved(log')
                               /\ Asked(log).kind = "apply_patch" =>
                                    disk[Asked(log).path] = Asked(log).from
      BY <1>3, <3>1 DEF WaitingWrite
    <3>3. /\ ~Started(log, Asked(log).id)
          /\ outsideEdits = 0 =>
               /\ Asked(log).id \in Unresolved(log)
               /\ Asked(log).kind = "apply_patch" =>
                    disk[Asked(log).path] = Asked(log).from
      BY <3>2 DEF BegunInv, BegunLog, WaitingWrite
    <3>4. Asked(log) \in Recorded(log)
      BY <1>3, <3>2, AskedIsRecorded DEF Base, IdInv, IdLog
    <3>5. q.id # Asked(log).id
      <4>1. ActionsOK(log) /\ "ask_user" \notin WriteKinds
        BY DEF Base, IdInv, IdLog, WriteKinds
      <4> QED BY <2>1, <3>2, <3>4, <4>1 DEF ActionsOK
    <3>6. /\ ~Started(log', Asked(log).id)
          /\ Asked(log).id \in Unresolved(log) =>
               Asked(log).id \in Unresolved(log')
      BY <1>3, <1>6, <2>2, <2>3, <3>3, <3>5, TracksGrow DEF Started
    <3> QED BY <3>3, <3>6
  <2>5. BegunLog' /\ TypedEdits'
    <3>1. pc' \notin {"complete", "report", "idle"}
      BY <1>3
    <3> QED BY <1>3, <1>6, <2>3, <2>4, <3>1, EventBegins
  <2> QED BY <1>4, <2>5 DEF BegunInv
<1> QED BY <1>1, <1>5, <1>6

LEMMA RejectBegins == Base /\ Base' /\ BegunInv /\ Reject => BegunInv'
<1> SUFFICES ASSUME Base, Base', BegunInv, Reject PROVE BegunInv'
  OBVIOUS
<1> DEFINE a == PendingApprovalAction
           e == [ActionEvent("approval_rejected", a)
                   EXCEPT !.checkpoint = run.checkpoint]
<1>1. /\ OfferedPending /\ Call("reject", "rejected", NoAction, "idle")
      /\ log' = Append(log, e)
  BY DEF Reject
<1>2. e.type = "approval_rejected" /\ e.action = a
      /\ e.checkpoint = run.checkpoint
  BY EventFields
<1> HIDE DEF e
<1>3. /\ pc' = "rejected" /\ ~job'.retry /\ LogsEvents(log)
      /\ UNCHANGED <<reservations, disk, overlay, outsideEdits>>
  BY <1>1, CallFields, CallRetry, LogFacts DEF Base
<1>4. PendingApproval(log') = 0
  BY <1>1, <1>2, SettlementOpens DEF Settling, Base
<1>5. e.type \notin WaitingTypes \union TerminalTypes
      /\ e.type # "working_state_updated"
  BY <1>2 DEF WaitingTypes, TerminalTypes
<1>6. BegunLog' /\ TypedEdits'
  <2>1. pc' \notin {"complete", "report", "idle"} /\ WaitingWrite'
    BY <1>3, <1>4, NothingWaits
  <2> QED BY <1>1, <1>3, <1>5, <2>1, EventBegins
<1>7. BegunJob'
  BY <1>3, BegunAtRest DEF Executes
<1> QED BY <1>6, <1>7 DEF BegunInv

LEMMA ApproveBegins == Base /\ Base' /\ BegunInv /\ Approve => BegunInv'
<1> SUFFICES ASSUME Base, Base', BegunInv, Approve PROVE BegunInv'
  OBVIOUS
<1> DEFINE a == PendingApprovalAction
           e == [ActionEvent("approval_granted", a)
                   EXCEPT !.checkpoint = run.checkpoint]
           then == IF a.kind = "validate" THEN "validated" ELSE "written"
<1>1. /\ OfferedPending /\ Call("approve", "execute", a, then)
      /\ log' = Append(log, e)
  BY DEF Approve
<1>2. e.type = "approval_granted" /\ e.action = a
      /\ e.checkpoint = run.checkpoint
  BY EventFields
<1>3. then \notin {"advance", "resumed"}
  OBVIOUS
<1> HIDE DEF e, then
<1>4. /\ PendingApproval(log) # 0 /\ a = Asked(log)
      /\ a \in Recorded(log) /\ a.kind \in SideEffects
  BY <1>1, PendingRequestWaits
  DEF Base, OfferedPending, PendingApprovalAction, Requests, Asked
<1> HIDE DEF a
<1>5. /\ pc' = "execute" /\ job'.action = a /\ job'.then = then
      /\ ~job'.retry /\ LogsEvents(log)
      /\ UNCHANGED <<reservations, disk, overlay, outsideEdits>>
  BY <1>1, CallFields, CallRetry, LogFacts DEF Base
<1>6. PendingApproval(log') = 0
  BY <1>1, <1>2, SettlementOpens DEF Settling, Base, a
<1>7. /\ e.type \notin WaitingTypes \union TerminalTypes \union StartTypes
      /\ e.type # "working_state_updated"
      /\ e.type \notin {"input_received", "approval_rejected"}
  BY <1>2 DEF WaitingTypes, TerminalTypes, StartTypes
<1>8. /\ BegunLog' /\ TypedEdits'
      /\ \A id, types : Has(log', id, types) <=>
           \/ Has(log, id, types)
           \/ e.action # NoAction /\ e.action.id = id /\ e.type \in types
  <2>1. pc' \notin {"complete", "report", "idle"} /\ WaitingWrite'
    BY <1>5, <1>6, NothingWaits
  <2> QED BY <1>1, <1>5, <1>7, <2>1, EventBegins
<1>9. Late(log') = {}
  BY <1>3, <1>5 DEF Base, KnowInv, Learned, Executes
<1>10. a.kind \in WriteKinds => ~Started(log', a.id)
  BY <1>4, <1>7, <1>8 DEF BegunInv, BegunLog, WaitingWrite, Started
<1>11. (a.kind \in WriteKinds /\ outsideEdits = 0) =>
         a.id \in Unresolved(log')
  <2>1. (a.kind \in WriteKinds /\ outsideEdits = 0) =>
          a.id \in Unresolved(log)
    BY <1>4 DEF BegunInv, BegunLog, WaitingWrite
  <2> QED BY <1>1, <1>5, <1>7, <2>1, TracksGrow
<1>12. a.kind \notin {"propose_patch", "inspect_proposed_diff"}
  BY <1>4 DEF SideEffects, WriteKinds
<1>13. BegunJob'
  BY <1>3, <1>5, <1>9, <1>10, <1>11, <1>12 DEF BegunJob, EditKinds
<1> QED BY <1>8, <1>13 DEF BegunInv

LEMMA OutsideBegins ==
  BegunInv /\ outsideEdits \in Nat /\ OutsideEdit => BegunInv'
<1> SUFFICES ASSUME BegunInv, outsideEdits \in Nat, OutsideEdit
             PROVE  BegunInv'
  OBVIOUS
<1>1. UNCHANGED <<log, reservations, overlay, pc, job>>
  BY DEF OutsideEdit
<1>2. outsideEdits' # 0
  BY DEF OutsideEdit
<1>3. BegunLog'
  BY <1>1, <1>2 DEF BegunInv, BegunLog, ResultsBegan, WaitingWrite
<1>4. BegunJob'
  BY <1>1, <1>2 DEF BegunInv, BegunJob
<1>5. TypedEdits'
  BY <1>1 DEF BegunInv, TypedEdits
<1> QED BY <1>3, <1>4, <1>5 DEF BegunInv

LEMMA SameBegins == BegunInv /\ UNCHANGED vars => BegunInv'
<1> SUFFICES ASSUME BegunInv, UNCHANGED vars PROVE BegunInv'
  OBVIOUS
<1>1. UNCHANGED <<log, reservations, disk, overlay, pc, job, outsideEdits>>
  BY DEF vars, bounds
<1>2. BegunLog'
  BY <1>1 DEF BegunInv, BegunLog, ResultsBegan, WaitingWrite
<1>3. BegunJob'
  BY <1>1 DEF BegunInv, BegunJob
<1>4. TypedEdits'
  BY <1>1 DEF BegunInv, TypedEdits
<1> QED BY <1>2, <1>3, <1>4 DEF BegunInv

(* A new run lists nothing.                                                *)
LEMMA NothingListed ==
  ASSUME Inv, IdInv, KnowInv, log = <<>>
  PROVE  Listed(log) = NoEdits /\ LatestState(log) = CreateState
<1>1. Late(log) = {} /\ LatestState(log) = CreateState
  <2>1. Len(log) = 0 /\ DOMAIN log = {}
    OBVIOUS
  <2>2. SnapshotAt(log) = 0
    BY <2>1 DEF SnapshotAt
  <2> QED BY <2>1, <2>2 DEF Late, LatestState
<1>2. CreateState.edits = NoEdits
  BY DEF CreateState
<1> QED BY <1>1, <1>2, LearnedIsListed

LEMMA InitBegins == Init => BegunInv
<1> SUFFICES ASSUME Init PROVE BegunInv
  OBVIOUS
<1>1. /\ log = <<>> /\ reservations = {} /\ pc = "idle" /\ job = NoJob
      /\ overlay = NoEdits
  BY DEF Init
<1>2. Listed(log) = NoEdits
  BY <1>1, InitHolds, InitIds, InitKnows, NothingListed
<1>3. PendingApproval(log) = 0
  BY <1>1 DEF PendingApproval, Events
<1>4. BegunLog
  BY <1>1, <1>3
  DEF BegunLog, OnceProposed, AsksOnly, ResultsBegan, WaitingWrite
<1>5. ~job.retry
  BY <1>1, NoJobFields DEF NoJob, Job
<1>6. BegunJob
  BY <1>1, <1>5 DEF BegunJob, Executes
<1>7. NoEdits \in Overlays
  BY EntriesAreEdits
<1>8. TypedEdits
  BY <1>1, <1>2, <1>7 DEF TypedEdits, WaitsPlain
<1> QED BY <1>4, <1>6, <1>8 DEF BegunInv

LEMMA NextBegins ==
  Base /\ Base' /\ outsideEdits \in Nat /\ BegunInv /\ [Next]_vars => BegunInv'
<1> SUFFICES ASSUME Base, Base', outsideEdits \in Nat, BegunInv, [Next]_vars
             PROVE  BegunInv'
  OBVIOUS
<1>1. CASE Execute
  BY <1>1, ExecuteStepBegins
<1>2. CASE Recording
  BY <1>2, RecordingBegins
<1>3. CASE Reconcile \/ Decide \/ Gate
  BY <1>3, ReconcileBegins, DecideBegins, GateBegins
<1>4. CASE Answer \/ Approve \/ Reject
  BY <1>4, AnswerBegins, ApproveBegins, RejectBegins
<1>5. CASE OutsideEdit
  BY <1>5, OutsideBegins
<1>6. CASE UNCHANGED vars
  BY <1>6, SameBegins
<1> QED BY <1>1, <1>2, <1>3, <1>4, <1>5, <1>6
        DEF Next, Progress, Loop, Continue, UserCall, Recording

LEMMA OutsideIsCounted == Spec => [](outsideEdits \in Nat)
<1>1. Init => outsideEdits \in Nat
  BY DEF Init
<1>2. outsideEdits \in Nat /\ [Next]_vars => (outsideEdits \in Nat)'
  <2> SUFFICES ASSUME outsideEdits \in Nat, [Next]_vars
               PROVE  outsideEdits' \in Nat
    OBVIOUS
  <2>1. outsideEdits' = outsideEdits \/ outsideEdits' = outsideEdits + 1
    <3>1. CASE Execute
      BY <3>1 DEF Execute, AuthorizeRead, Ask, AuthorizeSideEffect, Reserve,
                  Start, Tool, Complete, Report, bounds
    <3>2. CASE Loop
      BY <3>2 DEF Loop, Reconcile, Recover, ResumePending, Resumed, EnterLoop,
                  Decide, DecisionFails, LimitReached, Gate, AdvanceState,
                  EndLoop, bounds
    <3>3. CASE Continue
      BY <3>3 DEF Continue, Answered, RejectedState, Written, Diffed,
                  CloseWrite, Requested, Validated, Observed, bounds
    <3>4. CASE UserCall
      BY <3>4 DEF UserCall, Answer, Approve, Reject, RestoreQuestion, Cancel,
                  Call, bounds
    <3>5. CASE StartLoop \/ ResumeLoop \/ Crash \/ OutsideEdit
               \/ UNCHANGED vars
      BY <3>5 DEF StartLoop, ResumeLoop, Crash, OutsideEdit, vars, bounds
    <3> QED BY <3>1, <3>2, <3>3, <3>4, <3>5 DEF Next, Progress
  <2> QED BY <2>1
<1> QED BY <1>1, <1>2, PTL DEF Spec

LEMMA BegunHolds == Spec => [](Base /\ outsideEdits \in Nat /\ BegunInv)
<1>1. Init => BegunInv
  BY InitBegins
<1>2. Base /\ Base' /\ outsideEdits \in Nat /\ BegunInv /\ [Next]_vars
        => BegunInv'
  BY NextBegins
<1>3. Spec => []Base
  BY OpenInvHolds DEF Base
<1> QED BY <1>1, <1>2, <1>3, OutsideIsCounted, PTL DEF Spec

-----------------------------------------------------------------------------
(* The overlay, the files and the proposals.                               *)

(* A write may have changed the file while the log does not tell yet.      *)
MayHaveWritten(r) ==
  IF pc = "complete" /\ r.action.id = job.action.id
  THEN job.obs.report = "written"
  ELSE /\ ~(pc = "tool" /\ r.action.id = job.action.id)
       /\ r.obs = NoObs \/ r.obs.report = "written"
Changing(p) ==
  \E r \in reservations :
    /\ r.action.kind \in WriteKinds /\ r.action.path = p
    /\ r.action.id \in Unresolved(log) /\ Started(log, r.action.id)
    /\ MayHaveWritten(r)

(* Where the overlay of the call matters, and where it was just restored.  *)
Live ==
  \/ pc \in {"recover", "resume", "wait", "step", "gate", "advance", "resumed"}
  \/ pc \in Executes /\ job.then \in {"advance", "resumed"}
Reporting == pc \in {"complete", "report"}
Restoring ==
  \/ pc \in {"recover", "resume"}
  \/ pc \in Executes \ {"complete", "report"} /\ job.then = "resumed"

(* The content that the last proposal leads to, one in execution included. *)
Proposing(p) == /\ Reporting
                /\ job.action.kind = "propose_patch" /\ job.action.path = p
                /\ job.obs.status = "completed"
Now(p) == IF Proposing(p) THEN job.action.to ELSE Standing(log, p)

(* An edit shows the way from the file to the content that stands.         *)
Shows(edit, p) ==
  edit.status # "conflict" =>
    IF Standing(log, p) = disk[p] THEN edit = NoEdit
    ELSE edit.base = disk[p] /\ edit.current = Standing(log, p)

FilesFollow ==
  \A p \in Paths : ~Changing(p) =>
    disk[p] \in Visited(log, p) /\ Shows(Listed(log)[p], p)
OverlayFollows ==
  Live => \A p \in Paths :
    /\ overlay[p].base = disk[p] => /\ Now(p) # disk[p]
                                    /\ overlay[p].current = Now(p)
    /\ (~Changing(p) /\ overlay[p].base # disk[p]) => Now(p) = disk[p]
RestoredFollows ==
  Restoring => \A p \in Paths : overlay[p] = NoEdit \/ overlay[p].base = disk[p]

(* What a tool has reported, in the call and in the store.                 *)
ProposalReported ==
  (Reporting /\ job.action.kind = "propose_patch") =>
    IF job.obs.status = "completed"
    THEN LET p == job.action.path
         IN  /\ job.action.from = Standing(log, p)
             /\ IF job.action.to = disk[p] THEN job.obs.report = "removed"
                ELSE /\ job.obs.report = "proposed"
                     /\ job.obs.edits[p] = Entry(disk[p], job.action.to)
    ELSE job.obs.report \in {"none", "stale"}
IsShown(obs) == obs.report = "files" /\ \A p \in Paths : Shows(obs.edits[p], p)
InspectionReported ==
  (Reporting /\ job.action.kind = "inspect_proposed_diff") => IsShown(job.obs)
IsOnDisk(a, obs) == obs.report = "written" => disk[a.path] = a.to
WriteReported ==
  (Reporting /\ job.action.kind \in WriteKinds) => IsOnDisk(job.action, job.obs)
ResultsStored ==
  \A r \in reservations :
    (r.obs # NoObs /\ r.action.id \in Unresolved(log)) =>
      /\ r.action.kind = "inspect_proposed_diff" => IsShown(r.obs)
      /\ r.action.kind \in WriteKinds => IsOnDisk(r.action, r.obs)

FollowInv == /\ IsChain(log) /\ FilesFollow /\ OverlayFollows
             /\ RestoredFollows /\ ProposalReported /\ InspectionReported
             /\ WriteReported /\ ResultsStored
OverlayInv == Undisturbed => FollowInv

(* The action in execution is the only one that may be changing a file.    *)
LEMMA OwnReservation ==
  ASSUME Base, pc \in Executes \union {"gate"}, job.action # NoAction,
         NEW r \in reservations, r.action.id \in Unresolved(log)
  PROVE  r.action = job.action
<1>1. r.action.id = job.action.id
  BY DEF Base, OpenInv
<1>2. IsKnown(log, job.action)
  BY DEF Base, IdInv
<1> QED BY <1>1, <1>2, SameAction DEF Base

LEMMA ExecutesKnown ==
  ASSUME Base, pc \in (Executes \ {"execute"}) \union {"gate"}
  PROVE  job.action # NoAction /\ job.action \in Recorded(log)
BY DEF Base, KnowInv, KnowsActions, Recorded

LEMMA OneReservation ==
  ASSUME Base, NEW r \in reservations, NEW q \in reservations,
         r.action.id = q.action.id
  PROVE  r = q
BY AtAnyPoint DEF Base, StoreOK

LEMMA ChangingIsOwn ==
  ASSUME Base, BegunInv, pc \in Executes \union {"gate"},
         job.action # NoAction, NEW p, Changing(p)
  PROVE  /\ Reporting /\ job.action.kind \in WriteKinds
         /\ job.action.path = p /\ job.obs.report = "written"
         /\ job.action.id \in Unresolved(log)
<1>1. PICK r \in reservations :
        /\ r.action.kind \in WriteKinds /\ r.action.path = p
        /\ r.action.id \in Unresolved(log) /\ Started(log, r.action.id)
        /\ MayHaveWritten(r)
  BY DEF Changing
<1>2. r.action = job.action
  BY <1>1, OwnReservation
<1>3. pc # "gate"
  <2>1. pc = "gate" => ~Has(log, job.action.id,
                            EventTypes \ {"decision_recorded"})
    BY DEF BegunInv, BegunJob
  <2>2. StartTypes \subseteq EventTypes \ {"decision_recorded"}
    BY DEF EventTypes, StartTypes
  <2> QED BY <1>1, <1>2, <2>1, <2>2, HasFewer DEF Started
<1>4. pc \notin {"execute", "ask", "reserve", "start"}
  <2>1. job.action.kind \in EditKinds /\ job.action.kind \in SideEffects
    BY <1>1, <1>2 DEF EditKinds, WriteKinds, SideEffects
  <2> QED BY <1>1, <1>2, <2>1 DEF BegunInv, BegunJob
<1>5. pc # "tool"
  BY <1>1, <1>2 DEF MayHaveWritten
<1>6. Reporting
  BY <1>3, <1>4, <1>5 DEF Executes, Reporting
<1>7. job.obs.report = "written"
  <2>1. CASE pc = "complete"
    BY <1>1, <1>2, <2>1 DEF MayHaveWritten
  <2>2. CASE pc = "report"
    <3>1. [action |-> job.action, obs |-> job.obs] \in reservations
      BY <2>2 DEF BegunInv, BegunJob
    <3>2. r.obs = job.obs
      BY <1>1, <1>2, <3>1, OneReservation
    <3>3. job.obs # NoObs
      <4>1. job.obs \in Results
        BY <2>2 DEF BegunInv, TypedEdits
      <4> QED BY <4>1, NoObsAssumption DEF Results, ToolStatuses, Overlays,
                                          EditSet
    <3> QED BY <1>1, <2>2, <3>2, <3>3 DEF MayHaveWritten
  <2> QED BY <1>6, <2>1, <2>2 DEF Reporting
<1> QED BY <1>1, <1>2, <1>6, <1>7

(* What is open is known, so an event leaves no other open.                *)
LEMMA ReservedStaysOpen ==
  ASSUME Base, NEW e, log' = Append(log, e), NEW r \in reservations,
         r.action.id \in Unresolved(log')
  PROVE  r.action.id \in Unresolved(log)
<1>1. r.action \in Recorded(log)
  BY DEF Base, KnowInv, KnowsActions
<1>2. r.action.id \in Tracked(log)
  BY <1>1 DEF Tracked, Recorded
<1> QED BY <1>2, LogFacts, TracksGrow DEF Base

(* A step that leaves the files, the proposals and the edits.              *)
LEMMA QuietKeeps ==
  ASSUME OverlayInv, Undisturbed' => Undisturbed,
         IsChain(log) => IsChain(log'),
         \A p \in Paths : /\ Standing(log', p) = Standing(log, p)
                          /\ Visited(log', p) = Visited(log, p),
         Listed(log') = Listed(log), disk' = disk,
         \A p \in Paths : Changing(p) => Changing(p)',
         ~Reporting',
         Live' => Live /\ ~Reporting /\ overlay' = overlay,
         Restoring' => Restoring /\ overlay' = overlay,
         \A r \in reservations' :
           (r.obs # NoObs /\ r.action.id \in Unresolved(log')) =>
             r \in reservations /\ r.action.id \in Unresolved(log)
  PROVE  OverlayInv'
<1> SUFFICES ASSUME Undisturbed' PROVE FollowInv'
  BY DEF OverlayInv
<1>1. FollowInv
  BY DEF OverlayInv
<1>2. IsChain(log')
  BY <1>1 DEF FollowInv
<1>3. FilesFollow'
  BY <1>1 DEF FollowInv, FilesFollow, Shows
<1>4. OverlayFollows'
  <2>1. SUFFICES ASSUME Live'
                 PROVE  \A p \in Paths :
                          /\ overlay[p].base = disk[p] =>
                               /\ Standing(log, p) # disk[p]
                               /\ overlay[p].current = Standing(log, p)
                          /\ (~Changing(p)' /\ overlay[p].base # disk[p]) =>
                               Standing(log, p) = disk[p]
    BY DEF OverlayFollows, Now, Proposing
  <2>2. \A p \in Paths : Now(p) = Standing(log, p)
    BY <2>1 DEF Now, Proposing
  <2> QED BY <1>1, <2>1, <2>2 DEF FollowInv, OverlayFollows
<1>5. RestoredFollows'
  BY <1>1 DEF FollowInv, RestoredFollows
<1>6. ProposalReported' /\ InspectionReported' /\ WriteReported'
  BY DEF ProposalReported, InspectionReported, WriteReported
<1>7. ResultsStored'
  BY <1>1 DEF FollowInv, ResultsStored, IsShown, IsOnDisk, Shows
<1> QED BY <1>2, <1>3, <1>4, <1>5, <1>6, <1>7 DEF FollowInv

(* A write that may have changed its file stays one until it is known.     *)
LEMMA ChangingStays ==
  ASSUME Base, BegunInv, pc' \notin {"tool", "complete"},
         \A r \in reservations :
           /\ r \in reservations'
           /\ (r.action.kind \in WriteKinds /\ r.action.id \in Unresolved(log)
                 /\ Started(log, r.action.id)) =>
                r.action.id \in Unresolved(log') /\ Started(log', r.action.id),
         NEW p, Changing(p)
  PROVE  Changing(p)'
<1>1. PICK r \in reservations :
        /\ r.action.kind \in WriteKinds /\ r.action.path = p
        /\ r.action.id \in Unresolved(log) /\ Started(log, r.action.id)
        /\ MayHaveWritten(r)
  BY DEF Changing
<1>2. r.obs = NoObs \/ r.obs.report = "written"
  <2>1. CASE pc = "complete" /\ r.action.id = job.action.id
    <3>1. job.action # NoAction /\ pc \in Executes
      BY <2>1, ExecutesKnown DEF Executes
    <3>2. r.action = job.action
      BY <1>1, <3>1, OwnReservation
    <3>3. [action |-> job.action, obs |-> NoObs] \in reservations
      BY <1>1, <2>1, <3>2 DEF BegunInv, BegunJob
    <3> QED BY <1>1, <3>2, <3>3, OneReservation
  <2>2. CASE ~(pc = "complete" /\ r.action.id = job.action.id)
    BY <1>1, <2>2 DEF MayHaveWritten
  <2> QED BY <2>1, <2>2
<1>3. /\ r \in reservations' /\ r.action.id \in Unresolved(log')
      /\ Started(log', r.action.id)
  BY <1>1
<1>4. MayHaveWritten(r)'
  BY <1>2 DEF MayHaveWritten
<1> QED BY <1>1, <1>3, <1>4 DEF Changing

(* A step that appends no proposal and no result of a write.               *)
LEMMA ProposalsLeft ==
  ASSUME LogsEvents(log), outsideEdits' = outsideEdits,
         NEW e, log' \in {log, Append(log, e)},
         \A p : ~IsProposal(e, p)
  PROVE  /\ Undisturbed' => Undisturbed
         /\ IsChain(log) => IsChain(log')
         /\ \A p : Standing(log', p) = Standing(log, p)
                   /\ Visited(log', p) = Visited(log, p)
<1>1. CASE log' = log
  BY <1>1 DEF Undisturbed, IsChain
<1>2. CASE log' = Append(log, e)
  <2>1. /\ \A p : /\ Standing(log', p) = Standing(log, p)
                  /\ Visited(log', p) = Visited(log, p)
        /\ IsChain(log') <=> IsChain(log)
        /\ FairLog(log') => FairLog(log)
    <3> DEFINE m == Append(log, e)
    <3>1. /\ \A p : /\ Standing(m, p) = IF IsProposal(e, p) THEN e.action.to
                                         ELSE Standing(log, p)
                   /\ Visited(m, p) = Visited(log, p) \union
                        (IF IsProposal(e, p) THEN {e.action.to} ELSE {})
          /\ IsChain(m) <=>
               /\ IsChain(log)
               /\ \A p \in Paths : IsProposal(e, p) =>
                    e.action.from = Standing(log, p)
          /\ FairLog(m) => FairLog(log)
      BY ProposalsGrow
    <3>2. log' = m
      BY <1>2
    <3> HIDE DEF m
    <3> QED BY <3>1, <3>2
  <2>2. Undisturbed' <=> outsideEdits' = 0 /\ FairLog(log')
    BY DEF Undisturbed, FairLog, IsFair
  <2>3. Undisturbed' => Undisturbed
    BY <2>1, <2>2, UndisturbedIsFair
  <2> QED BY <2>1, <2>3
<1> QED BY <1>1, <1>2

(* A recording step keeps the overlay where it matters, or rebuilds it.    *)
LEMMA RecordingLives ==
  ASSUME Inv, BegunInv, Recording, ~StartLoop
  PROVE  \/ /\ Live' => Live /\ ~Reporting /\ overlay' = overlay
            /\ Restoring' => Restoring /\ overlay' = overlay
         \/ pc' = "recover" /\ overlay' = RestoredOverlay(log', disk)
<1> DEFINE Keeps == /\ Live' => Live /\ ~Reporting /\ overlay' = overlay
                    /\ Restoring' => Restoring /\ overlay' = overlay
           Restores == pc' = "recover" /\ overlay' = RestoredOverlay(log', disk)
<1>1. SUFFICES Keeps \/ Restores
  OBVIOUS
<1>2. IsJob(job)
  BY AtAnyPoint
<1>3. ASSUME pc' \notin Executes,
             pc' \notin {"recover", "resume", "wait", "step", "gate",
                         "advance", "resumed"}
      PROVE  Keeps
  BY <1>3 DEF Live, Restoring, Executes
<1>4. ASSUME Reset PROVE Keeps
  <2>1. pc' = "idle"
    BY <1>4 DEF Reset
  <2> QED BY <1>3, <2>1 DEF Executes
<1>5. ASSUME pc' = "execute", job'.then \in {"diffed", "requested"} PROVE Keeps
  BY <1>5 DEF Live, Restoring, Executes
<1>6. ASSUME pc' \in {"resume", "wait", "step", "end"},
             pc \in {"recover", "resume", "resumed", "wait", "advance"},
             pc' = "resume" => pc = "recover", overlay' = overlay
      PROVE  Keeps
  BY <1>6 DEF Live, Restoring, Reporting, Executes
<1>7. ASSUME NEW cycle, RequestNext(cycle) PROVE Keeps
  BY <1>2, <1>5, <1>7 DEF RequestNext, IsJob
<1>8. CASE RestoreQuestion \/ Cancel
  <2>1. pc' = "idle"
    BY <1>8 DEF RestoreQuestion, Cancel
  <2> QED BY <1>3, <2>1 DEF Executes
<1>9. CASE ResumeLoop
  <2>1. Resume(log, run.cycle) /\ log' = log
    BY <1>9 DEF ResumeLoop
  <2> QED BY <2>1 DEF Resume
<1>10. CASE Answered
  <2>1. Resume(log', job.cycle)
    BY <1>10 DEF Answered
  <2> QED BY <2>1 DEF Resume
<1>11. CASE Crash \/ DecisionFails \/ EndLoop \/ RejectedState \/ Requested
  BY <1>4, <1>11 DEF Crash, DecisionFails, EndLoop, RejectedState, Requested,
                     Return, Fail
<1>12. CASE Observed
  <2>1. Fail \/ (Resume(log, job.cycle) /\ log' = log)
    BY <1>12 DEF Observed
  <2> QED BY <1>4, <2>1 DEF Fail, Resume
<1>13. CASE LimitReached \/ Diffed
  <2>1. pc' \in {"end", "close"}
    BY <1>13 DEF LimitReached, Diffed
  <2> QED BY <1>3, <2>1 DEF Executes
<1>14. CASE Recover \/ AdvanceState
  <2>1. /\ pc' \in {"resume", "step", "end"} /\ overlay' = overlay
        /\ pc \in {"recover", "advance"}
        /\ pc' = "resume" => pc = "recover"
    BY <1>14 DEF Recover, AdvanceState
  <2> QED BY <1>6, <2>1
<1>15. CASE Resumed \/ EnterLoop
  <2>1. \/ Reset
        \/ /\ pc' \in {"wait", "step"} /\ pc \in {"resumed", "wait"}
           /\ overlay' = overlay
    BY <1>15 DEF Resumed, EnterLoop, Return
  <2> QED BY <1>4, <1>6, <2>1
<1>16. CASE CloseWrite
  BY <1>4, <1>7, <1>16 DEF CloseWrite, Fail
<1>17. CASE Validated
  <2>1. (\E cycle : RequestNext(cycle)) \/ pc' = "observed"
    BY <1>17 DEF Validated
  <2> QED BY <1>3, <1>7, <2>1 DEF Executes
<1>18. CASE Written
  <2>1. Reset \/ (pc' = "execute" /\ job'.then = "diffed")
    BY <1>2, <1>18 DEF Written, Return, IsJob
  <2> QED BY <1>4, <1>5, <2>1
<1>19. CASE ResumePending
  <2>1. /\ pc = "resume" /\ overlay' = overlay
        /\ \/ pc' = "wait"
           \/ pc' \in {"execute", "start"}
    BY <1>19 DEF ResumePending
  <2>2. Live /\ Restoring /\ ~Reporting
    BY <2>1 DEF Live, Restoring, Reporting
  <2> QED BY <2>1, <2>2
<1> QED BY <1>8, <1>9, <1>10, <1>11, <1>12, <1>13, <1>14, <1>15, <1>16,
           <1>17, <1>18, <1>19 DEF Recording

(* What every recording step leaves.                                       *)
LEMMA RecordingLeaves ==
  ASSUME Base, Base', BegunInv, Recording
  PROVE  /\ Undisturbed' => Undisturbed
         /\ IsChain(log) => IsChain(log')
         /\ \A p : Standing(log', p) = Standing(log, p)
                   /\ Visited(log', p) = Visited(log, p)
         /\ Listed(log') = Listed(log) /\ Unresolved(log') = Unresolved(log)
         /\ \A p \in Paths : Changing(p) => Changing(p)'
         /\ ~Reporting'
         /\ UNCHANGED <<reservations, disk, outsideEdits>>
<1>1. /\ Records /\ LogOK' /\ WaitsPlain(log) /\ LogsEvents(log)
      /\ UNCHANGED <<reservations, disk, outsideEdits>>
  BY RecordingRecords, AtAnyPoint DEF Records, Base, Inv, TypeInv, BegunInv,
     TypedEdits
<1>2. PICK s : log' \in {log, Append(log, Snapshot(s))}
  BY <1>1 DEF Records
<1>3. \A p : ~IsProposal(Snapshot(s), p)
  BY EventFields DEF IsProposal, TerminalTypes
<1>4. /\ Undisturbed' => Undisturbed
      /\ IsChain(log) => IsChain(log')
      /\ \A p : Standing(log', p) = Standing(log, p)
                /\ Visited(log', p) = Visited(log, p)
  <2> DEFINE e == Snapshot(s)
  <2>1. log' \in {log, Append(log, e)} /\ \A p : ~IsProposal(e, p)
    BY <1>2, <1>3
  <2>2. LogsEvents(log) /\ outsideEdits' = outsideEdits
    BY <1>1
  <2> HIDE DEF e
  <2> QED BY ONLY <2>1, <2>2, ProposalsLeft, SMTT(60)
<1>5. /\ Listed(log') = Listed(log) /\ Unresolved(log') = Unresolved(log)
      /\ \A id : Started(log', id) <=> Started(log, id)
  BY <1>1, RecordsLeave DEF Started, Has
<1>6. pc' \notin {"tool", "complete", "report"}
  BY RecordingPoints DEF Base
<1>7. \A p \in Paths : Changing(p) => Changing(p)'
  BY <1>1, <1>5, <1>6, ChangingStays
<1>8. ~Reporting'
  BY <1>6 DEF Reporting
<1> QED BY <1>1, <1>4, <1>5, <1>7, <1>8

LEMMA RecordingFollows ==
  ASSUME Base, Base', BegunInv, OverlayInv, Recording,
         Live' => Live /\ ~Reporting /\ overlay' = overlay,
         Restoring' => Restoring /\ overlay' = overlay
  PROVE  OverlayInv'
BY RecordingLeaves, QuietKeeps

(* An event that changes no edit.                                          *)
LEMMA QuietAppend ==
  ASSUME Base, Base', BegunInv, OverlayInv,
         NEW e, log' \in {log, Append(log, e)},
         UNCHANGED <<disk, outsideEdits>>,
         e.type # "working_state_updated",
         e.type \in WaitingTypes => e.obs.report = "none",
         e.type \in TerminalTypes =>
           /\ e.action # NoAction
           /\ \/ e.obs.report = "none"
              \/ e.obs \in Results /\ e.action.kind \notin EditKinds
           /\ Late(log) = {} \/ ~Has(log, e.action.id, TerminalTypes),
         \A p : ~IsProposal(e, p),
         ~Reporting',
         Live' => Live /\ ~Reporting /\ overlay' = overlay,
         Restoring' => Restoring /\ overlay' = overlay,
         \A p \in Paths : Changing(p) => Changing(p)',
         \A r \in reservations' : r.obs # NoObs => r \in reservations
  PROVE  OverlayInv'
<1>1. LogsEvents(log) /\ LogOK' /\ TypedEdits
  BY LogFacts DEF Base, Inv, TypeInv, BegunInv
<1>2. Listed(log') = Listed(log)
  <2>1. CASE log' = log
    BY <2>1
  <2>2. CASE log' = Append(log, e)
    <3>1. Listed(log') = IF e.type \in TerminalTypes
                         THEN AdvanceEdits(Listed(log), e.action, e.obs)
                         ELSE Listed(log)
      BY <1>1, <2>2, EventLists
    <3>2. e.type \in TerminalTypes =>
            AdvanceEdits(Listed(log), e.action, e.obs) = Listed(log)
      BY PlainAdvance DEF EditKinds
    <3> QED BY <3>1, <3>2
  <2> QED BY <2>1, <2>2
<1>3. /\ Undisturbed' => Undisturbed
      /\ IsChain(log) => IsChain(log')
      /\ \A p : Standing(log', p) = Standing(log, p)
                /\ Visited(log', p) = Visited(log, p)
  BY <1>1, ProposalsLeft
<1>4. \A r \in reservations' :
        (r.obs # NoObs /\ r.action.id \in Unresolved(log')) =>
          r \in reservations /\ r.action.id \in Unresolved(log)
  <2>1. SUFFICES ASSUME NEW r \in reservations, r.action.id \in Unresolved(log')
                 PROVE  r.action.id \in Unresolved(log)
    OBVIOUS
  <2> QED BY <2>1, ReservedStaysOpen
<1>5. \A p \in Paths : /\ Standing(log', p) = Standing(log, p)
                       /\ Visited(log', p) = Visited(log, p)
  BY <1>3
<1> QED BY <1>2, <1>3, <1>4, <1>5, QuietKeeps

(* Before a tool ran nothing is being changed.                             *)
LEMMA QuietExecution ==
  ASSUME Base, Base', BegunInv, OverlayInv,
         pc \in {"execute", "ask", "reserve", "start"}, job.action # NoAction,
         NEW e, log' \in {log, Append(log, e)}, e.action = job.action,
         UNCHANGED <<disk, overlay, outsideEdits>>,
         e.type # "working_state_updated",
         e.type \in WaitingTypes => e.obs.report = "none",
         e.type \in TerminalTypes =>
           \/ e.obs.report = "none" /\ e.obs.status # "completed"
           \/ e.obs \in Results /\ e.action.kind \notin EditKinds,
         \/ pc' \in {"ask", "reserve", "start", "tool"} /\ job'.then = job.then
         \/ pc' = job.then,
         \A r \in reservations' : r.obs # NoObs => r \in reservations
  PROVE  OverlayInv'
<1>1. /\ pc \in Executes /\ job.then \in ReturnsTo /\ Late(log) = {}
      /\ ~Reporting
  BY DEF Base, Inv, TypeInv, JobOK, Executes, BegunInv, BegunJob, Reporting
<1>2. \A p \in Paths : Changing(p) => Changing(p)'
  BY <1>1, ChangingIsOwn
<1>3. \A p : ~IsProposal(e, p)
  BY DEF IsProposal, EditKinds
<1>4. ~Reporting'
  BY <1>1 DEF Reporting, ReturnsTo
<1>5. Live' => Live /\ ~Reporting /\ overlay' = overlay
  BY <1>1 DEF Live, ReturnsTo, Executes
<1>6. Restoring' => Restoring /\ overlay' = overlay
  BY <1>1 DEF Restoring, ReturnsTo, Executes
<1> QED BY <1>1, <1>2, <1>3, <1>4, <1>5, <1>6, QuietAppend

LEMMA AuthorizeReadFollows ==
  Base /\ Base' /\ BegunInv /\ OverlayInv /\ AuthorizeRead => OverlayInv'
<1> SUFFICES ASSUME Base, Base', BegunInv, OverlayInv, AuthorizeRead
             PROVE  OverlayInv'
  OBVIOUS
<1> DEFINE e == ActionEvent("action_authorized", job.action)
<1>1. /\ pc = "execute" /\ job.action # NoAction /\ log' = Append(log, e)
      /\ pc' \in {"ask", "reserve"} /\ job' = job
      /\ UNCHANGED <<reservations, disk, overlay, outsideEdits>>
  BY DEF AuthorizeRead, Executing, bounds
<1>2. e.action = job.action /\ e.type = "action_authorized"
  BY EventFields
<1> HIDE DEF e
<1>3. e.type \notin WaitingTypes \union TerminalTypes
      /\ e.type # "working_state_updated"
  BY <1>2 DEF WaitingTypes, TerminalTypes
<1> QED BY <1>1, <1>2, <1>3, QuietExecution

LEMMA AskFollows ==
  Base /\ Base' /\ BegunInv /\ OverlayInv /\ Ask => OverlayInv'
<1> SUFFICES ASSUME Base, Base', BegunInv, OverlayInv, Ask PROVE OverlayInv'
  OBVIOUS
<1> DEFINE e == Result("input_required", job.action, Plain("input_required"))
<1>1. /\ pc = "ask" /\ job.action # NoAction /\ log' = Append(log, e)
      /\ pc' = job.then
      /\ UNCHANGED <<reservations, disk, overlay, outsideEdits>>
  BY DEF Ask, Executing, Observe, bounds
<1>2. e.action = job.action /\ e.type = "input_required"
      /\ e.obs.report = "none"
  BY EventFields DEF Plain, Obs
<1> HIDE DEF e
<1>3. e.type \notin TerminalTypes /\ e.type # "working_state_updated"
  BY <1>2 DEF TerminalTypes
<1> QED BY <1>1, <1>2, <1>3, QuietExecution

(* A stored result is replayed for no action that touches the edits.       *)
LEMMA ReplayIsPlain ==
  ASSUME Base, BegunInv, pc \in {"execute", "ask", "reserve"},
         Reserved(job.action) # {}, StoredObs(job.action) # NoObs
  PROVE  job.action.kind \notin EditKinds
<1>1. Started(log, job.action.id)
  BY StoredIsAResult
<1>2. ~job.retry
  BY DEF BegunInv, BegunJob
<1> QED BY <1>1, <1>2 DEF BegunInv, BegunJob

LEMMA ReserveFollows ==
  Base /\ Base' /\ BegunInv /\ OverlayInv /\ Reserve => OverlayInv'
<1> SUFFICES ASSUME Base, Base', BegunInv, OverlayInv, Reserve
             PROVE  OverlayInv'
  OBVIOUS
<1> DEFINE a == job.action
           obs == IF StoredObs(a) # NoObs THEN StoredObs(a)
                  ELSE Plain("recovery_required")
           type == IF StoredObs(a) # NoObs THEN "action_replayed"
                   ELSE "action_recovery_required"
           e == Result(type, a, obs)
<1>1. /\ pc = "reserve" /\ a # NoAction
      /\ UNCHANGED <<disk, overlay, outsideEdits>>
  BY DEF Reserve, Executing, bounds
<1>2. e.action = a /\ e.type = type /\ e.obs = obs
  BY EventFields
<1>3. /\ type \notin WaitingTypes /\ type # "working_state_updated"
      /\ type \in TerminalTypes => StoredObs(a) # NoObs
  BY DEF TerminalTypes, WaitingTypes
<1>4. CASE Reserved(a) = {}
  <2>1. /\ log' = log /\ pc' = "start" /\ job' = job
        /\ reservations' = reservations \union
                             {[action |-> a, obs |-> NoObs]}
    BY <1>4 DEF Reserve
  <2>2. \A r \in reservations' : r.obs # NoObs => r \in reservations
    BY <2>1
  <2> DEFINE f == ActionEvent("action_authorized", a)
  <2>3. f.action = a /\ f.type = "action_authorized"
    BY EventFields
  <2> HIDE DEF a, f
  <2>4. f.type \notin WaitingTypes \union TerminalTypes
        /\ f.type # "working_state_updated"
    BY <2>3 DEF WaitingTypes, TerminalTypes
  <2> QED BY <1>1, <2>1, <2>2, <2>3, <2>4, QuietExecution DEF a
<1>5. CASE Reserved(a) # {}
  <2>1. log' = Append(log, e) /\ pc' = job.then /\ reservations' = reservations
    BY <1>5 DEF Reserve, Observe
  <2>2. StoredObs(a) # NoObs => obs \in Results /\ a.kind \notin EditKinds
    BY <1>1, <1>5, StoredIsAResult, ReplayIsPlain
  <2> HIDE DEF e, obs, type
  <2> QED BY <1>1, <1>2, <1>3, <2>1, <2>2, QuietExecution
<1> QED BY <1>4, <1>5

LEMMA StartFollows ==
  Base /\ Base' /\ BegunInv /\ OverlayInv /\ Start => OverlayInv'
<1> SUFFICES ASSUME Base, Base', BegunInv, OverlayInv, Start PROVE OverlayInv'
  OBVIOUS
<1> DEFINE type == IF job.retry THEN "action_recovery_started"
                   ELSE "action_started"
           e == ActionEvent(type, job.action)
<1>1. /\ pc = "start" /\ job.action # NoAction /\ log' = Append(log, e)
      /\ pc' = "tool" /\ job' = job
      /\ UNCHANGED <<reservations, disk, overlay, outsideEdits>>
  BY DEF Start, Executing, bounds
<1>2. e.action = job.action /\ e.type = type
  BY EventFields
<1>3. type \notin WaitingTypes \union TerminalTypes
      /\ type # "working_state_updated"
  BY DEF WaitingTypes, TerminalTypes
<1> HIDE DEF e, type
<1> QED BY <1>1, <1>2, <1>3, QuietExecution

LEMMA AuthorizeSideEffectFollows ==
  Base /\ Base' /\ BegunInv /\ OverlayInv /\ AuthorizeSideEffect => OverlayInv'
<1> SUFFICES ASSUME Base, Base', BegunInv, OverlayInv, AuthorizeSideEffect
             PROVE  OverlayInv'
  OBVIOUS
<1> DEFINE a == job.action
           done == \E r \in Reserved(a) : r.obs # NoObs
           moved == a.kind = "apply_patch" /\ disk[a.path] # a.from
<1>1. /\ pc = "execute" /\ a # NoAction
      /\ UNCHANGED <<reservations, disk, overlay, outsideEdits>>
  BY DEF AuthorizeSideEffect, Executing, bounds
<1>2. CASE ~Denied(a) /\ done
  <2> DEFINE e == Result("action_replayed", a, StoredObs(a))
  <2>1. log' = Append(log, e) /\ pc' = job.then
    BY <1>2 DEF AuthorizeSideEffect, Observe
  <2>2. e.action = a /\ e.type = "action_replayed" /\ e.obs = StoredObs(a)
    BY EventFields
  <2> HIDE DEF e
  <2>3. e.type \notin WaitingTypes /\ e.type # "working_state_updated"
    BY <2>2 DEF WaitingTypes
  <2>4. StoredObs(a) # NoObs /\ Reserved(a) # {}
    BY <1>2, StoredIsAResult
  <2>5. e.obs \in Results /\ e.action.kind \notin EditKinds
    BY <1>1, <2>2, <2>4, StoredIsAResult, ReplayIsPlain
  <2> QED BY <1>1, <2>1, <2>2, <2>3, <2>5, QuietExecution
<1>3. CASE ~Denied(a) /\ ~done /\ moved
  <2> DEFINE e == Result("action_conflict", a, Plain("conflict"))
  <2>1. log' = Append(log, e) /\ pc' = job.then
    BY <1>3 DEF AuthorizeSideEffect, Observe
  <2>2. /\ e.action = a /\ e.type = "action_conflict"
        /\ e.obs.report = "none" /\ e.obs.status = "conflict"
    BY EventFields DEF Plain, Obs
  <2> HIDE DEF e
  <2>3. e.type \notin WaitingTypes /\ e.type # "working_state_updated"
    BY <2>2 DEF WaitingTypes
  <2>4. e.obs.status # "completed"
    BY <2>2
  <2> QED BY <1>1, <2>1, <2>2, <2>3, <2>4, QuietExecution
<1>4. CASE ~Denied(a) /\ ~done /\ ~moved /\ ValidGrant(a)
  <2> DEFINE e == ActionEvent("action_authorized", a)
  <2>1. log' = Append(log, e) /\ pc' = "reserve" /\ job' = job
    BY <1>4 DEF AuthorizeSideEffect
  <2>2. e.action = a /\ e.type = "action_authorized"
    BY EventFields
  <2> HIDE DEF e
  <2>3. e.type \notin WaitingTypes \union TerminalTypes
        /\ e.type # "working_state_updated"
    BY <2>2 DEF WaitingTypes, TerminalTypes
  <2> QED BY <1>1, <2>1, <2>2, <2>3, QuietExecution
<1>5. CASE ~Denied(a) /\ ~done /\ ~moved /\ ~ValidGrant(a)
  <2> DEFINE e == [Result("approval_required", a, Plain("approval_required"))
                     EXCEPT !.checkpoint = Checkpoint(a),
                            !.baseline = Baseline(a)]
  <2>1. log' = Append(log, e) /\ pc' = job.then
    BY <1>5 DEF AuthorizeSideEffect, Observe
  <2>2. /\ e.type = "approval_required" /\ e.action = a
        /\ e.obs.report = "none"
    BY EventFields DEF Plain, Obs
  <2> HIDE DEF e
  <2>3. e.type \notin TerminalTypes /\ e.type # "working_state_updated"
    BY <2>2 DEF TerminalTypes
  <2> QED BY <1>1, <2>1, <2>2, <2>3, QuietExecution
<1>6. CASE Denied(a)
  <2> DEFINE e == Result("action_denied", a, Plain("policy_denied"))
  <2>1. log' = Append(log, e) /\ pc' = job.then
    BY <1>6 DEF AuthorizeSideEffect, Observe
  <2>2. /\ e.action = a /\ e.type = "action_denied"
        /\ e.obs.report = "none" /\ e.obs.status = "policy_denied"
    BY EventFields DEF Plain, Obs
  <2> HIDE DEF e
  <2>3. e.type \notin WaitingTypes /\ e.type # "working_state_updated"
    BY <2>2 DEF WaitingTypes
  <2>4. e.obs.status # "completed"
    BY <2>2
  <2> QED BY <1>1, <2>1, <2>2, <2>3, <2>4, QuietExecution
<1> QED BY <1>2, <1>3, <1>4, <1>5, <1>6

LEMMA DecideFollows ==
  Base /\ Base' /\ BegunInv /\ OverlayInv /\ Decide => OverlayInv'
<1> SUFFICES ASSUME Base, Base', BegunInv, OverlayInv, Decide
             PROVE  OverlayInv'
  OBVIOUS
<1>1. PICK a \in DecidedActions, u \in Offered :
        log' = Append(log, [ActionEvent("decision_recorded", a)
                              EXCEPT !.update = u])
  BY DEF Decide
<1> DEFINE e == [ActionEvent("decision_recorded", a) EXCEPT !.update = u]
<1>2. e.type = "decision_recorded" /\ log' = Append(log, e)
  BY <1>1, EventFields
<1> HIDE DEF e
<1>3. /\ pc = "step" /\ pc' = "gate"
      /\ UNCHANGED <<reservations, disk, overlay, outsideEdits>>
  BY DEF Decide, bounds
<1>4. e.type \notin WaitingTypes \union TerminalTypes
      /\ e.type # "working_state_updated"
  BY <1>2 DEF WaitingTypes, TerminalTypes
<1>5. \A p \in Paths : ~Changing(p)
  BY <1>3 DEF Base, OpenInv, NothingOpen, Changing
<1>6. /\ ~Reporting' /\ ~Reporting /\ Live /\ ~Restoring'
  BY <1>3 DEF Reporting, Live, Restoring, Executes
<1>7. \A p : ~IsProposal(e, p)
  BY <1>4 DEF IsProposal
<1> QED BY <1>2, <1>3, <1>4, <1>5, <1>6, <1>7, QuietAppend

LEMMA GateFollows ==
  Base /\ Base' /\ BegunInv /\ OverlayInv /\ Gate => OverlayInv'
<1> SUFFICES ASSUME Base, Base', BegunInv, OverlayInv, Gate PROVE OverlayInv'
  OBVIOUS
<1> DEFINE a == job.action
           blocked == FinishBlocked(a)
           refused == a.kind \in WriteKinds
                        /\ (WriteConflict(a) \/ RepeatedRepair(a))
           obs == Plain(IF blocked THEN "acceptance_incomplete" ELSE "conflict")
           type == IF blocked THEN "finish_blocked" ELSE "action_conflict"
           e == Result(type, a, obs)
<1>1. /\ pc = "gate" /\ a # NoAction /\ IsJob(job)
      /\ UNCHANGED <<reservations, disk, overlay, outsideEdits>>
  BY ExecutesKnown, AtAnyPoint DEF Gate, bounds, Base
<1>2. ~Has(log, a.id, TerminalTypes)
  <2>1. ~Has(log, a.id, EventTypes \ {"decision_recorded"})
    BY <1>1 DEF BegunInv, BegunJob
  <2>2. TerminalTypes \subseteq EventTypes \ {"decision_recorded"}
    BY DEF EventTypes, TerminalTypes
  <2> HIDE DEF a
  <2> QED BY <2>1, <2>2, HasFewer
<1>3. \A p \in Paths : ~Changing(p)
  BY <1>1, ChangingIsOwn DEF Reporting
<1>4. /\ e.action = a /\ e.type = type /\ e.obs.report = "none"
      /\ e.obs.status # "completed"
  BY EventFields DEF Plain, Obs
<1>5. type \notin WaitingTypes /\ type # "working_state_updated"
  BY DEF WaitingTypes
<1>6. \A p : ~IsProposal(e, p)
  BY <1>4 DEF IsProposal
<1>7. \/ log' = Append(log, e) /\ pc' = "advance"
      \/ log' = log /\ pc' = "execute" /\ job'.then = "advance"
  BY <1>1 DEF Gate, IsJob
<1>8. ~Reporting' /\ ~Reporting /\ Live /\ ~Restoring'
  BY <1>1, <1>7 DEF Reporting, Live, Restoring, Executes
<1> HIDE DEF e, type, a
<1> QED BY <1>1, <1>2, <1>3, <1>4, <1>5, <1>6, <1>7, <1>8, QuietAppend

(* A user's call begins outside of the loop.                               *)
LEMMA QuietCall ==
  ASSUME Base, Base', BegunInv, OverlayInv,
         NEW e, log' \in {log, Append(log, e)},
         UNCHANGED <<reservations, disk, overlay, outsideEdits>>,
         e.type \in {"input_received"} \union Settling,
         \/ pc' \in {"answered", "rejected"}
         \/ pc' = "execute" /\ job'.then \in {"validated", "written"},
         \A r \in reservations :
           (/\ log' = Append(log, e) /\ r.action.kind \in WriteKinds
            /\ r.action.id \in Unresolved(log) /\ Started(log, r.action.id)) =>
             \/ e.type = "approval_granted"
             \/ e.action.id # r.action.id
  PROVE  OverlayInv'
<1>1. LogsEvents(log)
  BY LogFacts DEF Base
<1>2. e.type \notin WaitingTypes \union TerminalTypes
      /\ e.type # "working_state_updated"
  BY DEF WaitingTypes, TerminalTypes, Settling
<1>3. \A p : ~IsProposal(e, p)
  BY <1>2 DEF IsProposal
<1>4. /\ ~Reporting' /\ ~Live' /\ ~Restoring'
      /\ pc' \notin {"tool", "complete"}
  BY DEF Reporting, Live, Restoring, Executes
<1>5. \A r \in reservations :
        (r.action.kind \in WriteKinds /\ r.action.id \in Unresolved(log)
           /\ Started(log, r.action.id)) =>
          r.action.id \in Unresolved(log') /\ Started(log', r.action.id)
  <2>1. CASE log' = log
    BY <2>1
  <2>2. CASE log' = Append(log, e)
    <3>1. /\ \A id, types : Has(log', id, types) <=>
               \/ Has(log, id, types)
               \/ e.action # NoAction /\ e.action.id = id /\ e.type \in types
          /\ \A id \in Unresolved(log) :
               \/ id \in Unresolved(log')
               \/ /\ e.action # NoAction /\ e.action.id = id
                  /\ \/ e.type \in TerminalTypes
                     \/ e.type \in {"input_received", "approval_rejected"}
      BY <1>1, <2>2, TracksGrow
    <3> QED BY <1>2, <2>2, <3>1 DEF Started
  <2> QED BY <2>1, <2>2
<1>6. \A p \in Paths : Changing(p) => Changing(p)'
  BY <1>4, <1>5, ChangingStays
<1> QED BY <1>2, <1>3, <1>4, <1>6, QuietAppend

LEMMA AnswerFollows ==
  Base /\ Base' /\ BegunInv /\ OverlayInv /\ Answer => OverlayInv'
<1> SUFFICES ASSUME Base, Base', BegunInv, OverlayInv, Answer
             PROVE  OverlayInv'
  OBVIOUS
<1> DEFINE q == run.question
<1>1. PICK answer \in Answers :
        \/ log' = log
        \/ /\ q = PendingInput(log)
           /\ log' = Append(log, [ActionEvent("input_received", q)
                                    EXCEPT !.answer = answer])
  BY DEF Answer
<1> DEFINE e == [ActionEvent("input_received", q) EXCEPT !.answer = answer]
<1>2. q # NoAction /\ Call("answer", "answered", q, "idle")
  BY DEF Answer
<1>3. /\ pc' = "answered" /\ LogsEvents(log) /\ ActionsOK(log)
      /\ UNCHANGED <<reservations, disk, overlay, outsideEdits>>
  BY <1>2, CallFields, CallRetry, LogFacts DEF Base, IdLog
<1>4. e.type = "input_received" /\ e.action = q
  BY EventFields
<1>5. /\ log' \in {log, Append(log, e)}
      /\ log' = Append(log, e) => (log' = log \/ q = PendingInput(log))
  BY <1>1
<1>6. log' = Append(log, e) => log' # log
  <2>1. Len(Append(log, e)) = Len(log) + 1 /\ Len(log) \in Nat
    BY <1>3, AppendGrows DEF LogsEvents
  <2> QED BY <2>1
<1> HIDE DEF e, q
<1>7. ASSUME NEW r \in reservations, log' = Append(log, e),
             r.action.kind \in WriteKinds
      PROVE  e.action.id # r.action.id
  <2>1. q = PendingInput(log)
    BY <1>5, <1>6, <1>7
  <2>2. q \in Recorded(log) /\ q.kind = "ask_user"
    BY <1>2, <1>3, <2>1, PendingInputWaits, QuestionAsks
    DEF BegunInv, BegunLog
  <2>3. r.action \in Recorded(log)
    BY DEF Base, KnowInv, KnowsActions
  <2>4. "ask_user" \notin WriteKinds
    BY DEF WriteKinds
  <2> QED BY <1>3, <1>4, <1>7, <2>2, <2>3, <2>4 DEF ActionsOK
<1>8. \A r \in reservations :
        (/\ log' = Append(log, e) /\ r.action.kind \in WriteKinds
         /\ r.action.id \in Unresolved(log) /\ Started(log, r.action.id)) =>
          \/ e.type = "approval_granted"
          \/ e.action.id # r.action.id
  BY <1>7
<1>9. /\ log' \in {log, Append(log, e)}
      /\ e.type \in {"input_received"} \union Settling
      /\ pc' \in {"answered", "rejected"}
      /\ UNCHANGED <<reservations, disk, overlay, outsideEdits>>
  BY <1>3, <1>4, <1>5
<1> QED BY <1>8, <1>9, QuietCall

LEMMA ApproveFollows ==
  Base /\ Base' /\ BegunInv /\ OverlayInv /\ Approve => OverlayInv'
<1> SUFFICES ASSUME Base, Base', BegunInv, OverlayInv, Approve
             PROVE  OverlayInv'
  OBVIOUS
<1> DEFINE a == PendingApprovalAction
           e == [ActionEvent("approval_granted", a)
                   EXCEPT !.checkpoint = run.checkpoint]
           then == IF a.kind = "validate" THEN "validated" ELSE "written"
<1>1. /\ Call("approve", "execute", a, then) /\ log' = Append(log, e)
  BY DEF Approve
<1>2. e.type = "approval_granted"
  BY EventFields
<1>3. then \in {"validated", "written"}
  OBVIOUS
<1> HIDE DEF e, then, a
<1>4. /\ pc' = "execute" /\ job'.then = then
      /\ UNCHANGED <<reservations, disk, overlay, outsideEdits>>
  BY <1>1, CallFields, CallRetry DEF Base
<1> QED BY <1>1, <1>2, <1>3, <1>4, QuietCall DEF Settling

LEMMA RejectFollows ==
  Base /\ Base' /\ BegunInv /\ OverlayInv /\ Reject => OverlayInv'
<1> SUFFICES ASSUME Base, Base', BegunInv, OverlayInv, Reject
             PROVE  OverlayInv'
  OBVIOUS
<1> DEFINE a == PendingApprovalAction
           e == [ActionEvent("approval_rejected", a)
                   EXCEPT !.checkpoint = run.checkpoint]
<1>1. /\ OfferedPending /\ Call("reject", "rejected", NoAction, "idle")
      /\ log' = Append(log, e)
  BY DEF Reject
<1>2. e.type = "approval_rejected" /\ e.action = a
  BY EventFields
<1> HIDE DEF e
<1>3. /\ pc' = "rejected" /\ ActionsOK(log)
      /\ UNCHANGED <<reservations, disk, overlay, outsideEdits>>
  BY <1>1, CallFields, CallRetry DEF Base, IdInv, IdLog
<1>4. /\ PendingApproval(log) # 0 /\ a = Asked(log) /\ a \in Recorded(log)
  BY <1>1, PendingRequestWaits
  DEF Base, OfferedPending, PendingApprovalAction, Requests, Asked
<1> HIDE DEF a
<1>5. ASSUME NEW r \in reservations, r.action.kind \in WriteKinds,
             Started(log, r.action.id)
      PROVE  e.action.id # r.action.id
  <2>1. SUFFICES ASSUME a.id = r.action.id PROVE FALSE
    BY <1>2
  <2>2. r.action = a
    <3>1. r.action \in Recorded(log)
      BY DEF Base, KnowInv, KnowsActions
    <3> QED BY <1>3, <1>4, <2>1, <3>1 DEF ActionsOK
  <2> QED BY <1>4, <1>5, <2>2 DEF BegunInv, BegunLog, WaitingWrite
<1>6. \A r \in reservations :
        (/\ log' = Append(log, e) /\ r.action.kind \in WriteKinds
         /\ r.action.id \in Unresolved(log) /\ Started(log, r.action.id)) =>
          \/ e.type = "approval_granted"
          \/ e.action.id # r.action.id
  BY <1>5
<1>7. e.type \in Settling
  BY <1>2 DEF Settling
<1> QED BY <1>1, <1>3, <1>6, <1>7, QuietCall

-----------------------------------------------------------------------------
(* The tools of the overlay.                                               *)

(* An overlay entry leads from the content of the file to another.         *)
Leads(edit, from, to) ==
  /\ edit.base = from => to # from /\ edit.current = to
  /\ edit.base # from => to = from

(* A proposal for an entry that is not stale.                              *)
LEMMA ProposeCurrent ==
  ASSUME NEW o \in Overlays, NEW d \in [Paths -> Contents],
         NEW a, IsAction(a), a.kind = "propose_patch",
         o[a.path] = NoEdit \/ o[a.path].base = d[a.path]
  PROVE  LET p == a.path
             seen == IF o[p] = NoEdit THEN d[p] ELSE o[p].current
         IN  Propose(o, d, a) =
               IF a.from # seen THEN <<o, Plain("conflict")>>
               ELSE IF a.to = d[p]
               THEN <<[o EXCEPT ![p] = NoEdit],
                      Obs("completed", "removed", NoEdits, FALSE)>>
               ELSE <<[o EXCEPT ![p] = Entry(d[p], a.to)],
                      Obs("completed", "proposed",
                          [o EXCEPT ![p] = Entry(d[p], a.to)], FALSE)>>
<1> DEFINE p == a.path
           seen == IF o[p] = NoEdit THEN d[p] ELSE o[p].current
<1>1. ~Stale(o, d, p)
  BY DEF Stale
<1>2. (IF o[p] = NoEdit THEN d[p] ELSE o[p].base) = d[p]
  OBVIOUS
<1> QED BY <1>1, <1>2 DEF Propose

LEMMA NoEditHasNoBase ==
  ASSUME NEW d \in [Paths -> Contents], NEW p \in Paths
  PROVE  NoEdit.base # d[p] /\ NoEdit.status # "conflict"
BY AgentLoopAssumption DEF NoEdit, AgentLoopAssumption

LEMMA ProposeCases ==
  ASSUME NEW o \in Overlays, NEW d \in [Paths -> Contents],
         NEW a, IsAction(a), a.kind = "propose_patch",
         NEW s, Leads(o[a.path], d[a.path], s)
  PROVE  LET p == a.path
             r == Propose(o, d, a)
         IN  /\ \A q \in Paths : q # p => r[1][q] = o[q]
             /\ r[2].status = "completed" =>
                  /\ a.from = s /\ Leads(r[1][p], d[p], a.to)
                  /\ IF a.to = d[p] THEN r[2].report = "removed"
                     ELSE /\ r[2].report = "proposed"
                          /\ r[2].edits[p] = Entry(d[p], a.to)
             /\ r[2].status # "completed" =>
                  /\ Leads(r[1][p], d[p], s)
                  /\ r[2].report \in {"none", "stale"}
<1> DEFINE p     == a.path
           r     == Propose(o, d, a)
           stale == Stale(o, d, p)
           none  == [o EXCEPT ![p] = NoEdit]
           moved == [o EXCEPT ![p].status = "conflict"]
           after == [o EXCEPT ![p] = Entry(d[p], a.to)]
<1>1. p \in Paths /\ o[p] \in EditSet /\ NoEdit.base # d[p]
  BY NoEditHasNoBase DEF IsAction, Overlays
<1>2. /\ \A q \in Paths : q # p => /\ none[q] = o[q] /\ moved[q] = o[q]
                                   /\ after[q] = o[q]
      /\ none[p] = NoEdit /\ after[p] = Entry(d[p], a.to)
      /\ moved[p].base = o[p].base /\ moved[p].current = o[p].current
  BY <1>1 DEF Overlays, EditSet
<1>3. CASE stale
  <2>1. s = d[p] /\ o[p].base # d[p]
    BY <1>3 DEF Leads, Stale
  <2>2. r = IF a.from # d[p]
            THEN <<moved, Obs("conflict", "stale", moved, FALSE)>>
            ELSE IF a.to = d[p]
                 THEN <<none, Obs("completed", "removed", NoEdits, FALSE)>>
            ELSE <<after, Obs("completed", "proposed", after, FALSE)>>
    BY <1>3 DEF Propose
  <2> HIDE DEF r, moved, none, after, p
  <2>3. CASE a.from # d[p]
    <3>1. r = <<moved, Obs("conflict", "stale", moved, FALSE)>>
      BY <2>2, <2>3
    <3> QED BY <1>2, <2>1, <3>1 DEF Leads, Obs, p, r
  <2>4. CASE a.from = d[p] /\ a.to = d[p]
    <3>1. r = <<none, Obs("completed", "removed", NoEdits, FALSE)>>
      BY <2>2, <2>4
    <3> QED BY <1>1, <1>2, <2>1, <2>4, <3>1 DEF Leads, Obs, p, r
  <2>5. CASE a.from = d[p] /\ a.to # d[p]
    <3>1. r = <<after, Obs("completed", "proposed", after, FALSE)>>
      BY <2>2, <2>5
    <3> QED BY <1>1, <1>2, <2>1, <2>5, <3>1 DEF Leads, Obs, Entry, p, r
  <2> QED BY <2>3, <2>4, <2>5
<1>4. CASE ~stale
  <2> DEFINE seen == IF o[p] = NoEdit THEN d[p] ELSE o[p].current
  <2>1. o[p] = NoEdit \/ o[p].base = d[p]
    BY <1>4 DEF Stale
  <2>2. seen = s
    BY <1>1, <2>1 DEF Leads
  <2>3. r = IF a.from # seen THEN <<o, Plain("conflict")>>
            ELSE IF a.to = d[p]
                 THEN <<none, Obs("completed", "removed", NoEdits, FALSE)>>
            ELSE <<after, Obs("completed", "proposed", after, FALSE)>>
    BY <2>1, ProposeCurrent
  <2>4. Leads(o[p], d[p], s)
    OBVIOUS
  <2> HIDE DEF r, none, after, p, seen
  <2>5. CASE a.from # s
    <3>1. r = <<o, Plain("conflict")>>
      BY <2>2, <2>3, <2>5
    <3> QED BY <2>4, <3>1 DEF Obs, Plain, p, r
  <2>6. CASE a.from = s /\ a.to = d[p]
    <3>1. r = <<none, Obs("completed", "removed", NoEdits, FALSE)>>
      BY <2>2, <2>3, <2>6
    <3> QED BY <1>1, <1>2, <2>6, <3>1 DEF Leads, Obs, p, r
  <2>7. CASE a.from = s /\ a.to # d[p]
    <3>1. r = <<after, Obs("completed", "proposed", after, FALSE)>>
      BY <2>2, <2>3, <2>7
    <3> QED BY <1>1, <1>2, <2>7, <3>1 DEF Leads, Obs, Entry, p, r
  <2> QED BY <2>5, <2>6, <2>7
<1> QED BY <1>3, <1>4

LEMMA InspectCases ==
  ASSUME NEW o \in Overlays, NEW d \in [Paths -> Contents]
  PROVE  LET r == Inspect(o, d)
         IN  /\ r[2].report = "files" /\ r[2].edits = r[1]
             /\ \A p \in Paths :
                  /\ r[1][p].base = o[p].base /\ r[1][p].current = o[p].current
                  /\ (r[1][p].status # "conflict" /\ r[1][p].base # d[p]) =>
                       r[1][p] = NoEdit
<1> DEFINE r == Inspect(o, d)
           stale == {p \in Paths : Stale(o, d, p)}
           flagged == [p \in Paths |-> IF p \in stale
                         THEN [o[p] EXCEPT !.status = "conflict"] ELSE o[p]]
           viewed == [p \in Paths |-> IF o[p] = NoEdit THEN NoEdit
                         ELSE [o[p] EXCEPT !.status = "inspected"]]
<1>1. r = IF stale # {} THEN <<flagged, Obs("conflict", "files", flagged, FALSE)>>
          ELSE <<viewed, Obs("completed", "files", viewed, FALSE)>>
  BY DEF Inspect
<1>2. \A p \in Paths : o[p] \in EditSet
  BY DEF Overlays
<1>3. \A p \in Paths : p \in stale <=> o[p] # NoEdit /\ o[p].base # d[p]
  BY DEF Stale
<1>4. ASSUME NEW p \in Paths
      PROVE  /\ flagged[p].base = o[p].base
             /\ flagged[p].current = o[p].current
             /\ (flagged[p].status # "conflict" /\ flagged[p].base # d[p]) =>
                  flagged[p] = NoEdit
  <2>1. flagged[p] = IF p \in stale THEN [o[p] EXCEPT !.status = "conflict"]
                     ELSE o[p]
    OBVIOUS
  <2> HIDE DEF flagged, stale
  <2>2. CASE p \in stale
    BY <1>2, <2>1, <2>2 DEF EditSet
  <2>3. CASE p \notin stale
    BY <1>3, <2>1, <2>3
  <2> QED BY <2>2, <2>3
<1>5. ASSUME NEW p \in Paths, p \notin stale
      PROVE  /\ viewed[p].base = o[p].base
             /\ viewed[p].current = o[p].current
             /\ viewed[p].base # d[p] => viewed[p] = NoEdit
  BY <1>2, <1>3, <1>5 DEF EditSet
<1> HIDE DEF r, stale, flagged, viewed
<1>6. CASE stale # {}
  <2>1. r = <<flagged, Obs("conflict", "files", flagged, FALSE)>>
    BY <1>1, <1>6
  <2> QED BY <1>4, <2>1 DEF Obs, r
<1>7. CASE stale = {}
  <2>1. r = <<viewed, Obs("completed", "files", viewed, FALSE)>>
    BY <1>1, <1>7
  <2> QED BY <1>5, <1>7, <2>1 DEF Obs, r
<1> QED BY <1>6, <1>7
-----------------------------------------------------------------------------
(* What the tool does to the files and to the overlay.                     *)

(* A tool that leaves the files.                                           *)
LEMMA PlainToolFollows ==
  ASSUME Base, BegunInv, FollowInv, pc = "tool", job.action # NoAction,
         pc' = "complete", UNCHANGED <<log, reservations, disk>>,
         job'.action = job.action,
         job.action.kind \in WriteKinds => job'.obs.report # "written",
         Live' => \A p \in Paths : Leads(overlay'[p], disk[p], Now(p)'),
         ProposalReported', InspectionReported'
  PROVE  FollowInv'
<1>1. \A p \in Paths : ~Changing(p)
  BY ChangingIsOwn DEF Reporting, Executes
<1>2. IsChain(log')
  BY DEF FollowInv
<1>3. FilesFollow'
  BY <1>1 DEF FollowInv, FilesFollow, Shows
<1>4. OverlayFollows'
  BY DEF OverlayFollows, Leads
<1>5. RestoredFollows'
  BY DEF RestoredFollows, Restoring
<1>6. WriteReported'
  BY DEF WriteReported, IsOnDisk
<1>7. ResultsStored'
  BY DEF FollowInv, ResultsStored, IsShown, IsOnDisk, Shows
<1> QED BY <1>2, <1>3, <1>4, <1>5, <1>6, <1>7 DEF FollowInv

(* A tool that writes.                                                     *)
LEMMA WriteFollows ==
  ASSUME Base, Base', BegunInv, FollowInv, outsideEdits = 0,
         pc = "tool", job.action # NoAction, job.action.kind \in WriteKinds,
         pc' = "complete", UNCHANGED <<log, reservations, overlay>>,
         disk' = [disk EXCEPT ![job.action.path] = job.action.to],
         NEW obs, job' = [job EXCEPT !.obs = obs], obs.report = "written"
  PROVE  FollowInv'
<1> DEFINE a == job.action
           own == [action |-> a, obs |-> NoObs]
<1>1. /\ IsJob(job) /\ disk \in [Paths -> Contents] /\ IsAction(a)
      /\ job.then \in ReturnsTo /\ pc \in Executes
  BY AtAnyPoint DEF Base, Inv, TypeInv, FilesOK, JobOK, Executes
<1>2. job'.action = a /\ job'.obs = obs /\ job'.then = job.then
  BY <1>1 DEF IsJob
<1>3. /\ own \in reservations /\ Started(log, a.id)
      /\ a.id \in Unresolved(log)
      /\ job.then # "advance"
      /\ a.kind # "propose_patch" /\ a.kind # "inspect_proposed_diff"
  BY <1>1 DEF BegunInv, BegunJob, Executes, WriteKinds
<1>4. /\ a.path \in Paths /\ disk'[a.path] = a.to
      /\ \A p \in Paths : p # a.path => disk'[p] = disk[p]
  BY <1>1 DEF IsAction
<1>5. \A p : ~Changing(p)
  BY ChangingIsOwn, <1>1 DEF Reporting
<1>6. ASSUME NEW p, p = a.path PROVE Changing(p)'
  <2>1. PICK r \in reservations : r.action = a /\ r.obs = NoObs
    BY <1>3
  <2>2. MayHaveWritten(r)'
    BY <1>2, <2>1 DEF MayHaveWritten
  <2> QED BY <1>3, <1>6, <2>1, <2>2 DEF Changing
<1>7. IsChain(log')
  BY DEF FollowInv
<1>8. FilesFollow'
  BY <1>4, <1>5, <1>6 DEF FollowInv, FilesFollow, Shows
<1>9. OverlayFollows'
  <2>1. SUFFICES ASSUME Live', NEW p \in Paths
                 PROVE  /\ overlay[p].base = disk'[p] =>
                             /\ Standing(log, p) # disk'[p]
                             /\ overlay[p].current = Standing(log, p)
                        /\ (~Changing(p)' /\ overlay[p].base # disk'[p]) =>
                             Standing(log, p) = disk'[p]
    BY <1>2, <1>3 DEF OverlayFollows, Now, Proposing
  <2>2. job.then = "resumed"
    BY <1>2, <1>3, <2>1 DEF Live
  <2>3. Live /\ Restoring /\ ~Reporting
    BY <1>1, <2>2 DEF Live, Restoring, Reporting
  <2>4. /\ overlay[p].base = disk[p] => /\ Standing(log, p) # disk[p]
                                        /\ overlay[p].current = Standing(log, p)
        /\ overlay[p].base # disk[p] => Standing(log, p) = disk[p]
        /\ overlay[p] = NoEdit \/ overlay[p].base = disk[p]
    BY <1>5, <2>3 DEF FollowInv, OverlayFollows, RestoredFollows, Now, Proposing
  <2>5. NoEdit.base # disk'[p]
    <3>1. disk' \in [Paths -> Contents]
      BY DEF Base, Inv, TypeInv, FilesOK
    <3> QED BY <3>1, NoEditHasNoBase
  <2> QED BY <1>4, <1>6, <2>4, <2>5
<1>10. RestoredFollows'
  BY DEF RestoredFollows, Restoring
<1>11. ProposalReported' /\ InspectionReported'
  BY <1>2, <1>3 DEF ProposalReported, InspectionReported
<1>12. WriteReported'
  BY <1>2, <1>4 DEF WriteReported, IsOnDisk
<1>13. ResultsStored'
  <2>1. \A r \in reservations : r.action.id \in Unresolved(log) => r.obs = NoObs
    BY <1>1, <1>3, OwnReservation, OneReservation
  <2> QED BY <2>1 DEF ResultsStored
<1> QED BY <1>7, <1>8, <1>9, <1>10, <1>11, <1>12, <1>13 DEF FollowInv

LEMMA ToolFollows ==
  Base /\ Base' /\ BegunInv /\ OverlayInv /\ Tool => OverlayInv'
<1> SUFFICES ASSUME Base, Base', BegunInv, OverlayInv, Tool, Undisturbed'
             PROVE  FollowInv'
  BY DEF OverlayInv
<1> DEFINE a == job.action
<1>1. /\ pc = "tool" /\ a # NoAction /\ pc' = "complete"
      /\ UNCHANGED <<log, reservations, outsideEdits>>
      /\ ToolRead \/ ToolFinish \/ ToolPropose \/ ToolInspect
         \/ ToolWrite \/ ToolValidate
  BY DEF Tool, Executing, bounds
<1>2. /\ FollowInv /\ outsideEdits = 0
  <2>1. Undisturbed' <=> Undisturbed
    BY <1>1 DEF Undisturbed
  <2> QED BY <2>1 DEF OverlayInv, Undisturbed
<1>3. /\ IsJob(job) /\ disk \in [Paths -> Contents] /\ IsAction(a)
      /\ job.then \in ReturnsTo /\ pc \in Executes /\ overlay \in Overlays
  BY <1>1, AtAnyPoint DEF Base, Inv, TypeInv, FilesOK, JobOK, Executes
<1>4. PICK obs : job' = [job EXCEPT !.obs = obs]
  BY <1>1, ToolReports DEF Base
<1>5. job'.action = a /\ job'.obs = obs /\ job'.then = job.then
  BY <1>3, <1>4 DEF IsJob
<1>6. Live' => Live
  BY <1>1, <1>3, <1>5 DEF Live
<1>7. \A p \in Paths : ~Changing(p)
  BY <1>1, <1>3, ChangingIsOwn DEF Reporting
<1>8. \A p \in Paths : Now(p) = Standing(log, p)
  BY <1>1 DEF Now, Proposing, Reporting
<1>9. Live => \A p \in Paths : Leads(overlay[p], disk[p], Standing(log, p))
  BY <1>2, <1>7, <1>8 DEF FollowInv, OverlayFollows, Leads
<1>10. a.kind \in {"propose_patch", "inspect_proposed_diff"} => Live
  BY <1>1, <1>3 DEF Live, BegunInv, BegunJob
<1> HIDE DEF a
<1>11. CASE ToolRead \/ ToolFinish \/ ToolValidate
  <2>1. /\ UNCHANGED <<disk, overlay>>
        /\ a.kind \notin WriteKinds /\ a.kind # "propose_patch"
        /\ a.kind # "inspect_proposed_diff"
    BY <1>11 DEF ToolRead, ToolFinish, ToolValidate, WriteKinds, a
  <2>2. ProposalReported' /\ InspectionReported'
    BY <1>5, <2>1 DEF ProposalReported, InspectionReported
  <2>3. \A p \in Paths : Now(p)' = Standing(log, p)
    BY <1>1, <1>5, <2>1 DEF Now, Proposing
  <2>4. Live' => \A p \in Paths : Leads(overlay'[p], disk[p], Now(p)')
    BY <1>6, <1>9, <2>1, <2>3
  <2> QED BY <1>1, <1>2, <1>5, <2>1, <2>2, <2>4, PlainToolFollows DEF a
<1>12. CASE ToolPropose
  <2> DEFINE r == Propose(overlay, disk, a)
  <2>1. /\ a.kind = "propose_patch" /\ overlay' = r[1]
        /\ job' = [job EXCEPT !.obs = r[2]] /\ disk' = disk
    BY <1>12 DEF ToolPropose, a
  <2>2. a.path \in Paths /\ Leads(overlay[a.path], disk[a.path],
                                   Standing(log, a.path))
    BY <1>3, <1>9, <1>10, <2>1 DEF IsAction
  <2>3. /\ \A q \in Paths : q # a.path => r[1][q] = overlay[q]
        /\ r[2].status = "completed" =>
             /\ a.from = Standing(log, a.path)
             /\ Leads(r[1][a.path], disk[a.path], a.to)
             /\ IF a.to = disk[a.path] THEN r[2].report = "removed"
                ELSE /\ r[2].report = "proposed"
                     /\ r[2].edits[a.path] = Entry(disk[a.path], a.to)
        /\ r[2].status # "completed" =>
             /\ Leads(r[1][a.path], disk[a.path], Standing(log, a.path))
             /\ r[2].report \in {"none", "stale"}
    BY <1>3, <2>1, <2>2, ProposeCases
  <2>4. job'.obs = r[2]
    BY <1>3, <2>1 DEF IsJob
  <2> HIDE DEF r
  <2>5. ProposalReported'
    BY <1>1, <1>5, <2>1, <2>3, <2>4 DEF ProposalReported
  <2>6. InspectionReported'
    BY <1>5, <2>1 DEF InspectionReported
  <2>7. \A p \in Paths : Now(p)' =
          IF p = a.path /\ r[2].status = "completed" THEN a.to
          ELSE Standing(log, p)
    BY <1>1, <1>5, <2>1, <2>4 DEF Now, Proposing, Reporting
  <2>8. \A p \in Paths : Leads(overlay'[p], disk[p], Now(p)')
    BY <1>9, <1>10, <2>1, <2>3, <2>7
  <2>9. a.kind \notin WriteKinds
    BY <2>1 DEF WriteKinds
  <2> QED BY <1>1, <1>2, <1>5, <2>1, <2>5, <2>6, <2>8, <2>9,
             PlainToolFollows DEF a
<1>13. CASE ToolInspect
  <2> DEFINE r == Inspect(overlay, disk)
  <2>1. /\ a.kind = "inspect_proposed_diff" /\ overlay' = r[1]
        /\ job' = [job EXCEPT !.obs = r[2]] /\ disk' = disk
    BY <1>13 DEF ToolInspect, a
  <2>2. /\ r[2].report = "files" /\ r[2].edits = r[1]
        /\ \A p \in Paths :
             /\ r[1][p].base = overlay[p].base
             /\ r[1][p].current = overlay[p].current
             /\ (r[1][p].status # "conflict" /\ r[1][p].base # disk[p]) =>
                  r[1][p] = NoEdit
    BY <1>3, InspectCases
  <2>3. job'.obs = r[2]
    BY <1>3, <2>1 DEF IsJob
  <2> HIDE DEF r
  <2>4. \A p \in Paths : Leads(r[1][p], disk[p], Standing(log, p))
    BY <1>9, <1>10, <2>1, <2>2 DEF Leads
  <2>5. \A p \in Paths : Shows(job.obs.edits[p], p)'
    BY <1>1, <2>1, <2>2, <2>3, <2>4 DEF Leads, Shows
  <2>6. InspectionReported'
    BY <2>2, <2>3, <2>5 DEF InspectionReported, IsShown
  <2>7. ProposalReported'
    BY <1>5, <2>1 DEF ProposalReported
  <2>8. \A p \in Paths : Now(p)' = Standing(log, p)
    BY <1>1, <1>5, <2>1 DEF Now, Proposing
  <2>9. \A p \in Paths : Leads(overlay'[p], disk[p], Now(p)')
    BY <2>1, <2>4, <2>8
  <2>10. a.kind \notin WriteKinds
    BY <2>1 DEF WriteKinds
  <2> QED BY <1>1, <1>2, <1>5, <2>1, <2>6, <2>7, <2>9, <2>10,
             PlainToolFollows DEF a
<1>14. CASE ToolWrite
  <2> DEFINE fits == a.kind = "edit_file" \/ disk[a.path] = a.from
             status == IF a.kind = "edit_file" THEN "completed" ELSE "applied"
  <2>1. a.kind \in WriteKinds /\ overlay' = overlay
    BY <1>14 DEF ToolWrite, a
  <2>2. CASE fits
    <3> DEFINE new == Obs(status, "written", NoEdits, disk[a.path] # a.to)
    <3>1. /\ disk' = [disk EXCEPT ![a.path] = a.to]
          /\ job' = [job EXCEPT !.obs = new]
      BY <1>14, <2>2 DEF ToolWrite, a
    <3>2. new.report = "written"
      BY DEF Obs
    <3> HIDE DEF new, fits
    <3> QED BY <1>1, <1>2, <2>1, <3>1, <3>2, WriteFollows DEF a
  <2>3. CASE ~fits
    <3> DEFINE new == Plain("conflict")
    <3>1. job' = [job EXCEPT !.obs = new] /\ disk' = disk
      BY <1>14, <2>3 DEF ToolWrite, a
    <3>2. job'.obs.report # "written"
      BY <1>3, <3>1 DEF Plain, Obs, IsJob
    <3>3. a.kind # "propose_patch" /\ a.kind # "inspect_proposed_diff"
      BY <2>1 DEF WriteKinds
    <3>4. ProposalReported' /\ InspectionReported'
      BY <1>5, <3>3 DEF ProposalReported, InspectionReported
    <3>5. \A p \in Paths : Now(p)' = Standing(log, p)
      BY <1>1, <1>5, <3>3 DEF Now, Proposing
    <3>6. Live' => \A p \in Paths : Leads(overlay'[p], disk[p], Now(p)')
      BY <1>6, <1>9, <2>1, <3>5
    <3> HIDE DEF new, fits
    <3> QED BY <1>1, <1>2, <1>5, <2>1, <3>1, <3>2, <3>4, <3>6,
               PlainToolFollows DEF a
  <2> QED BY <2>2, <2>3
<1> QED BY <1>1, <1>11, <1>12, <1>13, <1>14

LEMMA CompleteFollows ==
  Base /\ Base' /\ BegunInv /\ OverlayInv /\ Complete => OverlayInv'
<1> SUFFICES ASSUME Base, Base', BegunInv, OverlayInv, Complete, Undisturbed'
             PROVE  FollowInv'
  BY DEF OverlayInv
<1> DEFINE a == job.action
           new == [action |-> a, obs |-> job.obs]
<1>1. /\ pc = "complete" /\ a # NoAction /\ pc' = "report"
      /\ reservations' = (reservations \ Reserved(a)) \union {new}
      /\ UNCHANGED <<log, disk, overlay, job, outsideEdits>>
  BY DEF Complete, Executing, bounds
<1>2. FollowInv
  <2>1. Undisturbed' <=> Undisturbed
    BY <1>1 DEF Undisturbed
  <2> QED BY <2>1 DEF OverlayInv
<1>3. new.action = a /\ new.obs = job.obs /\ pc \in Executes
  BY <1>1 DEF Executes
<1>4. Started(log, a.id)
  BY <1>1 DEF BegunInv, BegunJob
<1> HIDE DEF new, a
<1>5. ASSUME NEW p, Changing(p) PROVE Changing(p)'
  <2>1. /\ a.kind \in WriteKinds /\ a.path = p /\ new.obs.report = "written"
        /\ a.id \in Unresolved(log)
    BY <1>1, <1>3, <1>5, ChangingIsOwn DEF a
  <2>2. PICK r \in reservations' : r.action = a /\ r.obs.report = "written"
    BY <1>1, <1>3, <2>1
  <2>3. MayHaveWritten(r)'
    BY <1>1, <2>2 DEF MayHaveWritten
  <2> QED BY <1>1, <1>4, <2>1, <2>2, <2>3 DEF Changing
<1>6. IsChain(log')
  BY <1>1, <1>2 DEF FollowInv
<1>7. FilesFollow'
  BY <1>1, <1>2, <1>5 DEF FollowInv, FilesFollow, Shows
<1>8. Reporting /\ Reporting' /\ (Live' => Live)
  BY <1>1 DEF Reporting, Live, Executes
<1>9. OverlayFollows'
  <2>1. \A p : Now(p)' = Now(p)
    BY <1>1, <1>8 DEF Now, Proposing
  <2> QED BY <1>1, <1>2, <1>5, <1>8, <2>1 DEF FollowInv, OverlayFollows
<1>10. RestoredFollows'
  BY <1>1 DEF RestoredFollows, Restoring
<1>11. ProposalReported' /\ InspectionReported' /\ WriteReported'
  BY <1>1, <1>2, <1>8
  DEF FollowInv, ProposalReported, InspectionReported, WriteReported, IsShown,
      IsOnDisk, Shows
<1>12. ResultsStored'
  <2>1. SUFFICES ASSUME NEW r \in reservations', r.obs # NoObs,
                        r.action.id \in Unresolved(log)
                 PROVE  /\ r.action.kind = "inspect_proposed_diff" =>
                             IsShown(r.obs)
                        /\ r.action.kind \in WriteKinds =>
                             IsOnDisk(r.action, r.obs)
    BY <1>1 DEF ResultsStored, IsShown, IsOnDisk, Shows
  <2>2. CASE r \in reservations
    BY <1>2, <2>1, <2>2 DEF FollowInv, ResultsStored
  <2>3. CASE r = new
    BY <1>2, <1>3, <1>8, <2>3
    DEF FollowInv, InspectionReported, WriteReported, a
  <2> QED BY <1>1, <2>1, <2>2, <2>3
<1> QED BY <1>6, <1>7, <1>9, <1>10, <1>11, <1>12 DEF FollowInv

-----------------------------------------------------------------------------
(* What the log says in the end is what was reported.                      *)

LEMMA StandingIsVisited ==
  ASSUME NEW l, LogsEvents(l), NEW p
  PROVE  Standing(l, p) \in Visited(l, p)
<1> DEFINE before == {i \in Proposals(l, p) : i < Len(l) + 1}
<1>1. Len(l) \in Nat /\ DOMAIN l = 1..Len(l)
  BY AppendGrows DEF LogsEvents
<1>2. CASE before = {}
  BY <1>2 DEF Standing, ProposedBefore, Visited
<1>3. CASE before # {}
  <2>1. before \in SUBSET (1..Len(l))
    BY <1>1 DEF Proposals
  <2>2. Newest(before) \in before
    <3> HIDE DEF before
    <3> QED BY <1>1, <1>3, <2>1, NewestIsLast
  <2> QED BY <1>3, <2>2 DEF Standing, ProposedBefore, Visited
<1> QED BY <1>2, <1>3

(* The report of an action says how its file relates to what stands.       *)
Follows(a, obs) ==
  /\ a.kind = "propose_patch" =>
       IF obs.status = "completed"
       THEN /\ a.from = Standing(log, a.path)
            /\ IF a.to = disk[a.path] THEN obs.report = "removed"
               ELSE /\ obs.report = "proposed"
                    /\ obs.edits[a.path] = Entry(disk[a.path], a.to)
       ELSE obs.report \in {"none", "stale"}
  /\ a.kind = "inspect_proposed_diff" => IsShown(obs)
  /\ a.kind \in WriteKinds => IsOnDisk(a, obs)

(* The edits that the log lists after it.                                  *)
LEMMA ResultShows ==
  ASSUME Base, BegunInv, FollowInv, NEW e, IsAction(e.action),
         LogsEvents(log'), log' = Append(log, e), disk' = disk,
         e.type \in TerminalTypes, e.obs \in Results,
         Follows(e.action, e.obs),
         (e.action.kind \in WriteKinds /\ e.obs.report = "written") =>
           e.action.to = Standing(log, e.action.path),
         Listed(log') = AdvanceEdits(Listed(log), e.action, e.obs),
         NEW p \in Paths,
         Changing(p) => /\ e.action.kind \in WriteKinds /\ e.action.path = p
                        /\ e.obs.report = "written"
  PROVE  disk[p] \in Visited(log', p) /\ Shows(Listed(log)[p], p)'
<1> DEFINE a == e.action
           obs == e.obs
           edits == Listed(log)
           m == Append(log, e)
<1>1. /\ LogsEvents(log) /\ edits \in Overlays /\ disk[p] \in Contents
      /\ edits[p] \in EditSet /\ disk \in [Paths -> Contents]
  BY LogFacts, AtAnyPoint DEF Base, BegunInv, TypedEdits, Overlays, Inv, TypeInv,
     FilesOK
<1>2. /\ Standing(m, p) = IF IsProposal(e, p) THEN a.to
                          ELSE Standing(log, p)
      /\ Visited(m, p) = Visited(log, p) \union
           (IF IsProposal(e, p) THEN {a.to} ELSE {})
  BY <1>1, ProposalsGrow
<1>3. /\ Standing(log', p) = IF IsProposal(e, p) THEN a.to
                             ELSE Standing(log, p)
      /\ Visited(log, p) \subseteq Visited(log', p)
  <2> HIDE DEF m
  <2>1. log' = m
    BY DEF m
  <2> QED BY <1>2, <2>1
<1>4. Standing(log, p) \in Visited(log, p)
  BY <1>1, StandingIsVisited
<1>5. ~Changing(p) => disk[p] \in Visited(log, p) /\ Shows(edits[p], p)
  BY DEF FollowInv, FilesFollow
<1>6. IsProposal(e, p) <=> /\ a.kind = "propose_patch" /\ a.path = p
                           /\ obs.status = "completed"
  BY DEF IsProposal
<1>7. NoEdit.base # disk[p] /\ NoEdit.status # "conflict"
  BY <1>1, NoEditHasNoBase
<1> DEFINE new == Listed(log')[p]
<1>8. SUFFICES /\ disk[p] \in Visited(log', p)
               /\ new.status # "conflict" =>
                    IF Standing(log', p) = disk[p] THEN new = NoEdit
                    ELSE /\ new.base = disk[p]
                         /\ new.current = Standing(log', p)
  BY DEF Shows
<1> HIDE DEF edits, a, obs, m
<1>9. CASE a.kind = "propose_patch"
  <2>1. ~Changing(p) /\ a.path \in Paths
    BY <1>9 DEF WriteKinds, IsAction, a
  <2>2. CASE obs.status = "completed"
    <3>1. /\ a.from = Standing(log, a.path)
          /\ IF a.to = disk[a.path] THEN obs.report = "removed"
             ELSE /\ obs.report = "proposed"
                  /\ obs.edits[a.path] = Entry(disk[a.path], a.to)
      BY <1>9, <2>2 DEF Follows, a, obs
    <3>2. CASE a.to = disk[a.path]
      <4>1. Listed(log') = [edits EXCEPT ![a.path] = NoEdit]
        BY <1>9, <3>1, <3>2 DEF AdvanceEdits, a, obs, edits
      <4> QED BY <1>1, <1>3, <1>5, <1>6, <1>9, <2>1, <2>2, <3>2, <4>1
              DEF Shows, Overlays
    <3>3. CASE a.to # disk[a.path]
      <4>1. Listed(log') = [edits EXCEPT ![a.path] =
                                Entry(disk[a.path], a.to)]
        BY <1>9, <3>1, <3>3 DEF AdvanceEdits, a, obs, edits
      <4> QED BY <1>1, <1>3, <1>5, <1>6, <1>9, <2>1, <2>2, <3>3, <4>1
              DEF Shows, Overlays, Entry
    <3> QED BY <3>2, <3>3
  <2>3. CASE obs.status # "completed"
    <3>1. obs.report \in {"none", "stale"}
      BY <1>9, <2>3 DEF Follows, a, obs
    <3> DEFINE flagged == [edits EXCEPT ![a.path] =
                             IF @ = NoEdit THEN @
                             ELSE [@ EXCEPT !.status = "conflict"]]
    <3>2. Listed(log') \in {edits, flagged}
      BY <1>9, <3>1 DEF AdvanceEdits, a, obs, edits
    <3>3. flagged[p] = edits[p] \/ flagged[p].status = "conflict"
      <4>1. CASE p = a.path /\ edits[p] # NoEdit
        <5>1. flagged[p] = [edits[p] EXCEPT !.status = "conflict"]
          BY <1>1, <4>1 DEF Overlays
        <5> HIDE DEF flagged
        <5> QED BY <1>1, <5>1 DEF EditSet
      <4>2. CASE ~(p = a.path /\ edits[p] # NoEdit)
        BY <1>1, <4>2 DEF Overlays
      <4> QED BY <4>1, <4>2
    <3> HIDE DEF flagged
    <3> QED BY <1>3, <1>5, <1>6, <2>1, <2>3, <3>2, <3>3 DEF Shows
  <2> QED BY <2>2, <2>3
<1>10. CASE a.kind = "inspect_proposed_diff"
  <2>1. IsShown(obs) /\ ~Changing(p)
    BY <1>10 DEF Follows, a, obs, WriteKinds
  <2>2. Listed(log') = obs.edits
    BY <1>10, <2>1 DEF AdvanceEdits, a, obs, edits, IsShown
  <2> QED BY <1>3, <1>5, <1>6, <1>10, <2>1, <2>2 DEF IsShown, Shows
<1>11. CASE a.kind \in WriteKinds /\ obs.report = "written"
  <2>1. /\ a.to = Standing(log, a.path) /\ disk[a.path] = a.to
        /\ a.path \in Paths
    BY <1>11 DEF Follows, IsOnDisk, IsAction, a, obs
  <2>2. /\ a.kind # "propose_patch" /\ a.kind # "inspect_proposed_diff"
    BY <1>11 DEF WriteKinds
  <2>3. Listed(log') = [edits EXCEPT ![a.path] = NoEdit]
    BY <1>11, <2>2 DEF AdvanceEdits, a, obs, edits
  <2>4. CASE p = a.path
    BY <1>1, <1>3, <1>4, <1>6, <2>1, <2>2, <2>3, <2>4 DEF Overlays
  <2>5. CASE p # a.path
    <3>1. ~Changing(p)
      BY <2>5 DEF a
    <3>2. new = edits[p]
      BY <1>1, <2>1, <2>3, <2>5 DEF Overlays
    <3> HIDE DEF new
    <3> QED BY <1>3, <1>5, <1>6, <2>2, <3>1, <3>2 DEF Shows
  <2> QED BY <2>4, <2>5
<1>12. CASE /\ a.kind # "propose_patch" /\ a.kind # "inspect_proposed_diff"
            /\ ~(a.kind \in WriteKinds /\ obs.report = "written")
  <2>1. Listed(log') = edits
    BY <1>12 DEF AdvanceEdits, a, obs, edits
  <2>2. ~Changing(p)
    BY <1>12 DEF a, obs
  <2> QED BY <1>3, <1>5, <1>6, <1>12, <2>1, <2>2 DEF Shows
<1> QED BY <1>9, <1>10, <1>11, <1>12

LEMMA ResultFollows ==
  ASSUME Base, Base', BegunInv, OverlayInv, Undisturbed',
         NEW e, log' = Append(log, e), e.type \in TerminalTypes,
         e.action # NoAction, e.obs \in Results,
         Late(log) = {} \/ ~Has(log, e.action.id, TerminalTypes),
         UNCHANGED <<reservations, disk, overlay, outsideEdits>>,
         FollowInv => Follows(e.action, e.obs),
         \A p \in Paths : Changing(p) =>
           /\ e.action.kind \in WriteKinds /\ e.action.path = p
           /\ e.obs.report = "written",
         \A r \in reservations : r.action.id \notin Unresolved(log'),
         ~Reporting', Live' => Live, Restoring' => Restoring,
         \A p \in Paths : Now(p) = IF IsProposal(e, p) THEN e.action.to
                                   ELSE Standing(log, p)
  PROVE  FollowInv'
<1> DEFINE a == e.action
           m == Append(log, e)
<1>1. /\ LogsEvents(log) /\ LogsEvents(log') /\ LogOK' /\ TypedEdits
      /\ Len(log) \in Nat /\ DOMAIN log = 1..Len(log)
  BY LogFacts DEF Base, Inv, TypeInv, BegunInv, LogOK
<1>2. IsAction(a)
  <2>1. log'[Len(log) + 1] = e /\ Len(log') = Len(log) + 1
    BY <1>1, AppendGrows DEF LogsEvents
  <2>2. Len(log) + 1 \in 1..Len(log')
    BY <1>1, <2>1
  <2> QED BY <1>1, <2>1, <2>2 DEF LogsEvents, IsEvent
<1>3. /\ \A p : Standing(m, p) = IF IsProposal(e, p) THEN a.to
                                  ELSE Standing(log, p)
      /\ IsChain(m) <=>
           /\ IsChain(log)
           /\ \A p \in Paths : IsProposal(e, p) => a.from = Standing(log, p)
      /\ FairLog(m) <=>
           /\ FairLog(log)
           /\ e.type \in TerminalTypes =>
                /\ e.type = "action_recovered" =>
                     e.action.kind # "propose_patch"
                /\ (e.action.kind \in WriteKinds /\ e.obs.report = "written") =>
                     e.action.to = Standing(log, e.action.path)
  BY <1>1, ProposalsGrow
<1>4. log' = m
  OBVIOUS
<1> HIDE DEF m
<1>5. outsideEdits' = 0 /\ FairLog(log')
  BY DEF Undisturbed, FairLog, IsFair
<1>6. /\ Undisturbed
      /\ (a.kind \in WriteKinds /\ e.obs.report = "written") =>
           a.to = Standing(log, a.path)
  BY <1>3, <1>4, <1>5, UndisturbedIsFair
<1>7. FollowInv /\ Follows(a, e.obs)
  BY <1>6 DEF OverlayInv
<1>8. Listed(log') = AdvanceEdits(Listed(log), a, e.obs)
  <2>1. e.type # "working_state_updated" /\ e.type \notin WaitingTypes
    BY DEF TerminalTypes, WaitingTypes
  <2> QED BY <1>1, <2>1, EventLists
<1>9. \A p \in Paths : disk[p] \in Visited(log', p) /\ Shows(Listed(log)[p], p)'
  BY <1>1, <1>2, <1>6, <1>7, <1>8, ResultShows
<1>10. IsChain(log')
  <2>1. ASSUME NEW p \in Paths, IsProposal(e, p)
        PROVE  a.from = Standing(log, p)
    BY <1>7, <2>1 DEF IsProposal, Follows
  <2> QED BY <1>3, <1>4, <1>7, <2>1 DEF FollowInv
<1>11. FilesFollow'
  BY <1>9 DEF FilesFollow
<1>12. \A p \in Paths : Now(p)' = Now(p) /\ Now(p) = Standing(log', p)
  <2>1. \A p \in Paths : Now(p)' = Standing(log', p)
    BY DEF Now, Proposing
  <2> QED BY <1>3, <1>4, <2>1
<1>13. OverlayFollows'
  <2>1. SUFFICES ASSUME Live', NEW p \in Paths
                 PROVE  /\ overlay[p].base = disk[p] =>
                             /\ Now(p) # disk[p]
                             /\ overlay[p].current = Now(p)
                        /\ overlay[p].base # disk[p] => Now(p) = disk[p]
    BY <1>12 DEF OverlayFollows
  <2>2. /\ overlay[p].base = disk[p] => /\ Now(p) # disk[p]
                                        /\ overlay[p].current = Now(p)
        /\ (~Changing(p) /\ overlay[p].base # disk[p]) => Now(p) = disk[p]
    BY <1>7, <2>1 DEF FollowInv, OverlayFollows
  <2>3. ASSUME Changing(p) PROVE Now(p) = disk[p]
    <3>1. /\ a.kind \in WriteKinds /\ a.path = p /\ e.obs.report = "written"
      BY <2>3
    <3>2. disk[p] = a.to /\ a.to = Standing(log, p)
      BY <1>6, <1>7, <3>1 DEF Follows, IsOnDisk
    <3>3. ~IsProposal(e, p)
      BY <3>1 DEF IsProposal, WriteKinds
    <3> QED BY <1>3, <1>4, <1>12, <3>2, <3>3
  <2> QED BY <2>2, <2>3
<1>14. RestoredFollows'
  BY <1>7 DEF FollowInv, RestoredFollows
<1>15. ProposalReported' /\ InspectionReported' /\ WriteReported'
  BY DEF ProposalReported, InspectionReported, WriteReported
<1>16. ResultsStored'
  BY DEF ResultsStored
<1> QED BY <1>10, <1>11, <1>13, <1>14, <1>15, <1>16 DEF FollowInv

LEMMA ReportFollows ==
  Base /\ Base' /\ BegunInv /\ OverlayInv /\ Report => OverlayInv'
<1> SUFFICES ASSUME Base, Base', BegunInv, OverlayInv, Report, Undisturbed'
             PROVE  FollowInv'
  BY DEF OverlayInv
<1> DEFINE a == job.action
           e == Result(ReportType, a, job.obs)
<1>1. /\ pc = "report" /\ pc \in Executes /\ log' = Append(log, e)
      /\ a # NoAction /\ pc' = job.then
      /\ UNCHANGED <<reservations, disk, overlay, outsideEdits>>
  BY DEF Report, Executing, Executes, Observe, bounds
<1>2. e.action = a /\ e.type = ReportType /\ e.obs = job.obs
  BY EventFields
<1> HIDE DEF e, a
<1>3. e.type \in TerminalTypes
  BY <1>2 DEF ReportType, TerminalTypes
<1>4. Late(log) = {} /\ e.obs \in Results
  BY <1>1, <1>2 DEF BegunInv, BegunJob, TypedEdits
<1>5. Reporting /\ job.then \in ReturnsTo
  BY <1>1 DEF Reporting, Base, Inv, TypeInv, JobOK
<1>6. ~Reporting' /\ (Live' => Live) /\ ~Restoring'
  BY <1>1, <1>5 DEF Reporting, Live, Restoring, ReturnsTo, Executes
<1>7. \A p \in Paths : Changing(p) =>
        /\ e.action.kind \in WriteKinds /\ e.action.path = p
        /\ e.obs.report = "written"
  BY <1>1, <1>2, ChangingIsOwn DEF a
<1>8. FollowInv => Follows(e.action, e.obs)
  BY <1>2, <1>5 DEF FollowInv, ProposalReported, InspectionReported,
     WriteReported, Follows, a
<1>9. ASSUME NEW r \in reservations PROVE r.action.id \notin Unresolved(log')
  <2>1. SUFFICES ASSUME r.action.id \in Unresolved(log') PROVE FALSE
    OBVIOUS
  <2>2. r.action.id \in Unresolved(log)
    BY <1>1, <2>1, ReservedStaysOpen
  <2>3. r.action = a
    BY <1>1, <2>2, OwnReservation DEF a
  <2>4. Has(log', a.id, TerminalTypes)
    <3>1. \A id, types : Has(log', id, types) <=>
            \/ Has(log, id, types)
            \/ e.action # NoAction /\ e.action.id = id /\ e.type \in types
      BY <1>1, LogFacts, TracksGrow DEF Base
    <3> QED BY <1>1, <1>2, <1>3, <3>1
  <2> QED BY <2>1, <2>3, <2>4 DEF Unresolved
<1>10. \A p \in Paths : Now(p) = IF IsProposal(e, p) THEN e.action.to
                                 ELSE Standing(log, p)
  BY <1>2, <1>3, <1>5 DEF Now, Proposing, IsProposal, a
<1> QED BY <1>1, <1>2, <1>3, <1>4, <1>6, <1>7, <1>8, <1>9, <1>10, ResultFollows

LEMMA ReconcileFollows ==
  Base /\ Base' /\ BegunInv /\ OverlayInv /\ Reconcile => OverlayInv'
<1> SUFFICES ASSUME Base, Base', BegunInv, OverlayInv, Reconcile, Undisturbed'
             PROVE  FollowInv'
  BY DEF OverlayInv
<1> DEFINE a == ActionOf(log, Pending(log))
           obs == StoredObs(a)
           e == Result("action_recovered", a, obs)
<1>1. /\ log' = Append(log, e) /\ a \in Recorded(log) /\ a.id \in Unresolved(log)
      /\ ~Has(log, a.id, TerminalTypes) /\ obs \in Results
      /\ \E r \in reservations : r.action = a /\ r.obs = obs
  BY RecoveredResult
<1>2. /\ pc = "recover" /\ pc' = pc /\ job' = job
      /\ UNCHANGED <<reservations, disk, overlay, outsideEdits>>
  BY DEF Reconcile, bounds
<1>3. e.action = a /\ e.type = "action_recovered" /\ e.obs = obs
  BY EventFields
<1> HIDE DEF e, a, obs
<1>4. e.type \in TerminalTypes /\ a # NoAction
  BY <1>1, <1>3 DEF TerminalTypes, Recorded
<1>5. a.kind # "propose_patch"
  <2>1. /\ Len(log) \in Nat /\ LogsEvents(log)
    BY LogFacts DEF Base
  <2>2. log'[Len(log) + 1] = e /\ Len(log) + 1 \in DOMAIN log'
    BY <1>1, <2>1, AppendGrows DEF LogsEvents
  <2> QED BY <1>3, <1>4, <2>2 DEF Undisturbed
<1>6. \A x, y \in Unresolved(log) : x = y
  BY DEF Base, OpenInv, OpenLog
<1>7. ASSUME NEW r \in reservations, r.action.id \in Unresolved(log)
      PROVE  r.action = a /\ r.obs = obs
  <2>1. r.action.id = a.id
    BY <1>1, <1>6, <1>7
  <2> QED BY <1>1, <2>1, OneReservation
<1>8. obs # NoObs
  BY <1>1, NoObsAssumption DEF Results, ToolStatuses, Overlays, EditSet
<1>9. \A p \in Paths : Changing(p) =>
        /\ e.action.kind \in WriteKinds /\ e.action.path = p
        /\ e.obs.report = "written"
  BY <1>2, <1>3, <1>7, <1>8 DEF Changing, MayHaveWritten
<1>10. FollowInv => Follows(e.action, e.obs)
  BY <1>1, <1>3, <1>5, <1>8 DEF FollowInv, ResultsStored, Follows
<1>11. ASSUME NEW r \in reservations PROVE r.action.id \notin Unresolved(log')
  <2>1. SUFFICES ASSUME r.action.id \in Unresolved(log') PROVE FALSE
    OBVIOUS
  <2>2. r.action.id \in Unresolved(log)
    BY <1>1, <2>1, ReservedStaysOpen
  <2>3. r.action = a
    BY <1>7, <2>2
  <2>4. Has(log', a.id, TerminalTypes)
    <3>1. \A id, types : Has(log', id, types) <=>
            \/ Has(log, id, types)
            \/ e.action # NoAction /\ e.action.id = id /\ e.type \in types
      BY <1>1, LogFacts, TracksGrow DEF Base
    <3> QED BY <1>3, <1>4, <3>1
  <2> QED BY <2>1, <2>3, <2>4 DEF Unresolved
<1>12. /\ ~Reporting /\ ~Reporting' /\ Live /\ Restoring
  BY <1>2 DEF Reporting, Live, Restoring
<1>13. \A p \in Paths : Now(p) = IF IsProposal(e, p) THEN e.action.to
                                 ELSE Standing(log, p)
  BY <1>3, <1>5, <1>12 DEF Now, Proposing, IsProposal
<1> QED BY <1>1, <1>2, <1>3, <1>4, <1>9, <1>10, <1>11, <1>12, <1>13,
           ResultFollows

-----------------------------------------------------------------------------
(* The overlay that a resumed call restores.                               *)

VisitedBy(l, p, k) ==
  {Original} \union {l[i].action.to : i \in {j \in Proposals(l, p) : j <= k}}

(* The proposals up to the k-th event.                                     *)
LEMMA PrefixGrows ==
  ASSUME NEW l, LogsEvents(l), NEW p, NEW k \in Nat, k <= Len(l)
  PROVE  /\ ProposedBefore(l, p, k + 1) \in VisitedBy(l, p, k)
         /\ k + 1 <= Len(l) =>
              /\ ProposedBefore(l, p, k + 2) =
                   IF k + 1 \in Proposals(l, p) THEN l[k + 1].action.to
                   ELSE ProposedBefore(l, p, k + 1)
              /\ VisitedBy(l, p, k + 1) = VisitedBy(l, p, k) \union
                   (IF k + 1 \in Proposals(l, p) THEN {l[k + 1].action.to}
                    ELSE {})
         /\ VisitedBy(l, p, Len(l)) = Visited(l, p)
         /\ k = 0 => /\ ProposedBefore(l, p, k + 1) = Original
                     /\ VisitedBy(l, p, k) = {Original}
<1> DEFINE n == Len(l)
           P == Proposals(l, p)
           Before(j) == {i \in P : i < j}
<1>1. n \in Nat /\ P \subseteq 1..n
  BY AppendGrows DEF LogsEvents, Proposals
<1>2. Before(k + 1) = {j \in P : j <= k}
  BY <1>1
<1>3. ProposedBefore(l, p, k + 1) \in VisitedBy(l, p, k)
  <2>1. CASE Before(k + 1) = {}
    BY <2>1 DEF ProposedBefore, VisitedBy
  <2>2. CASE Before(k + 1) # {}
    <3>1. Before(k + 1) \subseteq 1..n
      BY <1>1
    <3>2. Newest(Before(k + 1)) \in Before(k + 1)
      <4> HIDE DEF Before
      <4> QED BY <1>1, <2>2, <3>1, NewestIsLast
    <3>3. ProposedBefore(l, p, k + 1) = l[Newest(Before(k + 1))].action.to
      BY <2>2 DEF ProposedBefore
    <3>4. Newest(Before(k + 1)) \in {j \in P : j <= k}
      BY <1>2, <3>2
    <3> HIDE DEF Before
    <3> QED BY <3>3, <3>4 DEF VisitedBy
  <2> QED BY <2>1, <2>2
<1>4. ASSUME k + 1 <= n
      PROVE  /\ ProposedBefore(l, p, k + 2) =
                  IF k + 1 \in P THEN l[k + 1].action.to
                  ELSE ProposedBefore(l, p, k + 1)
             /\ VisitedBy(l, p, k + 1) = VisitedBy(l, p, k) \union
                  (IF k + 1 \in P THEN {l[k + 1].action.to} ELSE {})
  <2>1. \A j \in P : /\ j < k + 2 <=> j < k + 1 \/ j = k + 1
                     /\ j <= k + 1 <=> j <= k \/ j = k + 1
    BY <1>1
  <2>2. CASE k + 1 \in P
    <3>1. Before(k + 2) \subseteq 1..n /\ k + 1 \in Before(k + 2)
          /\ \A j \in Before(k + 2) : j <= k + 1
      BY <1>1, <2>2
    <3>2. /\ Newest(Before(k + 2)) \in Before(k + 2)
          /\ k + 1 <= Newest(Before(k + 2))
      <4> HIDE DEF Before
      <4> QED BY <1>1, <3>1, NewestIsLast
    <3>3. Newest(Before(k + 2)) = k + 1
      <4>1. Newest(Before(k + 2)) \in 1..n /\ Newest(Before(k + 2)) <= k + 1
        BY <3>1, <3>2
      <4> HIDE DEF Before
      <4> QED BY <3>2, <4>1
    <3>4. ProposedBefore(l, p, k + 2) = l[k + 1].action.to
      BY <3>1, <3>3 DEF ProposedBefore
    <3>5. {j \in P : j <= k + 1} = {j \in P : j <= k} \union {k + 1}
      BY <2>1, <2>2
    <3> HIDE DEF P
    <3> QED BY <2>2, <3>4, <3>5 DEF VisitedBy, P
  <2>3. CASE k + 1 \notin P
    <3>1. /\ Before(k + 2) = Before(k + 1)
          /\ {j \in P : j <= k + 1} = {j \in P : j <= k}
      BY <2>1, <2>3
    <3> QED BY <2>3, <3>1 DEF VisitedBy, ProposedBefore
  <2> QED BY <2>2, <2>3
<1>5. VisitedBy(l, p, n) = Visited(l, p)
  <2>1. {j \in P : j <= n} = P
    BY <1>1
  <2> QED BY <2>1 DEF VisitedBy, Visited
<1>6. k = 0 => /\ ProposedBefore(l, p, k + 1) = Original
               /\ VisitedBy(l, p, k) = {Original}
  <2>1. k = 0 => Before(k + 1) = {}
    BY <1>1
  <2> QED BY <1>2, <2>1 DEF ProposedBefore, VisitedBy
<1> QED BY <1>3, <1>4, <1>5, <1>6

(* What the proposals up to the k-th event make of the entry of a file.    *)
EntryAfter(l, d, p, k) ==
  LET to == ProposedBefore(l, p, k + 1)
  IN  IF Listed(l)[p] # NoEdit /\ d[p] \in VisitedBy(l, p, k) /\ to # d[p]
      THEN Entry(d[p], to) ELSE NoEdit

LEMMA ReplayStep ==
  ASSUME NEW l, LogsEvents(l), OnceProposed(l), IsChain(l),
         NEW d \in [Paths -> Contents], NEW k \in Nat, k + 1 <= Len(l),
         NEW o \in Overlays, \A p \in Paths : o[p] = EntryAfter(l, d, p, k)
  PROVE  LET new == IF Replayed(l, k + 1)
                    THEN Propose(o, d, l[k + 1].action)[1] ELSE o
         IN  /\ new \in Overlays
             /\ \A p \in Paths : new[p] = EntryAfter(l, d, p, k + 1)
<1> DEFINE e == l[k + 1]
           a == e.action
           new == IF Replayed(l, k + 1) THEN Propose(o, d, a)[1] ELSE o
<1>1. /\ Len(l) \in Nat /\ DOMAIN l = 1..Len(l) /\ k + 1 \in 1..Len(l)
      /\ k <= Len(l) /\ (k + 1) + 1 = k + 2 /\ IsEvent(e, Len(l))
  BY AppendGrows DEF LogsEvents
<1>2. \A p : /\ ProposedBefore(l, p, k + 1) \in VisitedBy(l, p, k)
             /\ ProposedBefore(l, p, k + 2) =
                  IF k + 1 \in Proposals(l, p) THEN a.to
                  ELSE ProposedBefore(l, p, k + 1)
             /\ VisitedBy(l, p, k + 1) = VisitedBy(l, p, k) \union
                  (IF k + 1 \in Proposals(l, p) THEN {a.to} ELSE {})
  BY <1>1, PrefixGrows
<1>3. \A p : k + 1 \in Proposals(l, p) <=>
               /\ e.type \in TerminalTypes /\ a.kind = "propose_patch"
               /\ a.path = p /\ e.obs.status = "completed"
  BY <1>1 DEF Proposals
<1>4. Replayed(l, k + 1) <=> /\ k + 1 \in Proposals(l, a.path)
                             /\ Listed(l)[a.path] # NoEdit
  BY <1>1, <1>3 DEF Replayed, OnceProposed, Listed
<1>5. \A p : EntryAfter(l, d, p, k + 1) =
               IF /\ Listed(l)[p] # NoEdit /\ d[p] \in VisitedBy(l, p, k + 1)
                  /\ ProposedBefore(l, p, k + 2) # d[p]
               THEN Entry(d[p], ProposedBefore(l, p, k + 2)) ELSE NoEdit
  BY <1>1 DEF EntryAfter
<1>6. CASE ~Replayed(l, k + 1)
  <2>1. new = o
    BY <1>6
  <2>2. ASSUME NEW p \in Paths
        PROVE  EntryAfter(l, d, p, k + 1) = EntryAfter(l, d, p, k)
    <3>1. CASE Listed(l)[p] = NoEdit
      BY <3>1 DEF EntryAfter
    <3>2. CASE Listed(l)[p] # NoEdit
      <4>1. k + 1 \notin Proposals(l, p)
        BY <1>3, <1>4, <1>6, <3>2
      <4>2. /\ ProposedBefore(l, p, k + 2) = ProposedBefore(l, p, k + 1)
            /\ VisitedBy(l, p, k + 1) = VisitedBy(l, p, k)
        BY <1>2, <4>1
      <4> QED BY <1>5, <4>2 DEF EntryAfter
    <3> QED BY <3>1, <3>2
  <2> HIDE DEF new
  <2> QED BY <2>1, <2>2 DEF new
<1>7. CASE Replayed(l, k + 1)
  <2> DEFINE p == a.path
             from == ProposedBefore(l, p, k + 1)
  <2>1. /\ k + 1 \in Proposals(l, p) /\ Listed(l)[p] # NoEdit
        /\ IsAction(a) /\ a.kind = "propose_patch"
        /\ \A q : q # p => k + 1 \notin Proposals(l, q)
    BY <1>1, <1>3, <1>4, <1>7 DEF IsEvent
  <2>2. p \in Paths /\ o[p] \in EditSet /\ d[p] \in Contents
        /\ NoEdit.base # d[p]
    BY <2>1, NoEditHasNoBase DEF IsAction, Overlays
  <2>3. a.from = from
    BY <2>1, <2>2 DEF IsChain
  <2>4. new = Propose(o, d, a)[1] /\ new \in Overlays
    BY <1>7, <2>1, ProposeTyped
  <2>5. o[p] = IF d[p] \in VisitedBy(l, p, k) /\ from # d[p]
               THEN Entry(d[p], from) ELSE NoEdit
    BY <2>1, <2>2 DEF EntryAfter
  <2>6. Entry(d[p], from) # NoEdit /\ Entry(d[p], from).base = d[p]
        /\ Entry(d[p], from).current = from
    BY <2>2 DEF Entry
  <2> DEFINE seen == IF o[p] = NoEdit THEN d[p] ELSE o[p].current
             none == [o EXCEPT ![p] = NoEdit]
             after == [o EXCEPT ![p] = Entry(d[p], a.to)]
  <2>7. Propose(o, d, a) =
          IF a.from # seen THEN <<o, Plain("conflict")>>
          ELSE IF a.to = d[p]
          THEN <<none, Obs("completed", "removed", NoEdits, FALSE)>>
          ELSE <<after, Obs("completed", "proposed", after, FALSE)>>
    <3>1. o[p] = NoEdit \/ o[p].base = d[p]
      BY <2>5, <2>6
    <3> QED BY <2>1, <3>1, ProposeCurrent
  <2>8. /\ none[p] = NoEdit /\ after[p] = Entry(d[p], a.to)
        /\ \A q \in Paths : q # p => none[q] = o[q] /\ after[q] = o[q]
    BY <2>2 DEF Overlays
  <2>9. \A q \in Paths : q # p =>
          EntryAfter(l, d, q, k + 1) = EntryAfter(l, d, q, k)
    <3>1. ASSUME NEW q \in Paths, q # p
          PROVE  EntryAfter(l, d, q, k + 1) = EntryAfter(l, d, q, k)
      <4>1. /\ ProposedBefore(l, q, k + 2) = ProposedBefore(l, q, k + 1)
            /\ VisitedBy(l, q, k + 1) = VisitedBy(l, q, k)
        BY <1>2, <2>1, <3>1
      <4> QED BY <1>5, <4>1 DEF EntryAfter
    <3> QED BY <3>1
  <2>10. EntryAfter(l, d, p, k + 1) =
           IF d[p] \in VisitedBy(l, p, k) \union {a.to} /\ a.to # d[p]
           THEN Entry(d[p], a.to) ELSE NoEdit
    BY <1>2, <1>5, <2>1
  <2>11. from \in VisitedBy(l, p, k)
    BY <1>2
  <2> HIDE DEF new, seen, none, after, from, p, e, a
  <2>12. new[p] = EntryAfter(l, d, p, k + 1)
         /\ \A q \in Paths : q # p => new[q] = o[q]
    <3>1. CASE d[p] \notin VisitedBy(l, p, k)
      <4>1. o[p] = NoEdit /\ from # d[p] /\ seen = d[p]
        BY <2>5, <2>11, <3>1 DEF seen
      <4>2. new = o
        BY <2>3, <2>4, <2>7, <4>1
      <4> QED BY <2>10, <3>1, <4>1, <4>2
    <3>2. CASE d[p] \in VisitedBy(l, p, k)
      <4>1. seen = from
        BY <2>5, <2>6, <3>2 DEF seen
      <4>2. CASE a.to = d[p]
        <5>1. new = none
          BY <2>3, <2>4, <2>7, <4>1, <4>2
        <5> QED BY <2>8, <2>10, <4>2, <5>1
      <4>3. CASE a.to # d[p]
        <5>1. new = after
          BY <2>3, <2>4, <2>7, <4>1, <4>3
        <5> QED BY <2>8, <2>10, <3>2, <4>3, <5>1
      <4> QED BY <4>2, <4>3
    <3> QED BY <3>1, <3>2
  <2> QED BY <2>4, <2>9, <2>12 DEF new, a, e, p
<1> QED BY <1>6, <1>7

LEMMA RestoredCases ==
  ASSUME NEW l, LogsEvents(l), OnceProposed(l), IsChain(l),
         NEW d \in [Paths -> Contents], NEW p \in Paths
  PROVE  RestoredOverlay(l, d)[p] =
           IF /\ Listed(l)[p] # NoEdit /\ d[p] \in Visited(l, p)
              /\ Standing(l, p) # d[p]
           THEN Entry(d[p], Standing(l, p)) ELSE NoEdit
<1> DEFINE n == Len(l)
<1>1. n \in Nat
  BY AppendGrows DEF LogsEvents
<1>2. PICK f : Replays(f, l, d) /\ RestoredOverlay(l, d) = f[n]
  BY RestoredBySteps
<1> DEFINE S == {k \in Nat : k <= n =>
                   /\ f[k] \in Overlays
                   /\ \A q \in Paths : f[k][q] = EntryAfter(l, d, q, k)}
<1>3. 0 \in S
  <2>1. f[0] \in Overlays /\ \A q \in Paths : f[0][q] = NoEdit
    BY <1>2, EntriesAreEdits DEF Replays, NoEdits
  <2>2. ASSUME NEW q \in Paths PROVE EntryAfter(l, d, q, 0) = NoEdit
    <3>1. /\ ProposedBefore(l, q, 0 + 1) = Original
          /\ VisitedBy(l, q, 0) = {Original}
      BY <1>1, PrefixGrows
    <3> QED BY <3>1 DEF EntryAfter
  <2> QED BY <2>1, <2>2
<1>4. ASSUME NEW k \in Nat, k \in S PROVE k + 1 \in S
  <2>1. SUFFICES ASSUME k + 1 <= n
                 PROVE  /\ f[k + 1] \in Overlays
                        /\ \A q \in Paths :
                             f[k + 1][q] = EntryAfter(l, d, q, k + 1)
    OBVIOUS
  <2>2. /\ k + 1 \in 1..n /\ (k + 1) - 1 = k /\ f[k] \in Overlays
        /\ \A q \in Paths : f[k][q] = EntryAfter(l, d, q, k)
    BY <1>1, <1>4, <2>1
  <2> DEFINE new == IF Replayed(l, k + 1)
                    THEN Propose(f[k], d, l[k + 1].action)[1] ELSE f[k]
  <2>3. f[k + 1] = new
    BY <1>2, <2>2 DEF Replays
  <2>4. /\ new \in Overlays
        /\ \A q \in Paths : new[q] = EntryAfter(l, d, q, k + 1)
    BY <2>1, <2>2, ReplayStep
  <2> HIDE DEF new
  <2> QED BY <2>3, <2>4
<1> HIDE DEF S
<1>5. n \in S
  BY <1>1, <1>3, <1>4, SetInduction
<1>6. RestoredOverlay(l, d)[p] = EntryAfter(l, d, p, n)
  BY <1>1, <1>2, <1>5 DEF S
<1>7. VisitedBy(l, p, n) = Visited(l, p)
  BY <1>1, PrefixGrows
<1> QED BY <1>6, <1>7 DEF EntryAfter, Standing

(* A recording step behind which the overlay shows what stands.            *)
LEMMA RecordingShows ==
  ASSUME Base, Base', BegunInv, OverlayInv, Recording, Undisturbed',
         FollowInv => OverlayFollows' /\ RestoredFollows'
  PROVE  FollowInv'
<1>1. /\ Undisturbed /\ (IsChain(log) => IsChain(log'))
      /\ \A p : Standing(log', p) = Standing(log, p)
                /\ Visited(log', p) = Visited(log, p)
      /\ Listed(log') = Listed(log) /\ Unresolved(log') = Unresolved(log)
      /\ \A p \in Paths : Changing(p) => Changing(p)'
      /\ ~Reporting'
      /\ UNCHANGED <<reservations, disk>>
  BY RecordingLeaves
<1>2. FollowInv
  BY <1>1 DEF OverlayInv
<1>3. IsChain(log')
  BY <1>1, <1>2 DEF FollowInv
<1>4. FilesFollow'
  BY <1>1, <1>2 DEF FollowInv, FilesFollow, Shows
<1>5. ProposalReported' /\ InspectionReported' /\ WriteReported'
  BY <1>1 DEF ProposalReported, InspectionReported, WriteReported
<1>6. ResultsStored'
  BY <1>1, <1>2 DEF FollowInv, ResultsStored, IsShown, IsOnDisk, Shows
<1> QED BY <1>2, <1>3, <1>4, <1>5, <1>6 DEF FollowInv

LEMMA RestoreFollows ==
  ASSUME Base, Base', BegunInv, OverlayInv, Recording, Undisturbed',
         pc' = "recover", overlay' = RestoredOverlay(log', disk)
  PROVE  FollowInv'
<1>1. /\ IsChain(log) => IsChain(log')
      /\ \A p : Standing(log', p) = Standing(log, p)
                /\ Visited(log', p) = Visited(log, p)
      /\ Listed(log') = Listed(log)
      /\ \A p \in Paths : Changing(p) => Changing(p)'
      /\ ~Reporting' /\ disk' = disk
  BY RecordingLeaves
<1>2. /\ LogsEvents(log') /\ disk \in [Paths -> Contents]
      /\ OnceProposed(log')
  <2>1. Records
    BY RecordingRecords
  <2>2. BegunLog'
    BY <2>1, BegunRecords
  <2> QED BY <2>2, AtAnyPoint, <1>1
          DEF Base, Inv, TypeInv, LogOK, FilesOK, BegunLog
<1>3. ASSUME FollowInv PROVE OverlayFollows' /\ RestoredFollows'
  <2>1. ASSUME NEW p \in Paths
        PROVE  overlay'[p] =
                 IF /\ Listed(log)[p] # NoEdit /\ disk[p] \in Visited(log, p)
                    /\ Standing(log, p) # disk[p]
                 THEN Entry(disk[p], Standing(log, p)) ELSE NoEdit
    <3>1. IsChain(log')
      BY <1>1, <1>3 DEF FollowInv
    <3> QED BY <1>1, <1>2, <3>1, RestoredCases
  <2>2. \A p \in Paths : NoEdit.base # disk[p] /\ NoEdit.status # "conflict"
    BY <1>2, NoEditHasNoBase
  <2>3. \A p \in Paths : Entry(disk[p], Standing(log, p)).base = disk[p]
                         /\ Entry(disk[p], Standing(log, p)).current =
                              Standing(log, p)
    BY DEF Entry
  <2>4. \A p \in Paths : ~Changing(p)' =>
          disk[p] \in Visited(log, p) /\ Shows(Listed(log)[p], p)
    BY <1>1, <1>3 DEF FollowInv, FilesFollow
  <2>5. \A p \in Paths : Now(p)' = Standing(log, p)
    BY <1>1 DEF Now, Proposing
  <2>6. OverlayFollows'
    <3>1. SUFFICES ASSUME NEW p \in Paths
                   PROVE  /\ overlay'[p].base = disk[p] =>
                               /\ Standing(log, p) # disk[p]
                               /\ overlay'[p].current = Standing(log, p)
                          /\ (~Changing(p)' /\ overlay'[p].base # disk[p]) =>
                               Standing(log, p) = disk[p]
      BY <1>1, <2>5 DEF OverlayFollows
    <3> QED BY <2>1, <2>2, <2>3, <2>4 DEF Shows
  <2>7. RestoredFollows'
    BY <1>1, <2>1, <2>3 DEF RestoredFollows
  <2> QED BY <2>6, <2>7
<1> QED BY <1>3, RecordingShows

(* Before the first call nothing was proposed and nothing is changed.      *)
LEMMA StartLoopFollows ==
  Base /\ Base' /\ BegunInv /\ OverlayInv /\ StartLoop => OverlayInv'
<1> SUFFICES ASSUME Base, Base', BegunInv, OverlayInv, StartLoop, Undisturbed'
             PROVE  FollowInv'
  BY DEF OverlayInv
<1>1. Recording /\ log = <<>> /\ pc = "idle" /\ pc' = "step"
      /\ overlay' = overlay
  BY DEF Recording, StartLoop, MayCall
<1>2. overlay = NoEdits
  BY <1>1 DEF BegunInv, TypedEdits
<1>3. /\ \A p : Standing(log', p) = Standing(log, p)
      /\ ~Reporting' /\ disk' = disk
  BY <1>1, RecordingLeaves
<1>4. \A p : Proposals(log, p) = {}
  BY <1>1 DEF Proposals
<1>5. \A p : Standing(log, p) = Original /\ Visited(log, p) = {Original}
  <2>1. ASSUME NEW p PROVE Standing(log, p) = Original
    <3>1. {i \in Proposals(log, p) : i < Len(log) + 1} = {}
      BY <1>4
    <3> QED BY <3>1 DEF Standing, ProposedBefore
  <2> QED BY <1>4, <2>1 DEF Visited
<1>6. \A p : ~Changing(p)
  BY <1>1 DEF Changing, Started, Has, Of
<1>7. ASSUME FollowInv PROVE OverlayFollows' /\ RestoredFollows'
  <2>1. \A p \in Paths : disk[p] = Original
    BY <1>5, <1>6, <1>7 DEF FollowInv, FilesFollow
  <2>2. \A p \in Paths : Now(p)' = disk[p]
    BY <1>3, <1>5, <2>1 DEF Now, Proposing
  <2>3. \A p \in Paths : overlay'[p] = NoEdit /\ NoEdit.base # disk[p]
    <3>1. disk \in [Paths -> Contents]
      BY AtAnyPoint DEF Base, Inv, TypeInv, FilesOK
    <3> QED BY <1>1, <1>2, <3>1, NoEditHasNoBase DEF NoEdits
  <2>4. OverlayFollows'
    BY <1>3, <2>2, <2>3 DEF OverlayFollows
  <2>5. RestoredFollows'
    BY <2>3 DEF RestoredFollows
  <2> QED BY <2>4, <2>5
<1> QED BY <1>1, <1>7, RecordingShows

LEMMA RecordingStepFollows ==
  Base /\ Base' /\ BegunInv /\ OverlayInv /\ Recording => OverlayInv'
<1> SUFFICES ASSUME Base, Base', BegunInv, OverlayInv, Recording
             PROVE  OverlayInv'
  OBVIOUS
<1>1. CASE StartLoop
  BY <1>1, StartLoopFollows
<1>2. CASE ~StartLoop
  <2>1. \/ /\ Live' => Live /\ ~Reporting /\ overlay' = overlay
           /\ Restoring' => Restoring /\ overlay' = overlay
        \/ pc' = "recover" /\ overlay' = RestoredOverlay(log', disk)
    BY <1>2, RecordingLives DEF Base
  <2>2. CASE pc' = "recover" /\ overlay' = RestoredOverlay(log', disk)
    BY <2>2, RestoreFollows DEF OverlayInv
  <2>3. CASE /\ Live' => Live /\ ~Reporting /\ overlay' = overlay
             /\ Restoring' => Restoring /\ overlay' = overlay
    BY <2>3, RecordingFollows
  <2> QED BY <2>1, <2>2, <2>3
<1> QED BY <1>1, <1>2

-----------------------------------------------------------------------------
(* All steps together.                                                     *)

LEMMA OverlayInit == Init => OverlayInv
<1> SUFFICES ASSUME Init PROVE FollowInv
  BY DEF OverlayInv
<1>1. /\ log = <<>> /\ reservations = {} /\ pc = "idle"
      /\ disk = [p \in Paths |-> Original]
  BY DEF Init
<1>2. Listed(log) = NoEdits
  BY <1>1, InitHolds, InitIds, InitKnows, NothingListed
<1>3. \A p : Proposals(log, p) = {}
  <2>1. DOMAIN log = {}
    BY <1>1
  <2> QED BY ONLY <2>1 DEF Proposals
<1>4. \A p : Standing(log, p) = Original /\ Visited(log, p) = {Original}
  <2>1. ASSUME NEW p PROVE Standing(log, p) = Original
    <3>1. {i \in Proposals(log, p) : i < Len(log) + 1} = {}
      BY <1>3
    <3> QED BY <3>1 DEF Standing, ProposedBefore
  <2> QED BY <1>3, <2>1 DEF Visited
<1>5. IsChain(log)
  BY <1>3 DEF IsChain
<1>6. FilesFollow
  BY <1>1, <1>2, <1>4 DEF FilesFollow, Shows, NoEdits
<1>7. ~Live /\ ~Restoring /\ ~Reporting
  BY <1>1 DEF Live, Restoring, Reporting, Executes
<1>8. ResultsStored
  BY <1>1 DEF ResultsStored
<1> QED BY <1>5, <1>6, <1>7, <1>8
        DEF FollowInv, OverlayFollows, RestoredFollows, ProposalReported,
            InspectionReported, WriteReported

LEMMA SameFollows == OverlayInv /\ UNCHANGED vars => OverlayInv'
<1> SUFFICES ASSUME OverlayInv, UNCHANGED vars, Undisturbed' PROVE FollowInv'
  BY DEF OverlayInv
<1>1. UNCHANGED <<log, reservations, disk, overlay, pc, job, outsideEdits>>
  BY DEF vars, bounds
<1>2. FollowInv
  <2>1. Undisturbed
    BY <1>1 DEF Undisturbed
  <2> QED BY <2>1 DEF OverlayInv
<1>3. IsChain(log')
  BY <1>1, <1>2 DEF FollowInv
<1>4. \A p : Changing(p)' <=> Changing(p)
  BY <1>1 DEF Changing, MayHaveWritten
<1>5. (Live' <=> Live) /\ (Restoring' <=> Restoring) /\ (Reporting' <=> Reporting)
  BY <1>1 DEF Live, Restoring, Reporting
<1>6. FilesFollow'
  BY <1>1, <1>2, <1>4 DEF FollowInv, FilesFollow, Shows
<1>7. OverlayFollows'
  <2>1. \A p : Now(p)' = Now(p)
    BY <1>1, <1>5 DEF Now, Proposing
  <2> QED BY <1>1, <1>2, <1>4, <1>5, <2>1 DEF FollowInv, OverlayFollows
<1>8. RestoredFollows'
  BY <1>1, <1>2, <1>5 DEF FollowInv, RestoredFollows
<1>9. ProposalReported' /\ InspectionReported' /\ WriteReported'
  BY <1>1, <1>2, <1>5
  DEF FollowInv, ProposalReported, InspectionReported, WriteReported, IsShown,
      IsOnDisk, Shows
<1>10. ResultsStored'
  BY <1>1, <1>2 DEF FollowInv, ResultsStored, IsShown, IsOnDisk, Shows
<1> QED BY <1>3, <1>6, <1>7, <1>8, <1>9, <1>10 DEF FollowInv

(* An edit by another hand disturbs.                                       *)
LEMMA OutsideFollows == outsideEdits \in Nat /\ OutsideEdit => OverlayInv'
<1> SUFFICES ASSUME outsideEdits \in Nat, OutsideEdit PROVE ~Undisturbed'
  BY DEF OverlayInv
<1>1. outsideEdits' = outsideEdits + 1
  BY DEF OutsideEdit
<1>2. outsideEdits' # 0
  BY <1>1
<1> QED BY <1>2 DEF Undisturbed

LEMMA NextFollows ==
  /\ Base /\ Base' /\ outsideEdits \in Nat /\ BegunInv /\ OverlayInv
  /\ [Next]_vars
  => OverlayInv'
<1> SUFFICES ASSUME Base, Base', outsideEdits \in Nat, BegunInv, OverlayInv,
                    [Next]_vars
             PROVE  OverlayInv'
  OBVIOUS
<1>1. CASE Execute
  BY <1>1, AuthorizeReadFollows, AskFollows, AuthorizeSideEffectFollows,
     ReserveFollows, StartFollows, ToolFollows, CompleteFollows, ReportFollows
  DEF Execute
<1>2. CASE Recording
  BY <1>2, RecordingStepFollows
<1>3. CASE Reconcile \/ Decide \/ Gate
  BY <1>3, ReconcileFollows, DecideFollows, GateFollows
<1>4. CASE Answer \/ Approve \/ Reject
  BY <1>4, AnswerFollows, ApproveFollows, RejectFollows
<1>5. CASE OutsideEdit
  BY <1>5, OutsideFollows
<1>6. CASE UNCHANGED vars
  BY <1>6, SameFollows
<1> QED BY <1>1, <1>2, <1>3, <1>4, <1>5, <1>6
        DEF Next, Progress, Loop, Continue, UserCall, Recording

LEMMA OverlayInvHolds ==
  Spec => [](Base /\ outsideEdits \in Nat /\ BegunInv /\ OverlayInv)
<1> DEFINE I == Base /\ outsideEdits \in Nat /\ BegunInv
<1>1. Init => OverlayInv
  BY OverlayInit
<1>2. I /\ I' /\ OverlayInv /\ [Next]_vars => OverlayInv'
  BY NextFollows
<1>3. Spec => []I
  BY BegunHolds
<1> QED BY <1>1, <1>2, <1>3, PTL DEF Spec

(* Where the loop decides, the overlay of the call and the edits that the  *)
(* working state lists say the same of every file: as long as nobody else  *)
(* edits the files, a write is of what was proposed last, and no recovery  *)
(* settles a proposal, an edit that is not in conflict is listed exactly   *)
(* if the overlay holds one for the file's content, and it leads to the    *)
(* same content (RuntimeRecovery._virtual_context_actions rebuilds the     *)
(* overlay from the log, advance_agent_working_state the list).            *)
THEOREM OverlayStaysMatched == Spec => []OverlayMatchesState
<1>1. Base /\ BegunInv /\ OverlayInv => OverlayMatchesState
  <2> SUFFICES ASSUME Base, BegunInv, OverlayInv, pc = "step", Undisturbed,
                      NEW p \in Paths,
                      job.state.edits[p].status # "conflict"
               PROVE  LET edit == job.state.edits[p]
                      IN  /\ edit # NoEdit <=> overlay[p].base = disk[p]
                          /\ edit # NoEdit =>
                               /\ edit.base = disk[p]
                               /\ edit.current = overlay[p].current
    BY DEF OverlayMatchesState
  <2>1. job.state.edits = Listed(log)
    <3>1. job.state = LatestState(log) /\ Late(log) = {}
      BY DEF Base, KnowInv, Holds, Learned
    <3> QED BY <3>1, LearnedIsListed DEF Base
  <2>2. ~Changing(p)
    BY DEF Base, OpenInv, NothingOpen, Changing
  <2>3. Shows(Listed(log)[p], p)
    BY <2>2 DEF OverlayInv, FollowInv, FilesFollow
  <2>4. Live /\ Now(p) = Standing(log, p)
    BY DEF Live, Now, Proposing, Reporting
  <2>5. /\ overlay[p].base = disk[p] => /\ Standing(log, p) # disk[p]
                                        /\ overlay[p].current =
                                             Standing(log, p)
        /\ overlay[p].base # disk[p] => Standing(log, p) = disk[p]
    BY <2>2, <2>4 DEF OverlayInv, FollowInv, OverlayFollows
  <2>6. NoEdit.base # disk[p]
    <3>1. disk \in [Paths -> Contents]
      BY AtAnyPoint DEF Base, Inv, TypeInv, FilesOK
    <3> QED BY <3>1, NoEditHasNoBase
  <2> QED BY <2>1, <2>3, <2>5, <2>6 DEF Shows
<1> QED BY <1>1, OverlayInvHolds, PTL
=============================================================================
