--------------------------- MODULE AgentLoopProofs ---------------------------
(***************************************************************************)
(* Theorems of AgentLoop for every value of its constants: the shape of    *)
(* its state, the tool call budget of a call, what the user is asked to    *)
(* approve, the ids of its actions, and what may finish.  They rest on two *)
(* inductive invariants: Inv, and IdInv, which relates the decisions that  *)
(* the log records, the snapshots that count them and the working state of *)
(* the running call.                                                       *)
(*                                                                         *)
(* ToolCalls and RestoredOverlay are recursive functions of the log.  What *)
(* they compute is proved by induction on its length; SetInduction states  *)
(* induction for a set, which follows from the well-foundedness of <.      *)
(***************************************************************************)
EXTENDS AgentLoop, WellFoundedInduction, TLAPS

-----------------------------------------------------------------------------
(* Induction over the natural numbers.                                     *)

Below == {p \in Nat \X Nat : p[1] < p[2]}

LEMMA BelowIsWellFounded == IsWellFoundedOn(Below, Nat)
<1>1. Below = OpToRel(<, Nat)
  BY DEF Below, OpToRel
<1> QED BY <1>1, NatLessThanWellFounded

(* A set with 0 and the successor of each of its numbers has all of them.  *)
LEMMA SetInduction ==
  ASSUME NEW S, 0 \in S, \A n \in Nat : n \in S => n + 1 \in S
  PROVE  Nat \subseteq S
<1> DEFINE T == Nat \ S
<1>1. SUFFICES ASSUME T # {} PROVE FALSE
  OBVIOUS
<1>2. T \subseteq Nat
  OBVIOUS
<1> HIDE DEF T
<1>3. PICK x \in T : \A y \in T : ~(<<y, x>> \in Below)
  BY <1>1, <1>2, BelowIsWellFounded, WFMin
<1> USE DEF T
<1>4. x \in Nat /\ x # 0 /\ x - 1 \in Nat
  BY <1>2
<1>5. <<x - 1, x>> \in Below
  BY <1>4 DEF Below
<1>6. x - 1 \in S
  BY <1>3, <1>4, <1>5
<1>7. x \in S
  BY <1>4, <1>6
<1> QED BY <1>7

(* A non-empty set of positions of a log has a newest one.                 *)
LEMMA NewestIsLast ==
  ASSUME NEW n \in Nat, NEW P, P \subseteq 1..n, P # {}
  PROVE  Newest(P) \in P /\ \A j \in P : j <= Newest(P)
<1> DEFINE T == {k \in Nat : \A j \in P : j <= k}
<1>1. n \in T
  OBVIOUS
<1>2. T \subseteq Nat /\ T # {}
  BY <1>1
<1> HIDE DEF T
<1>3. PICK x \in T : \A y \in T : ~(<<y, x>> \in Below)
  BY <1>2, BelowIsWellFounded, WFMin
<1> USE DEF T
<1>4. x \in Nat /\ \A j \in P : j <= x
  BY <1>3
<1>5. x \in P
  <2>1. SUFFICES ASSUME x \notin P PROVE FALSE
    OBVIOUS
  <2>2. \A j \in P : j \in Nat /\ j >= 1 /\ j <= x - 1
    BY <1>4, <2>1
  <2>3. x - 1 \in Nat
    <3>1. PICK j \in P : TRUE
      OBVIOUS
    <3>2. x \in Nat /\ j \in Nat /\ j >= 1 /\ j <= x - 1
      BY <1>4, <2>2
    <3> QED BY <3>2
  <2>4. x - 1 \in T
    BY <2>2, <2>3
  <2>5. x - 1 < x
    BY <1>4
  <2>6. <<x - 1, x>> \in Below
    BY <1>4, <2>3, <2>5 DEF Below
  <2> HIDE DEF T
  <2> QED BY <1>3, <2>4, <2>6
<1>6. \E i \in P : \A j \in P : j <= i
  BY <1>4, <1>5
<1> QED BY <1>6 DEF Newest

-----------------------------------------------------------------------------
(* Logs and their events.                                                  *)

IsLog(l) == l \in Seq({l[i] : i \in DOMAIN l})

LEMMA AppendGrows ==
  ASSUME NEW l, IsLog(l), NEW e
  PROVE  /\ Len(l) \in Nat /\ DOMAIN l = 1..Len(l)
         /\ IsLog(Append(l, e))
         /\ Len(Append(l, e)) = Len(l) + 1
         /\ DOMAIN Append(l, e) = 1..(Len(l) + 1)
         /\ \A i \in 1..Len(l) : Append(l, e)[i] = l[i]
         /\ Append(l, e)[Len(l) + 1] = e
<1> DEFINE S == {l[i] : i \in DOMAIN l} \union {e}
           m == Append(l, e)
<1>1. l \in Seq(S) /\ e \in S
  BY DEF IsLog
<1> HIDE DEF S
<1>2. /\ Len(l) \in Nat /\ DOMAIN l = 1..Len(l) /\ m \in Seq(S)
      /\ Len(m) = Len(l) + 1 /\ DOMAIN m = 1..(Len(l) + 1)
      /\ \A i \in 1..Len(l) : m[i] = l[i]
      /\ m[Len(l) + 1] = e
  BY <1>1
<1> HIDE DEF m
<1>3. IsLog(m)
  BY <1>2 DEF IsLog
<1> QED BY <1>2, <1>3 DEF m

LEMMA EventFields ==
  ASSUME NEW type, NEW a, NEW obs, NEW state
  PROVE  /\ ActionEvent(type, a) =
              [type |-> type, action |-> a, obs |-> NoObs,
               update |-> NoUpdate, state |-> NoState, checkpoint |-> 0,
               baseline |-> NoContent, answer |-> NoAnswer]
         /\ Result(type, a, obs) =
              [type |-> type, action |-> a, obs |-> obs,
               update |-> NoUpdate, state |-> NoState, checkpoint |-> 0,
               baseline |-> NoContent, answer |-> NoAnswer]
         /\ Snapshot(state) =
              [type |-> "working_state_updated", action |-> NoAction,
               obs |-> NoObs, update |-> NoUpdate, state |-> state,
               checkpoint |-> 0, baseline |-> NoContent,
               answer |-> NoAnswer]
<1>1. ActionEvent(type, a) =
              [type |-> type, action |-> a, obs |-> NoObs,
               update |-> NoUpdate, state |-> NoState, checkpoint |-> 0,
               baseline |-> NoContent, answer |-> NoAnswer]
  BY DEF ActionEvent, Event
<1>2. Result(type, a, obs) =
              [type |-> type, action |-> a, obs |-> obs,
               update |-> NoUpdate, state |-> NoState, checkpoint |-> 0,
               baseline |-> NoContent, answer |-> NoAnswer]
  <2> DEFINE e == ActionEvent(type, a)
  <2>1. Result(type, a, obs) = [e EXCEPT !.obs = obs]
    BY DEF Result, ActionEvent
  <2>2. e = [type |-> type, action |-> a, obs |-> NoObs,
             update |-> NoUpdate, state |-> NoState, checkpoint |-> 0,
             baseline |-> NoContent, answer |-> NoAnswer]
    BY <1>1
  <2> HIDE DEF e
  <2> QED BY <2>1, <2>2
<1>3. Snapshot(state) =
              [type |-> "working_state_updated", action |-> NoAction,
               obs |-> NoObs, update |-> NoUpdate, state |-> state,
               checkpoint |-> 0, baseline |-> NoContent,
               answer |-> NoAnswer]
  BY DEF Snapshot, Event
<1> QED BY <1>1, <1>2, <1>3

-----------------------------------------------------------------------------
(* The inductive invariant.                                                *)

(* The points of AgentRuntime.execute, and where it may return to.         *)
Executes  == {"execute", "ask", "reserve", "start", "tool", "complete",
              "report"}
ReturnsTo == {"advance", "resumed", "written", "diffed", "requested",
              "validated"}
(* The loop has an action: from its decision to the advance of the state.  *)
InLoop == \/ pc \in {"gate", "advance"}
          \/ pc \in Executes /\ job.then = "advance"

EditSet  == [base : Contents \union {NoContent},
             current : Contents \union {NoContent},
             status : {"none", "proposed", "inspected", "conflict"}]
Overlays == [Paths -> EditSet]

(* An action costs some calls, and a change names a file and its contents. *)
IsAction(a) ==
  /\ a.size \in Nat
  /\ a.kind \in WriteKinds \union {"propose_patch"} =>
       a.path \in Paths /\ a.from \in Contents /\ a.to \in Contents

EventTypes ==
  TerminalTypes \union WaitingTypes \union StartTypes \union
    {"working_state_updated", "decision_recorded", "action_authorized",
     "approval_granted", "approval_rejected", "input_received",
     "action_recovery_required"}

(* n is the length of the log: a request has the number of an event.       *)
IsEvent(e, n) ==
  /\ e.type \in EventTypes
  /\ e.checkpoint \in 0..n
  /\ e.action # NoAction => IsAction(e.action)
  /\ e.type \in StartTypes \union TerminalTypes \union WaitingTypes =>
       IsAction(e.action)

LogsEvents(l) == IsLog(l) /\ \A i \in 1..Len(l) : IsEvent(l[i], Len(l))
LogOK == LogsEvents(log)

(* What the tools report, and so what a reservation may hold.              *)
ToolStatuses == {"completed", "failed", "conflict", "applied",
                 "verification_failed"}
Results == [status : ToolStatuses,
            report : {"none", "removed", "proposed", "stale", "files",
                      "written"},
            edits : Overlays, changed : BOOLEAN]
StoreOK ==
  /\ \A r \in reservations : r.obs # NoObs => r.obs.status \in ToolStatuses
  /\ \A r, q \in reservations : r.action.id = q.action.id => r = q

IsCycle(c) == DOMAIN c = {"write", "next"} /\ c.next \in 0..Len(Commands)

FilesOK ==
  /\ disk \in [Paths -> Contents]
  /\ overlay \in Overlays
  /\ DOMAIN run = {"checkpoint", "question", "cycle"}
  /\ run.checkpoint \in 0..Len(log) /\ IsCycle(run.cycle)

IsJob(j) ==
  DOMAIN j = {"call", "step", "limit", "initial", "action", "update", "obs",
              "then", "retry", "state", "reason", "cycle"}

JobOK ==
  /\ IsJob(job) /\ IsCycle(job.cycle)
  /\ job.step \in Nat /\ job.limit \in 0..MaxSteps /\ job.initial \in Nat
  /\ pc \in Executes => job.then \in ReturnsTo
  /\ pc \in Executes \union {"gate"} => IsAction(job.action)
  /\ InLoop => 1 <= job.step /\ job.step <= job.limit
  /\ pc \in {"step", "end"} => 1 <= job.step /\ job.step <= job.limit + 1
  /\ ~InLoop /\ pc \notin {"step", "end"} => job.step = 0

TypeInv == LogOK /\ StoreOK /\ FilesOK /\ JobOK

(* Before its action starts, a loop has room for all of its calls.         *)
BudgetInv ==
  /\ job.step > 0 /\ job.limit > 0 =>
       ToolCalls(log) - job.initial <= Budget
  /\ InLoop /\ pc \in {"gate", "execute", "ask", "reserve", "start"} =>
       ToolCalls(log) - job.initial + job.action.size <= Budget

(* What the gates of the loop have established of the action it executes,  *)
(* and that no earlier observation of the call passes for its own.         *)
Waits(obs) == obs # NoObs /\ obs.status = "approval_required"
GateInv ==
  /\ pc \in {"recover", "resume"} => job.obs = NoObs
  /\ (\/ pc \in {"wait", "step", "gate"}
      \/ pc = "execute" /\ job.then = "advance") => ~Waits(job.obs)
  /\ pc = "complete" => job.obs.status \in ToolStatuses
  /\ (pc \in Executes /\ job.then = "advance"
        /\ job.action.kind = "finish") =>
       CompletionReady(ApplyUpdate(job.state, job.update))
  /\ (pc = "advance" /\ job.action.kind = "finish"
        /\ job.obs.status = "completed") =>
       CompletionReady(ApplyUpdate(job.state, job.update))
  /\ (pc = "execute" /\ job.then = "advance"
        /\ job.action.kind = "apply_patch") =>
       LET edit == job.state.edits[job.action.path]
       IN  /\ Inspected(edit)
           /\ edit.base = job.action.from /\ edit.current = job.action.to

-----------------------------------------------------------------------------
(* The tool calls of a log are the sum of what its events cost.            *)

Cost(e) == IF e.type \in StartTypes THEN e.action.size ELSE 0
Charged(l) == IsLog(l) /\ \A i \in 1..Len(l) : Cost(l[i]) \in Nat

(* f is the sum over each prefix of l, up to the first n events.           *)
Sums(f, l, n) ==
  /\ f \in [0..n -> Nat] /\ f[0] = 0
  /\ \A k \in 1..n : f[k] = f[k - 1] + Cost(l[k])

LEMMA SumsExist ==
  ASSUME NEW l, Charged(l)
  PROVE  \E f : Sums(f, l, Len(l))
<1> DEFINE S == {n \in Nat : n <= Len(l) => \E f : Sums(f, l, n)}
<1>1. Len(l) \in Nat
  BY AppendGrows DEF Charged
<1>2. 0 \in S
  <2>1. Sums([k \in 0..0 |-> 0], l, 0)
    BY DEF Sums
  <2> QED BY <2>1
<1>3. ASSUME NEW n \in Nat, n \in S PROVE n + 1 \in S
  <2>1. SUFFICES ASSUME n + 1 <= Len(l)
                 PROVE  \E f : Sums(f, l, n + 1)
    OBVIOUS
  <2>2. PICK f : Sums(f, l, n)
    BY <1>1, <1>3, <2>1
  <2> DEFINE c == Cost(l[n + 1])
             g == [k \in 0..(n + 1) |-> IF k = n + 1 THEN f[n] + c ELSE f[k]]
  <2>3. c \in Nat /\ f[n] \in Nat
    BY <1>1, <2>1, <2>2 DEF Charged, Sums
  <2>4. g \in [0..(n + 1) -> Nat] /\ g[0] = 0
    <3> HIDE DEF c
    <3> QED BY <2>2, <2>3 DEF Sums
  <2>5. ASSUME NEW k \in 1..(n + 1) PROVE g[k] = g[k - 1] + Cost(l[k])
    <3>1. CASE k = n + 1
      <4>1. k - 1 = n /\ n # n + 1 /\ k \in 0..(n + 1) /\ n \in 0..(n + 1)
        BY <3>1
      <4> HIDE DEF c
      <4>2. g[k] = f[n] + c /\ g[k - 1] = f[n]
        BY <3>1, <4>1
      <4> QED BY <4>2, <3>1 DEF c
    <3>2. CASE k # n + 1
      <4>1. k \in 1..n /\ k - 1 # n + 1 /\ k - 1 \in 0..(n + 1)
        BY <3>2
      <4> HIDE DEF c
      <4>2. g[k] = f[k] /\ g[k - 1] = f[k - 1]
        BY <3>2, <4>1
      <4> QED BY <4>1, <4>2, <2>2 DEF Sums
    <3> QED BY <3>1, <3>2
  <2> HIDE DEF g
  <2>6. Sums(g, l, n + 1)
    BY <2>4, <2>5 DEF Sums
  <2> QED BY <2>6
<1> HIDE DEF S
<1>4. Len(l) \in S
  BY <1>1, <1>2, <1>3, SetInduction
<1> QED BY <1>1, <1>4 DEF S

LEMMA SumsAgree ==
  ASSUME NEW l, NEW m, NEW n \in Nat, NEW p \in Nat, n <= p,
         \A i \in 1..n : l[i] = m[i],
         NEW f, Sums(f, l, n), NEW g, Sums(g, m, p)
  PROVE  f[n] = g[n]
<1> DEFINE S == {k \in Nat : k <= n => f[k] = g[k]}
<1>1. 0 \in S
  BY DEF Sums
<1>2. ASSUME NEW k \in Nat, k \in S PROVE k + 1 \in S
  <2>1. SUFFICES ASSUME k + 1 <= n PROVE f[k + 1] = g[k + 1]
    OBVIOUS
  <2>2. k + 1 \in 1..n /\ k + 1 \in 1..p /\ (k + 1) - 1 = k
    BY <2>1
  <2>3. f[k] = g[k]
    BY <1>2, <2>1
  <2>4. f[k + 1] = f[k] + Cost(l[k + 1]) /\ g[k + 1] = g[k] + Cost(m[k + 1])
    BY <2>2 DEF Sums
  <2> QED BY <2>2, <2>3, <2>4
<1> HIDE DEF S
<1>3. n \in S
  BY <1>1, <1>2, SetInduction
<1> QED BY <1>3 DEF S

LEMMA ToolCallsSum ==
  ASSUME NEW l, Charged(l)
  PROVE  \E f : Sums(f, l, Len(l)) /\ ToolCalls(l) = f[Len(l)]
<1> DEFINE F(f) == [n \in 0..Len(l) |->
                      IF n = 0 THEN 0
                      ELSE f[n - 1] + (IF l[n].type \in StartTypes
                                       THEN l[n].action.size ELSE 0)]
           cost == CHOOSE f : f = F(f)
<1>1. Len(l) \in Nat
  BY AppendGrows DEF Charged
<1>2. PICK f : Sums(f, l, Len(l))
  BY SumsExist
<1>3. f = F(f)
  BY <1>1, <1>2 DEF Sums, Cost
<1>4. cost = F(cost)
  BY <1>3
<1>5. ToolCalls(l) = cost[Len(l)]
  BY DEF ToolCalls
<1> DEFINE S == {k \in Nat : k <= Len(l) => cost[k] = f[k]}
<1>6. \A k \in 0..Len(l) :
        cost[k] = IF k = 0 THEN 0 ELSE cost[k - 1] + Cost(l[k])
  <2> HIDE DEF cost
  <2> QED BY <1>4 DEF Cost
<1> HIDE DEF cost
<1>7. 0 \in S
  BY <1>1, <1>2, <1>6 DEF Sums
<1>8. ASSUME NEW k \in Nat, k \in S PROVE k + 1 \in S
  <2>1. SUFFICES ASSUME k + 1 <= Len(l) PROVE cost[k + 1] = f[k + 1]
    OBVIOUS
  <2>2. k + 1 \in 1..Len(l) /\ k + 1 \in 0..Len(l) /\ k + 1 # 0
        /\ (k + 1) - 1 = k
    BY <1>1, <2>1
  <2>3. cost[k] = f[k]
    BY <1>1, <1>8, <2>1
  <2>4. f[k + 1] = f[k] + Cost(l[k + 1])
    BY <1>2, <2>2 DEF Sums
  <2>5. cost[k + 1] = cost[k] + Cost(l[k + 1])
    BY <1>6, <2>2
  <2> QED BY <2>3, <2>4, <2>5
<1> HIDE DEF S
<1>9. Len(l) \in S
  BY <1>1, <1>7, <1>8, SetInduction
<1> QED BY <1>1, <1>2, <1>5, <1>9 DEF S

(* An appended event adds its cost.                                        *)
LEMMA ToolCallsGrow ==
  ASSUME NEW l, Charged(l), NEW e, Cost(e) \in Nat
  PROVE  /\ Charged(Append(l, e))
         /\ ToolCalls(l) \in Nat
         /\ ToolCalls(Append(l, e)) = ToolCalls(l) + Cost(e)
<1> DEFINE m == Append(l, e)
           n == Len(l)
<1>1. /\ n \in Nat /\ IsLog(m) /\ Len(m) = n + 1
      /\ \A i \in 1..n : m[i] = l[i]
      /\ m[n + 1] = e
  BY AppendGrows DEF Charged
<1> HIDE DEF m
<1>2. Charged(m)
  <2>1. ASSUME NEW i \in 1..(n + 1) PROVE Cost(m[i]) \in Nat
    <3>1. CASE i = n + 1
      BY <1>1, <3>1
    <3>2. CASE i # n + 1
      <4>1. i \in 1..n
        BY <1>1, <3>2
      <4> QED BY <1>1, <4>1 DEF Charged
    <3> QED BY <3>1, <3>2
  <2> QED BY <1>1, <2>1 DEF Charged
<1>3. PICK f : Sums(f, l, n) /\ ToolCalls(l) = f[n]
  BY ToolCallsSum
<1>4. PICK g : Sums(g, m, n + 1) /\ ToolCalls(m) = g[n + 1]
  BY <1>1, <1>2, ToolCallsSum
<1>5. f[n] = g[n]
  <2> DEFINE p == n + 1
  <2>1. p \in Nat /\ n \in Nat /\ n <= p /\ \A i \in 1..n : l[i] = m[i]
    BY <1>1
  <2>2. Sums(f, l, n) /\ Sums(g, m, p)
    BY <1>3, <1>4
  <2> HIDE DEF n, p
  <2> QED BY <2>1, <2>2, SumsAgree
<1>6. f[n] \in Nat /\ g[n + 1] = g[n] + Cost(e)
  <2>1. n \in 0..n /\ n + 1 \in 1..(n + 1) /\ (n + 1) - 1 = n
    BY <1>1
  <2> HIDE DEF n
  <2> QED BY <1>1, <1>3, <1>4, <2>1 DEF Sums
<1> QED BY <1>2, <1>3, <1>4, <1>5, <1>6 DEF m

LEMMA ToolCallsAreNat ==
  ASSUME NEW l, Charged(l)
  PROVE  ToolCalls(l) \in Nat
<1>1. Cost([type |-> "none"]) = 0
  BY DEF Cost, StartTypes
<1> QED BY <1>1, ToolCallsGrow

-----------------------------------------------------------------------------
(* Iteration: from x0, the step k applies G[k].                            *)

Iterates(f, N, X, x0, G) ==
  /\ f \in [0..N -> X] /\ f[0] = x0
  /\ \A k \in 1..N : f[k] = G[k][f[k - 1]]

LEMMA IterationExists ==
  ASSUME NEW N \in Nat, NEW X, NEW x0 \in X, NEW G \in [1..N -> [X -> X]]
  PROVE  \E f : Iterates(f, N, X, x0, G)
<1> DEFINE P(n, f) == /\ f \in [0..n -> X] /\ f[0] = x0
                      /\ \A k \in 1..n : f[k] = G[k][f[k - 1]]
           S == {n \in Nat : n <= N => \E f : P(n, f)}
<1>1. 0 \in S
  <2>1. P(0, [k \in 0..0 |-> x0])
    OBVIOUS
  <2> HIDE DEF P
  <2> QED BY <2>1
<1>2. ASSUME NEW n \in Nat, n \in S PROVE n + 1 \in S
  <2>1. SUFFICES ASSUME n + 1 <= N PROVE \E f : P(n + 1, f)
    OBVIOUS
  <2>2. PICK f : P(n, f)
    BY <1>2, <2>1
  <2> DEFINE x == G[n + 1][f[n]]
             g == [k \in 0..(n + 1) |-> IF k = n + 1 THEN x ELSE f[k]]
  <2>3. n + 1 \in 1..N /\ f[n] \in X
    BY <2>1, <2>2
  <2>4. x \in X
    BY <2>3
  <2>5. g \in [0..(n + 1) -> X] /\ g[0] = x0
    <3> HIDE DEF x
    <3> QED BY <2>2, <2>4
  <2>6. ASSUME NEW k \in 1..(n + 1) PROVE g[k] = G[k][g[k - 1]]
    <3>1. CASE k = n + 1
      <4>1. k - 1 = n /\ n # n + 1 /\ k \in 0..(n + 1) /\ n \in 0..(n + 1)
        BY <3>1
      <4> HIDE DEF x
      <4>2. g[k] = x /\ g[k - 1] = f[n]
        BY <3>1, <4>1
      <4> HIDE DEF g
      <4> QED BY <4>2, <3>1 DEF x
    <3>2. CASE k # n + 1
      <4>1. k \in 1..n /\ k - 1 # n + 1 /\ k \in 0..(n + 1)
            /\ k - 1 \in 0..(n + 1)
        BY <3>2
      <4> HIDE DEF x
      <4>2. g[k] = f[k] /\ g[k - 1] = f[k - 1]
        BY <3>2, <4>1
      <4> HIDE DEF g
      <4> QED BY <4>1, <4>2, <2>2
    <3> QED BY <3>1, <3>2
  <2> HIDE DEF g
  <2>7. P(n + 1, g)
    BY <2>5, <2>6
  <2> HIDE DEF P
  <2> QED BY <2>7
<1> HIDE DEF S
<1>3. N \in S
  BY <1>1, <1>2, SetInduction
<1> QED BY <1>3 DEF S, Iterates
-----------------------------------------------------------------------------
(* The overlay.                                                            *)

LEMMA EntriesAreEdits ==
  /\ NoEdit \in EditSet
  /\ NoEdits \in Overlays
  /\ \A base, current \in Contents : Entry(base, current) \in EditSet
  /\ \A edit \in EditSet, status \in {"conflict", "inspected"} :
       [edit EXCEPT !.status = status] \in EditSet
BY DEF NoEdit, NoEdits, EditSet, Overlays, Entry

LEMMA ResultsAreTyped ==
  /\ \A status \in ToolStatuses,
        report \in {"none", "removed", "proposed", "stale", "files", "written"},
        edits \in Overlays, changed \in BOOLEAN :
       Obs(status, report, edits, changed) \in Results
  /\ \A status \in ToolStatuses : Plain(status) \in Results
<1>1. NoEdits \in Overlays
  BY EntriesAreEdits
<1>2. \A status \in ToolStatuses,
        report \in {"none", "removed", "proposed", "stale", "files", "written"},
        edits \in Overlays, changed \in BOOLEAN :
       Obs(status, report, edits, changed) \in Results
  BY DEF Obs, Results
<1>3. \A status \in ToolStatuses : Plain(status) \in Results
  BY <1>1, <1>2 DEF Plain
<1> QED BY <1>2, <1>3

LEMMA ProposeTyped ==
  ASSUME NEW o \in Overlays, NEW d \in [Paths -> Contents],
         NEW a, IsAction(a), a.kind = "propose_patch"
  PROVE  /\ Propose(o, d, a)[1] \in Overlays
         /\ Propose(o, d, a)[2].status \in {"completed", "conflict"}
         /\ Propose(o, d, a)[2] \in Results
<1> DEFINE p     == a.path
           stale == Stale(o, d, p)
           fresh == o[p] = NoEdit \/ stale
           base  == IF fresh THEN d[p] ELSE o[p].base
           seen  == IF fresh THEN d[p] ELSE o[p].current
           entry == Entry(base, a.to)
           none  == [o EXCEPT ![p] = NoEdit]
           reset == IF stale THEN none ELSE o
           moved == [o EXCEPT ![p].status = "conflict"]
           after == [o EXCEPT ![p] = entry]
<1>1. p \in Paths /\ a.to \in Contents /\ d[p] \in Contents
  BY DEF IsAction
<1>2. o[p] \in EditSet
  BY <1>1 DEF Overlays
<1>3. none \in Overlays /\ moved \in Overlays
  BY <1>1, <1>2, EntriesAreEdits DEF Overlays
<1>4. entry \in EditSet
  <2>1. base \in Contents \union {NoContent}
    BY <1>1, <1>2 DEF EditSet
  <2> HIDE DEF base
  <2> QED BY <1>1, <2>1 DEF Entry, EditSet
<1>5. after \in Overlays /\ reset \in Overlays
  <2> HIDE DEF entry, none, stale
  <2> QED BY <1>1, <1>3, <1>4 DEF Overlays
<1>6. Propose(o, d, a) =
        IF stale /\ a.from # d[p]
        THEN <<moved, Obs("conflict", "stale", moved, FALSE)>>
        ELSE IF a.from # seen THEN <<reset, Plain("conflict")>>
        ELSE IF a.to = base
             THEN <<none, Obs("completed", "removed", NoEdits, FALSE)>>
        ELSE <<after, Obs("completed", "proposed", after, FALSE)>>
  BY DEF Propose
<1> HIDE DEF stale, seen, base, none, reset, moved, after, p
<1>8. CASE stale /\ a.from # d[p]
  <2>1. Propose(o, d, a) = <<moved, Obs("conflict", "stale", moved, FALSE)>>
    BY <1>6, <1>8
  <2>2. Obs("conflict", "stale", moved, FALSE) \in Results
    BY <1>3, ResultsAreTyped DEF ToolStatuses
  <2> QED BY <1>3, <2>1, <2>2 DEF Obs
<1>9. CASE ~(stale /\ a.from # d[p]) /\ a.from # seen
  <2>1. Propose(o, d, a) = <<reset, Plain("conflict")>>
    BY <1>6, <1>9
  <2>2. Plain("conflict") \in Results
    BY ResultsAreTyped DEF ToolStatuses
  <2> QED BY <1>5, <2>1, <2>2 DEF Obs, Plain
<1>10. CASE ~(stale /\ a.from # d[p]) /\ a.from = seen /\ a.to = base
  <2>1. Propose(o, d, a) =
          <<none, Obs("completed", "removed", NoEdits, FALSE)>>
    BY <1>6, <1>10
  <2>2. Obs("completed", "removed", NoEdits, FALSE) \in Results
    BY EntriesAreEdits, ResultsAreTyped DEF ToolStatuses
  <2> QED BY <1>3, <2>1, <2>2 DEF Obs
<1>11. CASE ~(stale /\ a.from # d[p]) /\ a.from = seen /\ a.to # base
  <2>1. Propose(o, d, a) =
          <<after, Obs("completed", "proposed", after, FALSE)>>
    BY <1>6, <1>11
  <2>2. Obs("completed", "proposed", after, FALSE) \in Results
    BY <1>5, ResultsAreTyped DEF ToolStatuses
  <2> QED BY <1>5, <2>1, <2>2 DEF Obs, Plain
<1> QED BY <1>8, <1>9, <1>10, <1>11

LEMMA InspectTyped ==
  ASSUME NEW o \in Overlays, NEW d
  PROVE  /\ Inspect(o, d)[1] \in Overlays
         /\ Inspect(o, d)[2].status \in {"completed", "conflict"}
         /\ Inspect(o, d)[2] \in Results
<1> DEFINE stale == {p \in Paths : Stale(o, d, p)}
           flagged == [p \in Paths |-> IF p \in stale
                         THEN [o[p] EXCEPT !.status = "conflict"] ELSE o[p]]
           viewed == [p \in Paths |-> IF o[p] = NoEdit THEN NoEdit
                         ELSE [o[p] EXCEPT !.status = "inspected"]]
<1>1. \A p \in Paths : o[p] \in EditSet
  BY DEF Overlays
<1>2. flagged \in Overlays /\ viewed \in Overlays
  <2> HIDE DEF stale
  <2> QED BY <1>1, EntriesAreEdits DEF Overlays
<1>3. Inspect(o, d) =
        IF stale # {} THEN <<flagged, Obs("conflict", "files", flagged, FALSE)>>
        ELSE <<viewed, Obs("completed", "files", viewed, FALSE)>>
  BY DEF Inspect
<1> HIDE DEF stale, flagged, viewed
<1>5. CASE stale # {}
  <2>1. Inspect(o, d) = <<flagged, Obs("conflict", "files", flagged, FALSE)>>
    BY <1>3, <1>5
  <2>2. Obs("conflict", "files", flagged, FALSE) \in Results
    BY <1>2, ResultsAreTyped DEF ToolStatuses
  <2> QED BY <1>2, <2>1, <2>2 DEF Obs
<1>6. CASE stale = {}
  <2>1. Inspect(o, d) = <<viewed, Obs("completed", "files", viewed, FALSE)>>
    BY <1>3, <1>6
  <2>2. Obs("completed", "files", viewed, FALSE) \in Results
    BY <1>2, ResultsAreTyped DEF ToolStatuses
  <2> QED BY <1>2, <2>1, <2>2 DEF Obs
<1> QED BY <1>5, <1>6

(* The proposals that a resumed call replays, and what each makes of the   *)
(* overlay.                                                                *)
Replayed(l, i) ==
  /\ l[i].type \in TerminalTypes
  /\ l[i].action.kind = "propose_patch"
  /\ l[i].obs.status = "completed"
  /\ i = At(l, l[i].action.id, TerminalTypes)
  /\ Rebuilt(l).edits[l[i].action.path] # NoEdit
Replays(f, l, d) ==
  /\ f[0] = NoEdits
  /\ \A k \in 1..Len(l) :
       f[k] = IF Replayed(l, k) THEN Propose(f[k - 1], d, l[k].action)[1]
              ELSE f[k - 1]

LEMMA RestoredBySteps ==
  ASSUME NEW l, LogsEvents(l), NEW d \in [Paths -> Contents]
  PROVE  \E f : Replays(f, l, d) /\ RestoredOverlay(l, d) = f[Len(l)]
<1> DEFINE F(f) == [n \in 0..Len(l) |->
                      IF n = 0 THEN NoEdits
                      ELSE IF Replayed(l, n)
                           THEN Propose(f[n - 1], d, l[n].action)[1]
                           ELSE f[n - 1]]
           folded == CHOOSE f : f = F(f)
           G == [k \in 1..Len(l) |-> [o \in Overlays |->
                   IF Replayed(l, k) THEN Propose(o, d, l[k].action)[1] ELSE o]]
<1>1. Len(l) \in Nat /\ \A i \in 1..Len(l) : IsEvent(l[i], Len(l))
  BY AppendGrows DEF LogsEvents
<1>2. G \in [1..Len(l) -> [Overlays -> Overlays]]
  <2>1. ASSUME NEW k \in 1..Len(l), NEW o \in Overlays, Replayed(l, k)
        PROVE  Propose(o, d, l[k].action)[1] \in Overlays
    <3>1. IsAction(l[k].action) /\ l[k].action.kind = "propose_patch"
      BY <1>1, <2>1 DEF IsEvent, Replayed
    <3> QED BY <3>1, ProposeTyped
  <2> QED BY <2>1
<1>3. PICK f : Iterates(f, Len(l), Overlays, NoEdits, G)
  <2> HIDE DEF G
  <2> QED BY <1>1, <1>2, EntriesAreEdits, IterationExists
<1>4. \A k \in 1..Len(l) :
        f[k] = IF Replayed(l, k) THEN Propose(f[k - 1], d, l[k].action)[1]
               ELSE f[k - 1]
  <2>1. \A k \in 1..Len(l) : f[k - 1] \in Overlays
    BY <1>1, <1>3 DEF Iterates
  <2> QED BY <1>3, <2>1 DEF Iterates
<1>5. f = F(f)
  <2> HIDE DEF G
  <2> QED BY <1>1, <1>3, <1>4 DEF Iterates
<1>6. folded = F(folded)
  <2> HIDE DEF F
  <2> QED BY <1>5
<1>7. RestoredOverlay(l, d) = folded[Len(l)]
  BY DEF RestoredOverlay, Replayed
<1>8. Replays(folded, l, d)
  <2> HIDE DEF folded
  <2> QED BY <1>1, <1>6 DEF Replays
<1> QED BY <1>7, <1>8

(* What a resumed call restores from its log is an overlay.                *)
LEMMA RestoredTyped ==
  ASSUME NEW l, LogsEvents(l), NEW d \in [Paths -> Contents]
  PROVE  RestoredOverlay(l, d) \in Overlays
<1>1. Len(l) \in Nat /\ \A i \in 1..Len(l) : IsEvent(l[i], Len(l))
  BY AppendGrows DEF LogsEvents
<1>2. PICK f : Replays(f, l, d) /\ RestoredOverlay(l, d) = f[Len(l)]
  BY RestoredBySteps
<1> DEFINE S == {k \in Nat : k <= Len(l) => f[k] \in Overlays}
<1>3. 0 \in S
  BY <1>2, EntriesAreEdits DEF Replays
<1>4. ASSUME NEW k \in Nat, k \in S PROVE k + 1 \in S
  <2>1. SUFFICES ASSUME k + 1 <= Len(l) PROVE f[k + 1] \in Overlays
    OBVIOUS
  <2>2. k + 1 \in 1..Len(l) /\ (k + 1) - 1 = k /\ f[k] \in Overlays
    BY <1>1, <1>4, <2>1
  <2>3. f[k + 1] = IF Replayed(l, k + 1)
                   THEN Propose(f[k], d, l[k + 1].action)[1] ELSE f[k]
    BY <1>2, <2>2 DEF Replays
  <2>4. CASE Replayed(l, k + 1)
    <3>1. /\ IsAction(l[k + 1].action)
          /\ l[k + 1].action.kind = "propose_patch"
      BY <1>1, <2>2, <2>4 DEF IsEvent, Replayed
    <3>2. Propose(f[k], d, l[k + 1].action)[1] \in Overlays
      BY <2>2, <3>1, ProposeTyped
    <3> QED BY <2>3, <2>4, <3>2
  <2>5. CASE ~Replayed(l, k + 1)
    BY <2>2, <2>3, <2>5
  <2> QED BY <2>4, <2>5
<1> HIDE DEF S
<1>5. Len(l) \in S
  BY <1>1, <1>3, <1>4, SetInduction
<1> QED BY <1>1, <1>2, <1>5 DEF S

-----------------------------------------------------------------------------
(* The log of the run, and what the code reads from it.                    *)

LEMMA LogIsCharged ==
  ASSUME NEW l, LogsEvents(l)
  PROVE  /\ Len(l) \in Nat /\ DOMAIN l = 1..Len(l)
         /\ Charged(l) /\ ToolCalls(l) \in Nat
<1>1. Len(l) \in Nat /\ DOMAIN l = 1..Len(l)
  BY AppendGrows DEF LogsEvents
<1>2. Charged(l)
  BY DEF LogsEvents, Charged, Cost, IsEvent, IsAction
<1> QED BY <1>1, <1>2, ToolCallsAreNat

LEMMA LogGrows ==
  ASSUME NEW l, LogsEvents(l), NEW e, IsEvent(e, Len(l) + 1)
  PROVE  /\ LogsEvents(Append(l, e))
         /\ Len(Append(l, e)) = Len(l) + 1
         /\ ToolCalls(Append(l, e)) = ToolCalls(l) + Cost(e)
<1> DEFINE m == Append(l, e)
           n == Len(l)
<1>1. /\ n \in Nat /\ IsLog(m) /\ Len(m) = n + 1
      /\ \A i \in 1..n : m[i] = l[i]
      /\ m[n + 1] = e
  BY AppendGrows DEF LogsEvents
<1>2. Cost(e) \in Nat
  BY DEF IsEvent, IsAction, Cost
<1>3. ToolCalls(m) = ToolCalls(l) + Cost(e)
  BY <1>2, LogIsCharged, ToolCallsGrow
<1> HIDE DEF m
<1>4. ASSUME NEW i \in 1..(n + 1) PROVE IsEvent(m[i], n + 1)
  <2>1. CASE i = n + 1
    BY <1>1, <2>1
  <2>2. CASE i # n + 1
    <3>1. i \in 1..n
      BY <1>1, <2>2
    <3>2. IsEvent(m[i], n)
      BY <1>1, <3>1 DEF LogsEvents
    <3> HIDE DEF n
    <3> QED BY <1>1, <3>2 DEF IsEvent
  <2> QED BY <2>1, <2>2
<1> QED BY <1>1, <1>3, <1>4 DEF LogsEvents, m

(* An event about an action, about its outcome, or with a state is one,    *)
(* and costs nothing unless it starts the action.                          *)
LEMMA EventsAreEvents ==
  ASSUME NEW n \in Nat, NEW type \in EventTypes, NEW a, IsAction(a),
         NEW obs, NEW state
  PROVE  /\ IsEvent(ActionEvent(type, a), n)
         /\ IsEvent(Result(type, a, obs), n)
         /\ IsEvent(Snapshot(state), n)
         /\ Cost(Snapshot(state)) = 0
         /\ type \notin StartTypes =>
              Cost(ActionEvent(type, a)) = 0 /\ Cost(Result(type, a, obs)) = 0
         /\ type \in StartTypes => Cost(ActionEvent(type, a)) = a.size
<1>1. IsEvent(ActionEvent(type, a), n) /\ IsEvent(Result(type, a, obs), n)
  BY EventFields DEF IsEvent
<1>2. "working_state_updated" \notin
        StartTypes \union TerminalTypes \union WaitingTypes
  BY DEF StartTypes, TerminalTypes, WaitingTypes
<1>3. IsEvent(Snapshot(state), n) /\ Cost(Snapshot(state)) = 0
  BY <1>2, EventFields DEF IsEvent, Cost, EventTypes
<1>4. ActionEvent(type, a).type = type /\ Result(type, a, obs).type = type
      /\ ActionEvent(type, a).action = a
  BY EventFields
<1> QED BY <1>1, <1>3, <1>4 DEF Cost

LEMMA SnapshotGrows ==
  ASSUME NEW l, LogsEvents(l), NEW state
  PROVE  /\ LogsEvents(Append(l, Snapshot(state)))
         /\ Len(Append(l, Snapshot(state))) = Len(l) + 1
         /\ ToolCalls(Append(l, Snapshot(state))) = ToolCalls(l)
<1> DEFINE e == Snapshot(state)
<1>1. Len(l) + 1 \in Nat /\ ToolCalls(l) \in Nat
  BY LogIsCharged
<1>2. IsEvent(e, Len(l) + 1) /\ Cost(e) = 0
  <2>1. "working_state_updated" \notin
          StartTypes \union TerminalTypes \union WaitingTypes
    BY DEF StartTypes, TerminalTypes, WaitingTypes
  <2> QED BY <1>1, <2>1, EventFields DEF IsEvent, Cost, EventTypes
<1> HIDE DEF e
<1>3. /\ LogsEvents(Append(l, e))
      /\ Len(Append(l, e)) = Len(l) + 1
      /\ ToolCalls(Append(l, e)) = ToolCalls(l) + Cost(e)
  BY <1>2, LogGrows
<1> QED BY <1>1, <1>2, <1>3 DEF e

(* The checkpoint that waits is the number of an event.                    *)
LEMMA PendingApprovalInLog ==
  ASSUME NEW l, LogsEvents(l)
  PROVE  PendingApproval(l) \in 0..Len(l)
<1> DEFINE asked == Events({"approval_required"}, l)
<1>1. Len(l) \in Nat /\ asked \subseteq 1..Len(l)
  BY LogIsCharged DEF Events
<1>2. CASE asked = {}
  BY <1>1, <1>2 DEF PendingApproval
<1>3. CASE asked # {}
  <2> HIDE DEF asked
  <2>1. Newest(asked) \in 1..Len(l)
    BY <1>1, <1>3, NewestIsLast
  <2>2. l[Newest(asked)].checkpoint \in 0..Len(l)
    BY <2>1 DEF LogsEvents, IsEvent
  <2> QED BY <1>1, <2>2 DEF PendingApproval, asked
<1> QED BY <1>2, <1>3

(* The unresolved action is the action of an event.                        *)
LEMMA PendingInLog ==
  ASSUME NEW l, LogsEvents(l), Unresolved(l) # {}
  PROVE  /\ Pending(l) \in Unresolved(l)
         /\ ActionOf(l, Pending(l)) # NoAction
         /\ ActionOf(l, Pending(l)).id = Pending(l)
         /\ IsAction(ActionOf(l, Pending(l)))
         /\ \E i \in DOMAIN l : l[i].action = ActionOf(l, Pending(l))
<1> DEFINE about(id) == {i \in DOMAIN l : /\ l[i].action # NoAction
                                          /\ l[i].action.id = id}
           P == {LastOf(l, id) : id \in Unresolved(l)}
<1>1. Len(l) \in Nat /\ DOMAIN l = 1..Len(l)
  BY LogIsCharged
<1>2. ASSUME NEW id \in Unresolved(l) PROVE LastOf(l, id) \in about(id)
  <2>1. about(id) # {} /\ about(id) \subseteq 1..Len(l)
    BY <1>1 DEF Unresolved, Tracked
  <2> HIDE DEF about
  <2>2. Newest(about(id)) \in about(id)
    BY <1>1, <2>1, NewestIsLast
  <2> QED BY <2>2 DEF LastOf, about
<1>3. P \subseteq 1..Len(l) /\ P # {}
  BY <1>1, <1>2
<1>4. Newest(P) \in P /\ \A j \in P : j <= Newest(P)
  <2> HIDE DEF P
  <2> QED BY <1>1, <1>3, NewestIsLast
<1>5. PICK id \in Unresolved(l) :
        \A other \in Unresolved(l) : LastOf(l, other) <= LastOf(l, id)
  BY <1>4
<1>6. Pending(l) \in Unresolved(l)
  BY <1>5 DEF Pending
<1>7. LastOf(l, Pending(l)) \in about(Pending(l))
  BY <1>2, <1>6
<1> QED BY <1>1, <1>6, <1>7 DEF ActionOf, LogsEvents, IsEvent

-----------------------------------------------------------------------------
(* How a step may end.                                                     *)

Inv == TypeInv /\ BudgetInv /\ GateInv

LEMMA CommandsLength == Len(Commands) \in Nat
BY AgentLoopAssumption DEF AgentLoopAssumption

LEMMA NoJobFields ==
  ASSUME NEW call
  PROVE  /\ IsJob(Job(call)) /\ IsCycle(NoCycle)
         /\ Job(call).call = call /\ Job(call).step = 0
         /\ Job(call).limit = 0 /\ Job(call).initial = 0
         /\ Job(call).obs = NoObs /\ Job(call).cycle = NoCycle
         /\ Job(call).action = NoAction /\ Job(call).then = "idle"
         /\ Job(call).state = NoState /\ Job(call).reason = "none"
BY CommandsLength DEF Job, IsJob, NoCycle, IsCycle

(* The call returns, fails or dies.                                        *)
LEMMA ResetKeeps ==
  ASSUME Inv, LogOK', StoreOK', disk' \in [Paths -> Contents], Reset,
         DOMAIN run' = {"checkpoint", "question", "cycle"},
         run'.checkpoint \in 0..Len(log'), IsCycle(run'.cycle)
  PROVE  Inv'
<1>1. pc' = "idle" /\ job' = NoJob /\ overlay' \in Overlays
  BY EntriesAreEdits DEF Reset
<1>2. /\ IsJob(job') /\ IsCycle(job'.cycle) /\ job'.step = 0
      /\ job'.limit = 0 /\ job'.initial = 0
  BY <1>1, NoJobFields DEF NoJob
<1>3. ~InLoop'
  BY <1>1 DEF InLoop, Executes
<1>4. JobOK'
  BY <1>1, <1>2, <1>3, AgentLoopAssumption
  DEF JobOK, Executes, AgentLoopAssumption
<1>5. FilesOK'
  BY <1>1 DEF FilesOK
<1>6. BudgetInv' /\ GateInv'
  BY <1>1, <1>2, <1>3 DEF BudgetInv, GateInv, Executes
<1> QED BY <1>4, <1>5, <1>6 DEF Inv, TypeInv

(* AgentRuntime.execute ends with an observation.                          *)
LEMMA ObserveKeeps ==
  ASSUME Inv, pc \in Executes, NEW obs, Observe(obs), LogOK', StoreOK',
         Len(log) <= Len(log'), ToolCalls(log') = ToolCalls(log),
         UNCHANGED <<disk, overlay, run>>
  PROVE  Inv'
<1>1. /\ IsJob(job') /\ pc' = job.then /\ job'.obs = obs
      /\ job'.step = job.step /\ job'.limit = job.limit
      /\ job'.initial = job.initial /\ job'.action = job.action
      /\ job'.then = job.then /\ job'.update = job.update
      /\ job'.state = job.state /\ job'.cycle = job.cycle
  BY DEF Observe, Inv, TypeInv, JobOK, IsJob
<1>2. pc' \in ReturnsTo /\ (InLoop' <=> InLoop)
  BY <1>1 DEF Inv, TypeInv, JobOK, InLoop, ReturnsTo, Executes
<1>3. JobOK'
  BY <1>1, <1>2 DEF Inv, TypeInv, JobOK, ReturnsTo, Executes
<1>4. FilesOK'
  BY LogIsCharged DEF Inv, TypeInv, FilesOK, LogOK
<1>5. BudgetInv'
  BY <1>1, <1>2 DEF Inv, BudgetInv, ReturnsTo
<1>6. GateInv'
  <2>1. pc' \notin Executes \union {"recover", "resume", "wait", "step",
                                    "gate"}
    BY <1>2 DEF ReturnsTo, Executes
  <2>2. (pc' = "advance" /\ job'.action.kind = "finish") =>
           CompletionReady(ApplyUpdate(job'.state, job'.update))
    BY <1>1 DEF Inv, GateInv
  <2> QED BY <2>1, <2>2 DEF GateInv, Executes
<1> QED BY <1>3, <1>4, <1>5, <1>6 DEF Inv, TypeInv

(* AgentRuntime.execute goes on to its next access.                        *)
LEMMA ExecuteKeeps ==
  ASSUME Inv, pc \in Executes, pc' \in Executes \ {"execute"},
         IsJob(job'), job'.step = job.step, job'.limit = job.limit,
         job'.initial = job.initial, job'.action = job.action,
         job'.then = job.then, job'.update = job.update,
         job'.state = job.state, job'.cycle = job.cycle,
         pc' = "complete" => job'.obs.status \in ToolStatuses,
         LogOK', StoreOK', disk' \in [Paths -> Contents],
         overlay' \in Overlays, run' = run, Len(log) <= Len(log'),
         \/ /\ ToolCalls(log') = ToolCalls(log)
            /\ pc' \in {"ask", "reserve", "start"} =>
                 pc \in {"execute", "ask", "reserve", "start"}
         \/ /\ pc = "start" /\ pc' = "tool"
            /\ ToolCalls(log') = ToolCalls(log) + job.action.size
  PROVE  Inv'
<1>1. InLoop' <=> InLoop
  BY DEF InLoop, Executes
<1>2. JobOK'
  BY <1>1 DEF Inv, TypeInv, JobOK, Executes
<1>3. FilesOK'
  BY LogIsCharged DEF Inv, TypeInv, FilesOK, LogOK
<1>4. BudgetInv'
  <2>1. /\ ToolCalls(log) \in Nat /\ ToolCalls(log') \in Nat
        /\ job.action.size \in Nat /\ job.initial \in Nat
        /\ job.step \in Nat /\ job.limit \in Nat
    BY LogIsCharged, AgentLoopAssumption
    DEF Inv, TypeInv, JobOK, IsAction, LogOK, AgentLoopAssumption
  <2>2. job.step > 0 => InLoop
    BY DEF Inv, TypeInv, JobOK, Executes
  <2> QED BY <1>1, <2>1, <2>2, AgentLoopAssumption
          DEF Inv, BudgetInv, Executes, AgentLoopAssumption
<1>5. GateInv'
  BY DEF Inv, GateInv, Executes
<1> QED BY <1>2, <1>3, <1>4, <1>5 DEF Inv, TypeInv

-----------------------------------------------------------------------------
(* AgentRuntime.execute.                                                   *)

(* What holds wherever an action is executed.                              *)
LEMMA AtExecute ==
  ASSUME Inv, pc \in Executes \union {"gate"}
  PROVE  /\ LogOK /\ StoreOK /\ disk \in [Paths -> Contents]
         /\ overlay \in Overlays /\ IsJob(job) /\ IsAction(job.action)
         /\ Len(log) \in Nat /\ Len(log) + 1 \in Nat
         /\ ToolCalls(log) \in Nat
BY LogIsCharged DEF Inv, TypeInv, JobOK, FilesOK, LogOK

(* An event about the action in execution that does not start it.          *)
LEMMA LogsWithoutCost ==
  ASSUME Inv, pc \in Executes \union {"gate"}, NEW e,
         NEW type \in EventTypes \ StartTypes, NEW obs,
         \/ e = ActionEvent(type, job.action)
         \/ e = Result(type, job.action, obs),
         log' = Append(log, e)
  PROVE  LogOK' /\ ToolCalls(log') = ToolCalls(log) /\ Len(log) <= Len(log')
<1>1. IsAction(job.action) /\ Len(log) + 1 \in Nat /\ Len(log) \in Nat
      /\ LogsEvents(log) /\ ToolCalls(log) \in Nat
  BY AtExecute DEF LogOK
<1>2. IsEvent(e, Len(log) + 1) /\ Cost(e) = 0
  BY <1>1, EventsAreEvents
<1>3. /\ LogsEvents(log') /\ Len(log') = Len(log) + 1
      /\ ToolCalls(log') = ToolCalls(log) + Cost(e)
  BY <1>1, <1>2, LogGrows
<1> QED BY <1>1, <1>2, <1>3 DEF LogOK

LEMMA AuthorizeReadKeeps == Inv /\ AuthorizeRead => Inv'
<1> SUFFICES ASSUME Inv, AuthorizeRead PROVE Inv'
  OBVIOUS
<1>1. pc = "execute" /\ pc \in Executes
      /\ log' = Append(log, ActionEvent("action_authorized", job.action))
      /\ pc' \in {"ask", "reserve"} /\ UNCHANGED <<reservations, disk, overlay, run, job>>
  BY DEF AuthorizeRead, Executing, Executes
<1>2. "action_authorized" \in EventTypes \ StartTypes
  BY DEF EventTypes, StartTypes
<1>3. LogOK' /\ ToolCalls(log') = ToolCalls(log) /\ Len(log) <= Len(log')
  BY <1>1, <1>2, LogsWithoutCost
<1>4. StoreOK' /\ disk' \in [Paths -> Contents] /\ overlay' \in Overlays
      /\ IsJob(job')
  BY <1>1, AtExecute DEF StoreOK
<1> QED BY <1>1, <1>3, <1>4, ExecuteKeeps DEF Executes

LEMMA AskKeeps == Inv /\ Ask => Inv'
<1> SUFFICES ASSUME Inv, Ask PROVE Inv'
  OBVIOUS
<1>1. pc \in Executes
      /\ log' = Append(log, Result("input_required", job.action,
                                   Plain("input_required")))
      /\ Observe(Plain("input_required"))
      /\ UNCHANGED <<reservations, disk, overlay, run>>
  BY DEF Ask, Executing, Executes
<1>2. "input_required" \in EventTypes \ StartTypes
  BY DEF EventTypes, WaitingTypes, StartTypes
<1>3. LogOK' /\ ToolCalls(log') = ToolCalls(log) /\ Len(log) <= Len(log')
  BY <1>1, <1>2, LogsWithoutCost
<1>4. StoreOK'
  BY <1>1, AtExecute DEF StoreOK
<1> QED BY <1>1, <1>3, <1>4, ObserveKeeps

LEMMA CheckpointInLog ==
  ASSUME LogOK, NEW a
  PROVE  Checkpoint(a) \in 0..(Len(log) + 1)
<1>1. Len(log) \in Nat /\ DOMAIN log = 1..Len(log)
  BY LogIsCharged DEF LogOK
<1>2. CASE Has(log, a.id, {"approval_required"})
  <2> DEFINE at == Of(log, a.id, {"approval_required"})
  <2>1. at \subseteq 1..Len(log) /\ at # {}
    BY <1>1, <1>2 DEF Of, Has
  <2> HIDE DEF at
  <2>2. Newest(at) \in 1..Len(log)
    BY <1>1, <2>1, NewestIsLast
  <2>3. LastRequest(a).checkpoint \in 0..Len(log)
    BY <2>2 DEF LastRequest, At, at, LogOK, LogsEvents, IsEvent
  <2> QED BY <1>1, <2>3 DEF Checkpoint
<1>3. CASE ~Has(log, a.id, {"approval_required"})
  BY <1>1, <1>3 DEF Checkpoint
<1> QED BY <1>2, <1>3

LEMMA AuthorizeSideEffectKeeps == Inv /\ AuthorizeSideEffect => Inv'
<1> SUFFICES ASSUME Inv, AuthorizeSideEffect PROVE Inv'
  OBVIOUS
<1> DEFINE a == job.action
           done == \E r \in Reserved(a) : r.obs # NoObs
           moved == a.kind = "apply_patch" /\ disk[a.path] # a.from
<1>1. pc = "execute" /\ pc \in Executes
      /\ UNCHANGED <<reservations, disk, overlay, run>>
  BY DEF AuthorizeSideEffect, Executing, Executes
<1>2. StoreOK' /\ disk' \in [Paths -> Contents] /\ overlay' \in Overlays
  BY <1>1, AtExecute DEF StoreOK
<1>3. {"action_replayed", "action_conflict", "action_authorized",
       "action_denied"}
        \subseteq EventTypes \ StartTypes
  BY DEF EventTypes, StartTypes, TerminalTypes
<1>4. CASE ~Denied(a) /\ done
  <2>1. log' = Append(log, Result("action_replayed", a, StoredObs(a)))
        /\ Observe(StoredObs(a))
    BY <1>4 DEF AuthorizeSideEffect
  <2>2. LogOK' /\ ToolCalls(log') = ToolCalls(log) /\ Len(log) <= Len(log')
    BY <1>1, <1>3, <2>1, LogsWithoutCost
  <2> QED BY <1>1, <1>2, <2>1, <2>2, ObserveKeeps
<1>5. CASE ~Denied(a) /\ ~done /\ moved
  <2>1. log' = Append(log, Result("action_conflict", a, Plain("conflict")))
        /\ Observe(Plain("conflict"))
    BY <1>5 DEF AuthorizeSideEffect
  <2>2. LogOK' /\ ToolCalls(log') = ToolCalls(log) /\ Len(log) <= Len(log')
    BY <1>1, <1>3, <2>1, LogsWithoutCost
  <2> QED BY <1>1, <1>2, <2>1, <2>2, ObserveKeeps
<1>6. CASE ~Denied(a) /\ ~done /\ ~moved /\ ValidGrant(a)
  <2>1. log' = Append(log, ActionEvent("action_authorized", a))
        /\ pc' = "reserve" /\ UNCHANGED job
    BY <1>6 DEF AuthorizeSideEffect
  <2>2. LogOK' /\ ToolCalls(log') = ToolCalls(log) /\ Len(log) <= Len(log')
    BY <1>1, <1>3, <2>1, LogsWithoutCost
  <2> QED BY <1>1, <1>2, <2>1, <2>2, AtExecute, ExecuteKeeps DEF Executes
<1>7. CASE ~Denied(a) /\ ~done /\ ~moved /\ ~ValidGrant(a)
  <2> DEFINE e == [Result("approval_required", a, Plain("approval_required"))
                     EXCEPT !.checkpoint = Checkpoint(a),
                            !.baseline = Baseline(a)]
  <2>1. log' = Append(log, e) /\ Observe(Plain("approval_required"))
    BY <1>7 DEF AuthorizeSideEffect
  <2>2. e.type = "approval_required" /\ e.checkpoint = Checkpoint(a)
        /\ e.action = a
    BY EventFields
  <2> HIDE DEF e
  <2>3. IsEvent(e, Len(log) + 1) /\ Cost(e) = 0
    BY <1>1, <2>2, AtExecute, CheckpointInLog
    DEF IsEvent, EventTypes, WaitingTypes, StartTypes, TerminalTypes, Cost
  <2>4. LogOK' /\ ToolCalls(log') = ToolCalls(log) /\ Len(log) <= Len(log')
    <3>1. LogsEvents(log) /\ Len(log) \in Nat /\ ToolCalls(log) \in Nat
      BY <1>1, AtExecute DEF LogOK
    <3>2. /\ LogsEvents(log') /\ Len(log') = Len(log) + 1
          /\ ToolCalls(log') = ToolCalls(log) + Cost(e)
      BY <2>1, <2>3, <3>1, LogGrows
    <3> QED BY <2>3, <3>1, <3>2 DEF LogOK
  <2> QED BY <1>1, <1>2, <2>1, <2>4, ObserveKeeps
<1>8. CASE Denied(a)
  <2>1. log' = Append(log, Result("action_denied", a, Plain("policy_denied")))
        /\ Observe(Plain("policy_denied"))
    BY <1>8 DEF AuthorizeSideEffect
  <2>2. LogOK' /\ ToolCalls(log') = ToolCalls(log) /\ Len(log) <= Len(log')
    BY <1>1, <1>3, <2>1, LogsWithoutCost
  <2> QED BY <1>1, <1>2, <2>1, <2>2, ObserveKeeps
<1> QED BY <1>4, <1>5, <1>6, <1>7, <1>8

LEMMA ReserveKeeps == Inv /\ Reserve => Inv'
<1> SUFFICES ASSUME Inv, Reserve PROVE Inv'
  OBVIOUS
<1> DEFINE a == job.action
           obs == IF StoredObs(a) # NoObs THEN StoredObs(a)
                  ELSE Plain("recovery_required")
           type == IF StoredObs(a) # NoObs THEN "action_replayed"
                   ELSE "action_recovery_required"
<1>1. pc = "reserve" /\ pc \in Executes /\ UNCHANGED <<disk, overlay, run>>
  BY DEF Reserve, Executing, Executes
<1>2. disk' \in [Paths -> Contents] /\ overlay' \in Overlays
  BY <1>1, AtExecute
<1>3. CASE Reserved(a) = {}
  <2>1. /\ reservations' = reservations \union {[action |-> a, obs |-> NoObs]}
        /\ pc' = "start" /\ UNCHANGED <<log, job>>
    BY <1>3 DEF Reserve
  <2>2. StoreOK'
    BY <1>1, <1>3, <2>1, AtExecute DEF StoreOK, Reserved
  <2>3. LogOK' /\ ToolCalls(log') = ToolCalls(log) /\ Len(log) <= Len(log')
    BY <1>1, <2>1, AtExecute DEF LogOK
  <2> QED BY <1>1, <1>2, <2>1, <2>2, <2>3, AtExecute, ExecuteKeeps
          DEF Executes
<1>4. CASE Reserved(a) # {}
  <2>1. log' = Append(log, Result(type, a, obs)) /\ Observe(obs)
        /\ UNCHANGED reservations
    BY <1>4 DEF Reserve
  <2>2. type \in EventTypes \ StartTypes
    BY DEF EventTypes, TerminalTypes, StartTypes
  <2> HIDE DEF obs, type
  <2>3. LogOK' /\ ToolCalls(log') = ToolCalls(log) /\ Len(log) <= Len(log')
    BY <1>1, <2>1, <2>2, LogsWithoutCost
  <2>4. StoreOK'
    BY <1>1, <2>1, AtExecute DEF StoreOK
  <2> QED BY <1>1, <2>1, <2>3, <2>4, ObserveKeeps
<1> QED BY <1>3, <1>4

LEMMA StartKeeps == Inv /\ Start => Inv'
<1> SUFFICES ASSUME Inv, Start PROVE Inv'
  OBVIOUS
<1> DEFINE type == IF job.retry THEN "action_recovery_started"
                   ELSE "action_started"
           e == ActionEvent(type, job.action)
<1>1. /\ pc = "start" /\ pc \in Executes /\ pc' = "tool"
      /\ log' = Append(log, e)
      /\ UNCHANGED <<reservations, disk, overlay, run, job>>
  BY DEF Start, Executing, Executes
<1>2. type \in EventTypes /\ type \in StartTypes
  BY DEF EventTypes, StartTypes
<1> HIDE DEF type
<1>3. LogsEvents(log) /\ Len(log) \in Nat /\ Len(log) + 1 \in Nat
      /\ IsAction(job.action) /\ ToolCalls(log) \in Nat
  BY <1>1, AtExecute DEF LogOK
<1>4. IsEvent(e, Len(log) + 1) /\ Cost(e) = job.action.size
  BY <1>2, <1>3, EventsAreEvents
<1> HIDE DEF e
<1>5. /\ LogsEvents(log') /\ Len(log') = Len(log) + 1
      /\ ToolCalls(log') = ToolCalls(log) + job.action.size
  BY <1>1, <1>3, <1>4, LogGrows
<1>6. LogOK' /\ Len(log) <= Len(log')
  BY <1>3, <1>5 DEF LogOK
<1>7. StoreOK' /\ disk' \in [Paths -> Contents] /\ overlay' \in Overlays
      /\ IsJob(job')
  BY <1>1, AtExecute DEF StoreOK
<1> QED BY <1>1, <1>5, <1>6, <1>7, ExecuteKeeps DEF Executes

LEMMA ToolKeeps == Inv /\ Tool => Inv'
<1> SUFFICES ASSUME Inv, Tool PROVE Inv'
  OBVIOUS
<1>1. pc = "tool" /\ pc \in Executes /\ pc' = "complete"
      /\ UNCHANGED <<log, reservations, run>>
  BY DEF Tool, Executing, Executes
<1>2. LogOK' /\ ToolCalls(log') = ToolCalls(log) /\ Len(log) <= Len(log')
      /\ StoreOK'
  BY <1>1, AtExecute DEF LogOK, StoreOK
<1>3. ASSUME NEW obs, job' = [job EXCEPT !.obs = obs],
             obs.status \in ToolStatuses,
             disk' \in [Paths -> Contents], overlay' \in Overlays
      PROVE  Inv'
  <2>1. /\ IsJob(job') /\ job'.step = job.step /\ job'.limit = job.limit
        /\ job'.initial = job.initial /\ job'.action = job.action
        /\ job'.then = job.then /\ job'.update = job.update
        /\ job'.state = job.state /\ job'.cycle = job.cycle
        /\ job'.obs = obs
    BY <1>1, <1>3, AtExecute DEF IsJob
  <2> QED BY <1>1, <1>2, <1>3, <2>1, ExecuteKeeps DEF Executes
<1>4. disk \in [Paths -> Contents] /\ overlay \in Overlays
      /\ IsAction(job.action)
  BY <1>1, AtExecute
<1>5. \A status : Plain(status).status = status
  BY DEF Plain, Obs
<1>6. CASE ToolRead \/ ToolFinish \/ ToolValidate
  <2>1. PICK status \in {"completed", "failed", "verification_failed"} :
          job' = [job EXCEPT !.obs = Plain(status)]
    BY <1>6 DEF ToolRead, ToolFinish, ToolValidate
  <2>2. UNCHANGED <<disk, overlay>>
    BY <1>6 DEF ToolRead, ToolFinish, ToolValidate
  <2>3. Plain(status).status \in ToolStatuses
    BY <1>5 DEF ToolStatuses
  <2> QED BY <1>3, <1>4, <2>1, <2>2, <2>3
<1>7. CASE ToolPropose
  <2> DEFINE result == Propose(overlay, disk, job.action)
  <2>1. /\ job.action.kind = "propose_patch"
        /\ overlay' = result[1] /\ job' = [job EXCEPT !.obs = result[2]]
        /\ UNCHANGED disk
    BY <1>7 DEF ToolPropose
  <2>2. result[1] \in Overlays /\ result[2].status \in ToolStatuses
    BY <1>4, <2>1, ProposeTyped DEF ToolStatuses
  <2> HIDE DEF result
  <2> QED BY <1>3, <1>4, <2>1, <2>2
<1>8. CASE ToolInspect
  <2> DEFINE result == Inspect(overlay, disk)
  <2>1. /\ overlay' = result[1] /\ job' = [job EXCEPT !.obs = result[2]]
        /\ UNCHANGED disk
    BY <1>8 DEF ToolInspect
  <2>2. result[1] \in Overlays /\ result[2].status \in ToolStatuses
    BY <1>4, InspectTyped DEF ToolStatuses
  <2> HIDE DEF result
  <2> QED BY <1>3, <1>4, <2>1, <2>2
<1>9. CASE ToolWrite
  <2> DEFINE a == job.action
             fits == a.kind = "edit_file" \/ disk[a.path] = a.from
             status == IF a.kind = "edit_file" THEN "completed" ELSE "applied"
             obs == Obs(status, "written", NoEdits, disk[a.path] # a.to)
  <2>1. /\ a.kind \in WriteKinds /\ UNCHANGED overlay
        /\ IF fits THEN /\ disk' = [disk EXCEPT ![a.path] = a.to]
                        /\ job' = [job EXCEPT !.obs = obs]
           ELSE job' = [job EXCEPT !.obs = Plain("conflict")]
                /\ UNCHANGED disk
    BY <1>9 DEF ToolWrite
  <2>2. obs.status \in ToolStatuses
    BY DEF Obs, ToolStatuses
  <2>3. Plain("conflict").status \in ToolStatuses
    BY <1>5 DEF ToolStatuses
  <2>4. a.path \in Paths /\ a.to \in Contents
    BY <1>4, <2>1 DEF IsAction
  <2>5. disk' \in [Paths -> Contents]
    BY <1>4, <2>1, <2>4
  <2> HIDE DEF obs, fits
  <2> QED BY <1>3, <1>4, <2>1, <2>2, <2>3, <2>5
<1> QED BY <1>6, <1>7, <1>8, <1>9 DEF Tool

LEMMA CompleteKeeps == Inv /\ Complete => Inv'
<1> SUFFICES ASSUME Inv, Complete PROVE Inv'
  OBVIOUS
<1>1. /\ pc = "complete" /\ pc \in Executes /\ pc' = "report"
      /\ reservations' = (reservations \ Reserved(job.action)) \union
                           {[action |-> job.action, obs |-> job.obs]}
      /\ UNCHANGED <<log, disk, overlay, run, job>>
  BY DEF Complete, Executing, Executes
<1>2. job.obs.status \in ToolStatuses
  BY <1>1 DEF Inv, GateInv
<1>3. StoreOK'
  BY <1>1, <1>2, AtExecute DEF StoreOK, Reserved
<1>4. LogOK' /\ ToolCalls(log') = ToolCalls(log) /\ Len(log) <= Len(log')
  BY <1>1, AtExecute DEF LogOK
<1> QED BY <1>1, <1>3, <1>4, AtExecute, ExecuteKeeps DEF Executes

LEMMA ReportKeeps == Inv /\ Report => Inv'
<1> SUFFICES ASSUME Inv, Report PROVE Inv'
  OBVIOUS
<1>1. /\ pc = "report" /\ pc \in Executes
      /\ log' = Append(log, Result(ReportType, job.action, job.obs))
      /\ Observe(job.obs)
      /\ UNCHANGED <<reservations, disk, overlay, run>>
  BY DEF Report, Executing, Executes
<1>2. ReportType \in EventTypes \ StartTypes
  BY DEF ReportType, EventTypes, TerminalTypes, StartTypes
<1>3. LogOK' /\ ToolCalls(log') = ToolCalls(log) /\ Len(log) <= Len(log')
  BY <1>1, <1>2, LogsWithoutCost
<1>4. StoreOK'
  BY <1>1, AtExecute DEF StoreOK
<1> QED BY <1>1, <1>3, <1>4, ObserveKeeps

LEMMA ExecuteStepKeeps == Inv /\ Execute => Inv'
BY AuthorizeReadKeeps, AskKeeps, AuthorizeSideEffectKeeps, ReserveKeeps,
   StartKeeps, ToolKeeps, CompleteKeeps, ReportKeeps DEF Execute

-----------------------------------------------------------------------------
(* The loop.                                                               *)

(* What holds at every point.                                              *)
LEMMA AtAnyPoint ==
  ASSUME Inv
  PROVE  /\ LogOK /\ LogsEvents(log) /\ StoreOK /\ disk \in [Paths -> Contents]
         /\ overlay \in Overlays /\ IsJob(job) /\ IsCycle(job.cycle)
         /\ DOMAIN run = {"checkpoint", "question", "cycle"}
         /\ run.checkpoint \in 0..Len(log) /\ IsCycle(run.cycle)
         /\ Len(log) \in Nat /\ Len(log) + 1 \in Nat
         /\ ToolCalls(log) \in Nat /\ job.initial \in Nat
         /\ job.step \in Nat /\ job.limit \in 0..MaxSteps
BY LogIsCharged DEF Inv, TypeInv, JobOK, FilesOK, LogOK

LEMMA ReturnKeeps ==
  ASSUME Inv, LogOK', StoreOK', disk' \in [Paths -> Contents], Return(log')
  PROVE  Inv'
<1>1. PendingApproval(log') \in 0..Len(log') /\ Len(log') \in Nat
  BY LogIsCharged, PendingApprovalInLog DEF LogOK
<1>2. /\ DOMAIN run' = {"checkpoint", "question", "cycle"}
      /\ run'.checkpoint \in 0..Len(log') /\ IsCycle(run'.cycle)
  BY <1>1, AtAnyPoint DEF Return, Offer
<1> QED BY <1>2, ResetKeeps DEF Return

LEMMA FailKeeps ==
  ASSUME Inv, LogOK', StoreOK', disk' \in [Paths -> Contents], Fail
  PROVE  Inv'
<1>1. Len(log') \in Nat
  BY LogIsCharged DEF LogOK
<1>2. /\ DOMAIN run' = {"checkpoint", "question", "cycle"}
      /\ run'.checkpoint \in 0..Len(log') /\ IsCycle(run'.cycle)
  BY <1>1, AtAnyPoint DEF Fail
<1> QED BY <1>2, ResetKeeps DEF Fail

(* The log after a step that records a state, or nothing.                  *)
LEMMA MayRecord ==
  ASSUME Inv, NEW state, log' \in {log, Append(log, Snapshot(state))}
  PROVE  /\ LogOK' /\ ToolCalls(log') = ToolCalls(log)
         /\ Len(log) <= Len(log')
<1>1. CASE log' = log
  BY <1>1, AtAnyPoint DEF LogOK
<1>2. CASE log' = Append(log, Snapshot(state))
  BY <1>2, AtAnyPoint, SnapshotGrows DEF LogOK
<1> QED BY <1>1, <1>2

LEMMA SameStore ==
  ASSUME Inv, UNCHANGED <<reservations, disk>>
  PROVE  StoreOK' /\ disk' \in [Paths -> Contents]
BY AtAnyPoint DEF StoreOK

(* A step that stays outside the execution of an action.                   *)
LEMMA OutsideKeeps ==
  ASSUME Inv, LogOK', StoreOK', disk' \in [Paths -> Contents],
         overlay' \in Overlays, run' = run, Len(log) <= Len(log'),
         IsJob(job'), IsCycle(job'.cycle),
         job'.step = 0, job'.limit \in 0..MaxSteps, job'.initial \in Nat,
         pc' \notin Executes \union {"gate", "advance", "step", "end"},
         pc' \in {"recover", "resume"} => job'.obs = NoObs,
         pc' = "wait" => ~Waits(job'.obs)
  PROVE  Inv'
<1>1. ~InLoop'
  BY DEF InLoop
<1>2. JobOK'
  BY <1>1 DEF JobOK
<1>3. FilesOK'
  BY AtAnyPoint, LogIsCharged DEF FilesOK, LogOK
<1>4. BudgetInv' /\ GateInv'
  BY <1>1 DEF BudgetInv, GateInv, Executes
<1> QED BY <1>2, <1>3, <1>4 DEF Inv, TypeInv

(* A call, or a worker, begins by restoring the overlay.                   *)
LEMMA ResumeKeeps ==
  ASSUME Inv, LogOK', UNCHANGED <<reservations, disk, run>>,
         Len(log) <= Len(log'), NEW c, IsCycle(c), Resume(log', c)
  PROVE  Inv'
<1>1. overlay' = RestoredOverlay(log', disk) /\ pc' = "recover"
      /\ job' = [Job("resume") EXCEPT !.initial = ToolCalls(log'),
                                      !.cycle = c]
  BY DEF Resume
<1>2. overlay' \in Overlays /\ ToolCalls(log') \in Nat
  BY <1>1, AtAnyPoint, RestoredTyped, LogIsCharged DEF LogOK
<1>3. /\ IsJob(job') /\ job'.step = 0 /\ job'.limit = 0
      /\ job'.initial = ToolCalls(log') /\ job'.obs = NoObs
      /\ job'.cycle = c
  <2>1. IsJob(Job("resume")) /\ Job("resume").step = 0
        /\ Job("resume").limit = 0 /\ Job("resume").obs = NoObs
    BY NoJobFields
  <2> QED BY <1>1, <2>1 DEF IsJob
<1>4. pc' \notin Executes \union {"gate", "advance", "step", "end", "wait"}
  BY <1>1 DEF Executes
<1> QED BY <1>1, <1>2, <1>3, <1>4, SameStore, OutsideKeeps, AgentLoopAssumption
        DEF AgentLoopAssumption

LEMMA StartLoopKeeps == Inv /\ StartLoop => Inv'
<1> SUFFICES ASSUME Inv, StartLoop PROVE Inv'
  OBVIOUS
<1> DEFINE e == Snapshot(CreateState)
           limit == Least(MaxSteps, Budget)
<1>1. /\ log = <<>> /\ log' = <<e>> /\ pc' = "step"
      /\ job' = [Job("loop") EXCEPT !.step = 1, !.limit = limit,
                                    !.state = CreateState]
      /\ UNCHANGED <<reservations, disk, overlay, run>>
  BY DEF StartLoop
<1>2. log' = Append(log, e)
  BY <1>1
<1>3. LogOK' /\ ToolCalls(log') = ToolCalls(log) /\ Len(log) <= Len(log')
  BY <1>2, MayRecord
<1>4. ToolCalls(log) = 0
  <2>1. Len(log) = 0 /\ Charged(log)
    BY <1>1, AtAnyPoint, LogIsCharged
  <2> QED BY <2>1, ToolCallsSum DEF Sums
<1>5. limit \in 0..MaxSteps /\ limit >= 1
  BY AgentLoopAssumption DEF Least, AgentLoopAssumption
<1> HIDE DEF limit
<1>6. /\ IsJob(job') /\ job'.step = 1 /\ job'.limit = limit
      /\ job'.initial = 0 /\ job'.obs = NoObs /\ job'.cycle = NoCycle
  <2>1. IsJob(Job("loop")) /\ Job("loop").initial = 0
        /\ Job("loop").cycle = NoCycle /\ Job("loop").obs = NoObs
    BY NoJobFields
  <2> QED BY <1>1, <2>1 DEF IsJob
<1>7. pc' \notin Executes \union {"gate", "advance"} /\ ~InLoop'
  BY <1>1 DEF Executes, InLoop
<1>8. JobOK'
  BY <1>1, <1>5, <1>6, <1>7, NoJobFields DEF JobOK
<1>9. FilesOK'
  BY <1>1, <1>3, AtAnyPoint, LogIsCharged DEF FilesOK, LogOK
<1>10. BudgetInv'
  BY <1>3, <1>4, <1>6, <1>7, AgentLoopAssumption
  DEF BudgetInv, AgentLoopAssumption
<1>11. GateInv'
  BY <1>1, <1>6, <1>7 DEF GateInv, Executes, Waits
<1> QED BY <1>1, <1>3, <1>8, <1>9, <1>10, <1>11, SameStore DEF Inv, TypeInv

LEMMA ReconcileKeeps == Inv /\ Reconcile => Inv'
<1> SUFFICES ASSUME Inv, Reconcile PROVE Inv'
  OBVIOUS
<1> DEFINE a == ActionOf(log, Pending(log))
           e == Result("action_recovered", a, StoredObs(a))
<1>1. /\ pc = "recover" /\ Settled /\ log' = Append(log, e)
      /\ UNCHANGED <<reservations, disk, overlay, run, pc, job>>
  BY DEF Reconcile
<1>2. Unresolved(log) # {}
  BY <1>1 DEF Settled, PendingClass
<1>3. IsAction(a)
  BY <1>2, AtAnyPoint, PendingInLog
<1>4. IsEvent(e, Len(log) + 1)
  <2>1. "action_recovered" \in EventTypes
    BY DEF EventTypes, TerminalTypes
  <2> HIDE DEF a
  <2> QED BY <1>3, <2>1, AtAnyPoint, EventsAreEvents
<1> HIDE DEF e
<1>5. LogOK' /\ Len(log) <= Len(log')
  BY <1>1, <1>4, AtAnyPoint, LogGrows DEF LogOK
<1>6. job.step = 0 /\ job.obs = NoObs
  BY <1>1 DEF Inv, TypeInv, JobOK, InLoop, Executes, GateInv
<1>7. pc' \notin Executes \union {"gate", "advance", "step", "end", "wait"}
  BY <1>1 DEF Executes
<1> QED BY <1>1, <1>5, <1>6, <1>7, AtAnyPoint, SameStore, OutsideKeeps

LEMMA RecoverKeeps == Inv /\ Recover => Inv'
<1> SUFFICES ASSUME Inv, Recover PROVE Inv'
  OBVIOUS
<1>1. /\ pc = "recover" /\ pc' = "resume" /\ PersistRebuilt
      /\ UNCHANGED <<reservations, disk, overlay, run>>
  BY DEF Recover
<1>2. LogOK' /\ Len(log) <= Len(log')
  BY <1>1, MayRecord DEF PersistRebuilt
<1>3. job' = [job EXCEPT !.state = Rebuilt(log)]
  BY <1>1 DEF PersistRebuilt
<1>4. job.step = 0 /\ job.obs = NoObs
  BY <1>1 DEF Inv, TypeInv, JobOK, InLoop, Executes, GateInv
<1>5. /\ IsJob(job') /\ job'.step = job.step /\ job'.limit = job.limit
      /\ job'.initial = job.initial /\ job'.obs = job.obs
      /\ job'.cycle = job.cycle
  BY <1>3, AtAnyPoint DEF IsJob
<1>6. pc' \notin Executes \union {"gate", "advance", "step", "end", "wait"}
  BY <1>1 DEF Executes
<1> QED BY <1>1, <1>2, <1>4, <1>5, <1>6, AtAnyPoint, SameStore, OutsideKeeps

(* The execution of an action that no decision of the loop chose.          *)
LEMMA BeginKeeps ==
  ASSUME Inv, LogOK', StoreOK', disk' \in [Paths -> Contents],
         overlay' = overlay, run' = run, Len(log) <= Len(log'),
         IsJob(job'), IsCycle(job'.cycle), IsAction(job'.action),
         job'.then \in ReturnsTo \ {"advance"},
         job'.step = 0, job'.limit \in 0..MaxSteps, job'.initial \in Nat,
         pc' \in {"execute", "start"}
  PROVE  Inv'
<1>1. ~InLoop' /\ pc' \in Executes
  BY DEF InLoop, Executes
<1>2. JobOK'
  BY <1>1 DEF JobOK
<1>3. FilesOK'
  BY AtAnyPoint, LogIsCharged DEF FilesOK, LogOK
<1>4. BudgetInv' /\ GateInv'
  BY <1>1 DEF BudgetInv, GateInv, Executes
<1> QED BY <1>2, <1>3, <1>4 DEF Inv, TypeInv

LEMMA NextStepOfPending ==
  ASSUME NEW l, NextStep(l) \in {"execute_pending", "retry_read_only"}
  PROVE  Unresolved(l) # {}
BY DEF NextStep, PendingClass

LEMMA ResumePendingKeeps == Inv /\ ResumePending => Inv'
<1> SUFFICES ASSUME Inv, ResumePending PROVE Inv'
  OBVIOUS
<1> DEFINE next == NextStep(log)
           a == ActionOf(log, Pending(log))
<1>1. pc = "resume" /\ UNCHANGED <<log, reservations, disk, overlay, run>>
  BY DEF ResumePending
<1>2. job.step = 0 /\ job.obs = NoObs
  BY <1>1 DEF Inv, TypeInv, JobOK, InLoop, Executes, GateInv
<1>3. LogOK' /\ Len(log) <= Len(log')
  BY <1>1, AtAnyPoint DEF LogOK
<1>4. CASE next = "execute_pending"
  <2>1. pc' = "execute"
        /\ job' = [job EXCEPT !.action = a, !.then = "resumed"]
    BY <1>4 DEF ResumePending
  <2>2. IsAction(a)
    BY <1>4, NextStepOfPending, AtAnyPoint, PendingInLog
  <2> HIDE DEF a
  <2>3. /\ IsJob(job') /\ job'.step = job.step /\ job'.limit = job.limit
        /\ job'.initial = job.initial /\ job'.cycle = job.cycle
        /\ job'.action = a /\ job'.then = "resumed"
    BY <2>1, AtAnyPoint DEF IsJob
  <2> QED BY <1>1, <1>2, <1>3, <2>1, <2>2, <2>3, AtAnyPoint, SameStore,
             BeginKeeps DEF ReturnsTo
<1>5. CASE next = "retry_read_only"
  <2>1. pc' = "start"
        /\ job' = [job EXCEPT !.action = a, !.then = "resumed",
                              !.retry = TRUE]
    BY <1>5 DEF ResumePending
  <2>2. IsAction(a)
    BY <1>5, NextStepOfPending, AtAnyPoint, PendingInLog
  <2> HIDE DEF a
  <2>3. /\ IsJob(job') /\ job'.step = job.step /\ job'.limit = job.limit
        /\ job'.initial = job.initial /\ job'.cycle = job.cycle
        /\ job'.action = a /\ job'.then = "resumed"
    BY <2>1, AtAnyPoint DEF IsJob
  <2> QED BY <1>1, <1>2, <1>3, <2>1, <2>2, <2>3, AtAnyPoint, SameStore,
             BeginKeeps DEF ReturnsTo
<1>6. CASE next \notin {"execute_pending", "retry_read_only"}
  <2>1. pc' = "wait" /\ UNCHANGED job
    BY <1>6 DEF ResumePending
  <2>2. pc' \notin Executes \union {"gate", "advance", "step", "end",
                                    "recover", "resume"}
    BY <2>1 DEF Executes
  <2>3. ~Waits(job'.obs)
    BY <1>2, <2>1 DEF Waits
  <2> QED BY <1>1, <1>2, <1>3, <2>1, <2>2, <2>3, AtAnyPoint, SameStore,
             OutsideKeeps
<1> QED BY <1>4, <1>5, <1>6

LEMMA ResumedKeeps == Inv /\ Resumed => Inv'
<1> SUFFICES ASSUME Inv, Resumed PROVE Inv'
  OBVIOUS
<1>1. pc = "resumed" /\ UNCHANGED <<reservations, disk>>
  BY DEF Resumed
<1>2. log' \in {log, Append(log, Snapshot(Rebuilt(log)))}
  BY DEF Resumed, PersistRebuilt
<1>3. LogOK' /\ Len(log) <= Len(log')
  BY <1>2, MayRecord
<1>4. CASE job.obs.status \in StoppingStatuses
  <2>1. Return(log')
    BY <1>4 DEF Resumed
  <2> QED BY <1>1, <1>3, <2>1, SameStore, ReturnKeeps
<1>5. CASE job.obs.status \notin StoppingStatuses
  <2>1. /\ job' = [job EXCEPT !.state = Rebuilt(log)] /\ pc' = "wait"
        /\ UNCHANGED <<overlay, run>>
    BY <1>5 DEF Resumed, PersistRebuilt
  <2>2. job.step = 0 /\ ~Waits(job.obs)
    BY <1>1, <1>5 DEF Inv, TypeInv, JobOK, InLoop, Executes, Waits,
                      StoppingStatuses
  <2>3. /\ IsJob(job') /\ job'.step = job.step /\ job'.limit = job.limit
        /\ job'.initial = job.initial /\ job'.obs = job.obs
        /\ job'.cycle = job.cycle
    BY <2>1, AtAnyPoint DEF IsJob
  <2>4. pc' \notin Executes \union {"gate", "advance", "step", "end",
                                    "recover", "resume"}
    BY <2>1 DEF Executes
  <2> QED BY <1>1, <1>3, <2>1, <2>2, <2>3, <2>4, AtAnyPoint, SameStore,
             OutsideKeeps
<1> QED BY <1>4, <1>5

(* A step between two decisions.                                           *)
LEMMA StepKeeps ==
  ASSUME Inv, LogOK', UNCHANGED <<reservations, disk, overlay, run>>,
         Len(log) <= Len(log'),
         IsJob(job'), IsCycle(job'.cycle), job'.step \in Nat,
         job'.limit \in 0..MaxSteps, job'.initial \in Nat,
         1 <= job'.step, job'.step <= job'.limit + 1,
         pc' \in {"step", "end"},
         job'.step > 0 /\ job'.limit > 0 =>
           ToolCalls(log') - job'.initial <= Budget,
         pc' = "step" => ~Waits(job'.obs)
  PROVE  Inv'
<1>1. ~InLoop' /\ pc' \notin Executes
  BY DEF InLoop, Executes
<1>2. JobOK'
  BY <1>1 DEF JobOK
<1>3. FilesOK'
  BY AtAnyPoint, LogIsCharged DEF FilesOK, LogOK
<1>4. BudgetInv' /\ GateInv'
  BY <1>1 DEF BudgetInv, GateInv
<1> QED BY <1>2, <1>3, <1>4, SameStore DEF Inv, TypeInv

LEMMA EnterLoopKeeps == Inv /\ EnterLoop => Inv'
<1> SUFFICES ASSUME Inv, EnterLoop PROVE Inv'
  OBVIOUS
<1> DEFINE waits == \/ NextStep(log) \in {"await_approval", "await_input",
                                          "confirm_side_effect", "stopped"}
                    \/ PendingApproval(log) # 0
           spent == ToolCalls(log) - job.initial
           left  == IF Budget > spent THEN Budget - spent ELSE 0
           limit == Least(Least(MaxSteps, Budget), left)
<1>1. pc = "wait" /\ UNCHANGED <<log, reservations, disk>>
  BY DEF EnterLoop
<1>2. LogOK' /\ log' = log /\ Len(log) <= Len(log')
  BY <1>1, AtAnyPoint DEF LogOK
<1>3. CASE waits
  <2>1. Return(log')
    BY <1>2, <1>3 DEF EnterLoop
  <2> QED BY <1>1, <1>2, <2>1, SameStore, ReturnKeeps
<1>4. CASE ~waits
  <2>1. /\ pc' = "step"
        /\ job' = [job EXCEPT !.step = 1, !.action = NoAction,
                              !.limit = limit]
        /\ UNCHANGED <<overlay, run>>
    BY <1>4 DEF EnterLoop
  <2>2. spent \in Int /\ Budget \in Nat /\ MaxSteps \in Nat
    BY AtAnyPoint, AgentLoopAssumption DEF AgentLoopAssumption
  <2> HIDE DEF spent
  <2>3. limit \in 0..MaxSteps /\ (limit > 0 => spent <= Budget)
    BY <2>2 DEF Least
  <2> HIDE DEF limit
  <2>4. /\ IsJob(job') /\ job'.step = 1 /\ job'.limit = limit
        /\ job'.initial = job.initial /\ job'.obs = job.obs
        /\ job'.cycle = job.cycle
    BY <2>1, AtAnyPoint DEF IsJob
  <2>5. ~Waits(job'.obs)
    BY <1>1, <2>4 DEF Inv, GateInv
  <2>6. job'.limit > 0 => ToolCalls(log') - job'.initial <= Budget
    BY <1>2, <2>3, <2>4 DEF spent
  <2> QED BY <1>1, <1>2, <2>1, <2>3, <2>4, <2>5, <2>6, AtAnyPoint, StepKeeps
<1> QED BY <1>3, <1>4

(* What the model may decide is an action that the budget has room for.    *)
LEMMA DecidedActionsFit ==
  ASSUME NEW a \in DecidedActions, RemainingCalls \in Nat
  PROVE  /\ IsAction(a)
         /\ a.size = 1 \/ a.size <= RemainingCalls
<1> DEFINE id == LoopId
           changes == Kinds \intersect (WriteKinds \union {"propose_patch"})
<1>1. \/ \E k \in Kinds \intersect {"read_file", "inspect_proposed_diff",
                                    "finish"} : a = Read(id, k, 1)
      \/ a = Read(id, "ask_user", 1)
      \/ \E n \in BatchSizes : n <= Least(4, RemainingCalls)
                               /\ a = Read(id, "parallel_read", n)
      \/ \E k \in changes, e \in Edits :
           a = Action(id, k, e[1], e[2], e[3], 1, NoRef)
  <2> HIDE DEF id, changes
  <2> QED BY DEF DecidedActions, id, changes
<1> HIDE DEF id
<1>2. CASE \E k \in Kinds \intersect {"read_file", "inspect_proposed_diff",
                                      "finish"} : a = Read(id, k, 1)
  BY <1>2 DEF Read, Action, IsAction, WriteKinds
<1>3. CASE a = Read(id, "ask_user", 1)
  BY <1>3 DEF Read, Action, IsAction, WriteKinds
<1>4. CASE \E n \in BatchSizes : n <= Least(4, RemainingCalls)
                                 /\ a = Read(id, "parallel_read", n)
  <2>1. PICK n \in BatchSizes : n <= Least(4, RemainingCalls)
                                /\ a = Read(id, "parallel_read", n)
    BY <1>4
  <2>2. n \in Nat /\ n <= RemainingCalls
    BY <2>1, AgentLoopAssumption DEF Least, AgentLoopAssumption
  <2>3. a.size = n /\ a.kind = "parallel_read"
    BY <2>1 DEF Read, Action
  <2> QED BY <2>2, <2>3 DEF IsAction, WriteKinds
<1>5. CASE \E k \in changes, e \in Edits :
             a = Action(id, k, e[1], e[2], e[3], 1, NoRef)
  <2>1. PICK k \in changes, e \in Edits :
               a = Action(id, k, e[1], e[2], e[3], 1, NoRef)
    BY <1>5
  <2>2. e[1] \in Paths /\ e[2] \in Contents /\ e[3] \in Contents
    BY AgentLoopAssumption DEF AgentLoopAssumption
  <2> QED BY <2>1, <2>2 DEF Action, IsAction
<1> QED BY <1>1, <1>2, <1>3, <1>4, <1>5

LEMMA DecideKeeps == Inv /\ Decide => Inv'
<1> SUFFICES ASSUME Inv, Decide PROVE Inv'
  OBVIOUS
<1>1. /\ pc = "step" /\ 1 <= job.step /\ job.step <= job.limit
      /\ RemainingCalls > 0 /\ pc' = "gate"
      /\ UNCHANGED <<reservations, disk, overlay, run>>
  BY DEF Decide, Inv, TypeInv, JobOK
<1>2. PICK a \in DecidedActions, u \in Offered :
        /\ log' = Append(log, [ActionEvent("decision_recorded", a)
                                 EXCEPT !.update = u])
        /\ job' = [job EXCEPT !.action = a, !.update = u]
  BY DEF Decide
<1> DEFINE e == [ActionEvent("decision_recorded", a) EXCEPT !.update = u]
           used == ToolCalls(log) - job.initial
<1>3. used \in Int /\ Budget \in Nat /\ job.step \in Nat
  BY AtAnyPoint, AgentLoopAssumption DEF AgentLoopAssumption
<1>4. RemainingCalls = IF Budget > used THEN Budget - used ELSE 0
  BY DEF RemainingCalls
<1> HIDE DEF used
<1>5. RemainingCalls \in Nat /\ used + RemainingCalls = Budget
  BY <1>1, <1>3, <1>4
<1>6. IsAction(a) /\ used + a.size <= Budget
  <2>1. IsAction(a) /\ (a.size = 1 \/ a.size <= RemainingCalls)
    BY <1>5, DecidedActionsFit
  <2>2. a.size \in Nat
    BY <2>1 DEF IsAction
  <2> QED BY <1>1, <1>3, <1>5, <2>1, <2>2
<1>7. e.type = "decision_recorded" /\ e.checkpoint = 0 /\ e.action = a
  BY EventFields
<1>8. IsEvent(e, Len(log) + 1) /\ Cost(e) = 0
  <2> HIDE DEF e
  <2> QED BY <1>6, <1>7, AtAnyPoint
          DEF IsEvent, Cost, EventTypes, StartTypes, TerminalTypes
<1>9. LogOK' /\ ToolCalls(log') = ToolCalls(log) /\ Len(log) <= Len(log')
  <2> HIDE DEF e
  <2>1. LogsEvents(Append(log, e)) /\ Len(Append(log, e)) = Len(log) + 1
        /\ ToolCalls(Append(log, e)) = ToolCalls(log) + Cost(e)
    BY <1>8, AtAnyPoint, LogGrows
  <2>2. log' = Append(log, e)
    BY <1>2 DEF e
  <2> QED BY <1>8, <2>1, <2>2, AtAnyPoint DEF LogOK
<1>10. /\ IsJob(job') /\ job'.step = job.step /\ job'.limit = job.limit
       /\ job'.initial = job.initial /\ job'.cycle = job.cycle
       /\ job'.action = a /\ job'.obs = job.obs
  BY <1>2, AtAnyPoint DEF IsJob
<1>11. InLoop' /\ pc' \notin Executes
  BY <1>1 DEF InLoop, Executes
<1>12. JobOK'
  BY <1>1, <1>6, <1>10, <1>11, AtAnyPoint DEF JobOK
<1>13. FilesOK'
  BY <1>1, <1>9, AtAnyPoint, LogIsCharged DEF FilesOK, LogOK
<1>14. ToolCalls(log') - job'.initial + job'.action.size <= Budget
  BY <1>6, <1>9, <1>10 DEF used
<1>15. BudgetInv'
  <2>1. ToolCalls(log') - job'.initial \in Int /\ job'.action.size \in Nat
    BY <1>6, <1>9, <1>10, AtAnyPoint DEF IsAction
  <2> QED BY <1>3, <1>14, <2>1 DEF BudgetInv
<1>16. GateInv'
  BY <1>1, <1>10, <1>11 DEF Inv, GateInv
<1> QED BY <1>1, <1>9, <1>12, <1>13, <1>15, <1>16, SameStore DEF Inv, TypeInv

LEMMA DecisionFailsKeeps == Inv /\ DecisionFails => Inv'
<1> SUFFICES ASSUME Inv, DecisionFails PROVE Inv'
  OBVIOUS
<1>1. Fail /\ UNCHANGED <<reservations, disk>>
      /\ log' \in {log, Append(log, Snapshot(Stop(job.state, "failed")))}
  BY DEF DecisionFails
<1>2. LogOK'
  BY <1>1, MayRecord
<1> QED BY <1>1, <1>2, SameStore, FailKeeps

LEMMA LimitReachedKeeps == Inv /\ LimitReached => Inv'
<1> SUFFICES ASSUME Inv, LimitReached PROVE Inv'
  OBVIOUS
<1>1. /\ pc = "step" /\ pc' = "end"
      /\ job' = [job EXCEPT !.reason = "step_limit"]
      /\ UNCHANGED <<log, reservations, disk, overlay, run>>
  BY DEF LimitReached, stored
<1>2. /\ IsJob(job') /\ job'.step = job.step /\ job'.limit = job.limit
      /\ job'.initial = job.initial /\ job'.cycle = job.cycle
  BY <1>1, AtAnyPoint DEF IsJob
<1>3. LogOK' /\ ToolCalls(log') = ToolCalls(log) /\ Len(log) <= Len(log')
  BY <1>1, AtAnyPoint DEF LogOK
<1>4. /\ 1 <= job.step /\ job.step <= job.limit + 1
      /\ job.step > 0 /\ job.limit > 0 =>
           ToolCalls(log) - job.initial <= Budget
  BY <1>1 DEF Inv, TypeInv, JobOK, BudgetInv
<1> QED BY <1>1, <1>2, <1>3, <1>4, AtAnyPoint, StepKeeps

LEMMA GateKeeps == Inv /\ Gate => Inv'
<1> SUFFICES ASSUME Inv, Gate PROVE Inv'
  OBVIOUS
<1> DEFINE a == job.action
           blocked == FinishBlocked(a)
           refused == /\ a.kind \in WriteKinds
                      /\ WriteConflict(a) \/ RepeatedRepair(a)
           obs == Plain(IF blocked THEN "acceptance_incomplete"
                        ELSE "conflict")
           type == IF blocked THEN "finish_blocked" ELSE "action_conflict"
<1>1. pc = "gate" /\ UNCHANGED <<reservations, disk, overlay, run>>
  BY DEF Gate
<1>2. InLoop /\ IsAction(a) /\ 1 <= job.step /\ job.step <= job.limit /\ ~Waits(job.obs)
      /\ ToolCalls(log) - job.initial + a.size <= Budget
  BY <1>1 DEF Inv, TypeInv, JobOK, BudgetInv, GateInv, InLoop
<1>3. CASE blocked \/ refused
  <2>1. /\ log' = Append(log, Result(type, a, obs)) /\ pc' = "advance"
        /\ job' = [job EXCEPT !.obs = obs]
    BY <1>3 DEF Gate
  <2>2. type \in EventTypes \ StartTypes
    BY DEF EventTypes, TerminalTypes, StartTypes
  <2>3. obs.status \in {"acceptance_incomplete", "conflict"}
    BY DEF Plain, Obs
  <2> HIDE DEF type, obs
  <2>4. LogOK' /\ ToolCalls(log') = ToolCalls(log) /\ Len(log) <= Len(log')
    BY <1>1, <2>1, <2>2, LogsWithoutCost
  <2>5. /\ IsJob(job') /\ job'.step = job.step /\ job'.limit = job.limit
        /\ job'.initial = job.initial /\ job'.cycle = job.cycle
        /\ job'.action = a /\ job'.obs = obs
    BY <2>1, AtAnyPoint DEF IsJob
  <2>6. InLoop' /\ pc' \notin Executes
    BY <2>1 DEF InLoop, Executes
  <2>7. JobOK'
    BY <1>2, <2>1, <2>5, <2>6, AtAnyPoint DEF JobOK
  <2>8. FilesOK'
    BY <1>1, <2>4, AtAnyPoint, LogIsCharged DEF FilesOK, LogOK
  <2>9. BudgetInv' /\ GateInv'
    BY <2>1, <2>3, <2>4, <2>5, <2>6 DEF Inv, BudgetInv, GateInv
  <2> QED BY <1>1, <2>4, <2>7, <2>8, <2>9, SameStore DEF Inv, TypeInv
<1>4. CASE ~blocked /\ ~refused
  <2>1. /\ pc' = "execute" /\ job' = [job EXCEPT !.then = "advance"]
        /\ UNCHANGED log
    BY <1>4 DEF Gate
  <2>2. LogOK' /\ ToolCalls(log') = ToolCalls(log) /\ Len(log) <= Len(log')
    BY <2>1, AtAnyPoint DEF LogOK
  <2>3. /\ IsJob(job') /\ job'.step = job.step /\ job'.limit = job.limit
        /\ job'.initial = job.initial /\ job'.cycle = job.cycle
        /\ job'.action = a /\ job'.obs = job.obs /\ job'.then = "advance"
        /\ job'.state = job.state /\ job'.update = job.update
    BY <2>1, AtAnyPoint DEF IsJob
  <2>4. InLoop' /\ pc' \in Executes /\ "advance" \in ReturnsTo
    BY <2>1, <2>3 DEF InLoop, Executes, ReturnsTo
  <2>5. JobOK'
    BY <1>2, <2>1, <2>3, <2>4, AtAnyPoint DEF JobOK
  <2>6. FilesOK'
    BY <1>1, <2>2, AtAnyPoint, LogIsCharged DEF FilesOK, LogOK
  <2>7. BudgetInv'
    BY <1>2, <2>2, <2>3 DEF Inv, BudgetInv
  <2>8. a.kind = "finish" =>
          CompletionReady(ApplyUpdate(job.state, job.update))
    BY <1>4 DEF FinishBlocked
  <2>9. a.kind = "apply_patch" =>
          LET edit == job.state.edits[a.path]
          IN  /\ Inspected(edit)
              /\ edit.base = a.from /\ edit.current = a.to
    BY <1>4 DEF WriteConflict, WriteKinds, Inspected
  <2>10. GateInv'
    BY <1>2, <2>1, <2>3, <2>8, <2>9 DEF GateInv
  <2> QED BY <1>1, <2>2, <2>5, <2>6, <2>7, <2>10, SameStore DEF Inv, TypeInv
<1> QED BY <1>3, <1>4

LEMMA AdvanceStateKeeps == Inv /\ AdvanceState => Inv'
<1> SUFFICES ASSUME Inv, AdvanceState PROVE Inv'
  OBVIOUS
<1>1. pc = "advance" /\ UNCHANGED <<reservations, disk, overlay, run>>
  BY DEF AdvanceState
<1>2. PICK state, reason :
        /\ log' = Append(log, Snapshot(state))
        /\ pc' = IF reason = "none" THEN "step" ELSE "end"
        /\ job' = [job EXCEPT !.state = state, !.reason = reason,
                              !.step = @ + 1, !.action = NoAction,
                              !.update = NoUpdate, !.obs = NoObs]
  BY DEF AdvanceState
<1>3. LogOK' /\ ToolCalls(log') = ToolCalls(log) /\ Len(log) <= Len(log')
  BY <1>2, MayRecord
<1>4. /\ IsJob(job') /\ job'.step = job.step + 1 /\ job'.limit = job.limit
      /\ job'.initial = job.initial /\ job'.cycle = job.cycle
      /\ job'.obs = NoObs
  BY <1>2, AtAnyPoint DEF IsJob
<1>5. 1 <= job.step /\ job.step <= job.limit
  BY <1>1 DEF Inv, TypeInv, JobOK, InLoop
<1>6. job.limit > 0 => ToolCalls(log) - job.initial <= Budget
  BY <1>5, AtAnyPoint DEF Inv, BudgetInv
<1> QED BY <1>1, <1>2, <1>3, <1>4, <1>5, <1>6, AtAnyPoint, StepKeeps DEF Waits

LEMMA EndLoopKeeps == Inv /\ EndLoop => Inv'
<1> SUFFICES ASSUME Inv, EndLoop PROVE Inv'
  OBVIOUS
<1>1. Return(log') /\ UNCHANGED <<reservations, disk>>
      /\ log' \in {log, Append(log, Snapshot(Stop(job.state, job.reason)))}
  BY DEF EndLoop
<1>2. LogOK'
  BY <1>1, MayRecord
<1> QED BY <1>1, <1>2, SameStore, ReturnKeeps

-----------------------------------------------------------------------------
(* The calls of the user.                                                  *)

LEMMA CallFields ==
  ASSUME Inv, NEW name, NEW point, NEW a, NEW then, Call(name, point, a, then)
  PROVE  /\ pc' = point /\ IsJob(job') /\ job'.action = a
         /\ job'.then = then /\ job'.cycle = run.cycle
         /\ job'.step = 0 /\ job'.limit = 0 /\ job'.initial = 0
         /\ job'.obs = NoObs
         /\ job'.limit \in 0..MaxSteps /\ job'.initial \in Nat
         /\ IsCycle(job'.cycle)
         /\ UNCHANGED <<reservations, disk, overlay, run>>
<1>1. job' = [Job(name) EXCEPT !.action = a, !.then = then,
                               !.cycle = run.cycle]
      /\ pc' = point /\ UNCHANGED <<reservations, disk, overlay, run>>
  BY DEF Call
<1>2. /\ IsJob(Job(name)) /\ Job(name).step = 0 /\ Job(name).limit = 0
      /\ Job(name).initial = 0 /\ Job(name).obs = NoObs
  BY NoJobFields
<1>3. /\ IsJob(job') /\ job'.action = a /\ job'.then = then
      /\ job'.cycle = run.cycle /\ job'.step = 0 /\ job'.limit = 0
      /\ job'.initial = 0 /\ job'.obs = NoObs
  BY <1>1, <1>2 DEF IsJob
<1> QED BY <1>1, <1>3, AtAnyPoint, AgentLoopAssumption
        DEF AgentLoopAssumption

LEMMA RunKeeps ==
  ASSUME Inv, UNCHANGED <<log, reservations, disk, overlay, pc, job>>,
         DOMAIN run' = {"checkpoint", "question", "cycle"},
         run'.checkpoint \in 0..Len(log), run'.cycle = run.cycle
  PROVE  Inv'
<1>1. LogOK' /\ StoreOK' /\ FilesOK'
  BY AtAnyPoint DEF LogOK, StoreOK, FilesOK
<1>2. InLoop' <=> InLoop
  BY DEF InLoop
<1>3. JobOK' /\ BudgetInv' /\ GateInv'
  BY <1>2 DEF Inv, TypeInv, JobOK, BudgetInv, GateInv
<1> QED BY <1>1, <1>3 DEF Inv, TypeInv

LEMMA RestoreQuestionKeeps == Inv /\ RestoreQuestion => Inv'
<1> SUFFICES ASSUME Inv, RestoreQuestion PROVE Inv'
  OBVIOUS
<1>1. run' = [run EXCEPT !.question = PendingInput(log)]
      /\ UNCHANGED <<log, reservations, disk, overlay, pc, job>>
  BY DEF RestoreQuestion
<1>2. /\ DOMAIN run' = {"checkpoint", "question", "cycle"}
      /\ run'.checkpoint \in 0..Len(log) /\ run'.cycle = run.cycle
  BY <1>1, AtAnyPoint
<1> QED BY <1>1, <1>2, RunKeeps

LEMMA CancelKeeps == Inv /\ Cancel => Inv'
<1> SUFFICES ASSUME Inv, Cancel PROVE Inv'
  OBVIOUS
<1>1. run' = [run EXCEPT !.checkpoint = 0, !.question = NoAction]
      /\ UNCHANGED <<log, reservations, disk, overlay, pc, job>>
  BY DEF Cancel
<1>2. /\ DOMAIN run' = {"checkpoint", "question", "cycle"}
      /\ run'.checkpoint \in 0..Len(log) /\ run'.cycle = run.cycle
  BY <1>1, AtAnyPoint
<1> QED BY <1>1, <1>2, RunKeeps

(* The question and the request that a user may settle are about actions.  *)
LEMMA PendingInputIsAction ==
  ASSUME NEW l, LogsEvents(l), PendingInput(l) # NoAction
  PROVE  IsAction(PendingInput(l))
<1> DEFINE asked == Events({"input_required"}, l)
<1>1. asked # {} /\ PendingInput(l) = l[Newest(asked)].action
  BY DEF PendingInput
<1>2. Len(l) \in Nat /\ asked \subseteq 1..Len(l)
  BY LogIsCharged DEF Events
<1> HIDE DEF asked
<1>3. Newest(asked) \in 1..Len(l)
  BY <1>1, <1>2, NewestIsLast
<1> QED BY <1>1, <1>3 DEF LogsEvents, IsEvent

LEMMA PendingRequestIsAction ==
  ASSUME Inv, OfferedPending
  PROVE  IsAction(PendingApprovalAction)
<1> DEFINE asked == Events({"approval_required"}, log)
<1>1. asked # {}
  BY DEF OfferedPending, PendingApproval
<1>2. Len(log) \in Nat /\ asked \subseteq 1..Len(log)
      /\ \A i \in asked : log[i].type = "approval_required"
  BY AtAnyPoint, LogIsCharged DEF Events
<1> HIDE DEF asked
<1>3. Newest(asked) \in asked
  BY <1>1, <1>2, NewestIsLast
<1>4. IsAction(log[Newest(asked)].action)
  BY <1>2, <1>3 DEF Inv, TypeInv, LogOK, LogsEvents, IsEvent, WaitingTypes
<1> QED BY <1>4 DEF PendingApprovalAction, Requests, asked

(* An event of the user about an action.                                   *)
LEMMA UserEventKeeps ==
  ASSUME Inv, NEW e, log' = Append(log, e),
         e.type \in {"input_received", "approval_granted",
                     "approval_rejected"},
         e.checkpoint \in 0..Len(log), IsAction(e.action)
  PROVE  LogOK' /\ Len(log) <= Len(log')
<1>1. IsEvent(e, Len(log) + 1)
  BY AtAnyPoint DEF IsEvent, EventTypes
<1> QED BY <1>1, AtAnyPoint, LogGrows DEF LogOK

LEMMA AnswerKeeps == Inv /\ Answer => Inv'
<1> SUFFICES ASSUME Inv, Answer PROVE Inv'
  OBVIOUS
<1> DEFINE q == run.question
           e(answer) == [ActionEvent("input_received", q)
                           EXCEPT !.answer = answer]
<1>1. PICK answer \in Answers :
        \/ log' = log
        \/ q = PendingInput(log) /\ log' = Append(log, e(answer))
  BY DEF Answer
<1>2. q # NoAction /\ Call("answer", "answered", q, "idle")
  BY DEF Answer
<1>3. LogOK' /\ Len(log) <= Len(log')
  <2>1. CASE log' = log
    BY <2>1, AtAnyPoint DEF LogOK
  <2>2. CASE q = PendingInput(log) /\ log' = Append(log, e(answer))
    <3>1. IsAction(q)
      BY <1>2, <2>2, AtAnyPoint, PendingInputIsAction
    <3>2. /\ e(answer).type = "input_received" /\ e(answer).checkpoint = 0
          /\ e(answer).action = q
      BY EventFields
    <3> HIDE DEF e
    <3> QED BY <2>2, <3>1, <3>2, AtAnyPoint, UserEventKeeps
  <2> QED BY <1>1, <2>1, <2>2
<1>4. /\ pc' = "answered" /\ IsJob(job') /\ job'.step = 0
      /\ job'.limit \in 0..MaxSteps /\ job'.initial \in Nat
      /\ IsCycle(job'.cycle)
      /\ UNCHANGED <<reservations, disk, overlay, run>>
  BY <1>2, CallFields
<1>5. pc' \notin Executes \union {"gate", "advance", "step", "end", "wait",
                                  "recover", "resume"}
  BY <1>4 DEF Executes
<1> QED BY <1>3, <1>4, <1>5, AtAnyPoint, SameStore, OutsideKeeps

LEMMA ApproveKeeps == Inv /\ Approve => Inv'
<1> SUFFICES ASSUME Inv, Approve PROVE Inv'
  OBVIOUS
<1> DEFINE a == PendingApprovalAction
           e == [ActionEvent("approval_granted", a)
                   EXCEPT !.checkpoint = run.checkpoint]
           then == IF a.kind = "validate" THEN "validated" ELSE "written"
<1>1. /\ OfferedPending /\ log' = Append(log, e)
      /\ Call("approve", "execute", a, then)
  BY DEF Approve
<1>2. IsAction(a)
  BY <1>1, PendingRequestIsAction
<1>3. /\ e.type = "approval_granted" /\ e.checkpoint = run.checkpoint
      /\ e.action = a
  BY EventFields
<1> HIDE DEF e, a
<1>4. LogOK' /\ Len(log) <= Len(log')
  BY <1>1, <1>2, <1>3, AtAnyPoint, UserEventKeeps
<1>5. then \in ReturnsTo \ {"advance"}
  BY DEF ReturnsTo
<1> HIDE DEF then
<1>6. /\ pc' = "execute" /\ IsJob(job') /\ job'.step = 0 /\ job'.action = a
      /\ job'.then = then
      /\ job'.limit \in 0..MaxSteps /\ job'.initial \in Nat
      /\ IsCycle(job'.cycle)
      /\ UNCHANGED <<reservations, disk, overlay, run>>
  BY <1>1, CallFields
<1> QED BY <1>2, <1>4, <1>5, <1>6, SameStore, BeginKeeps

LEMMA RejectKeeps == Inv /\ Reject => Inv'
<1> SUFFICES ASSUME Inv, Reject PROVE Inv'
  OBVIOUS
<1> DEFINE a == PendingApprovalAction
           e == [ActionEvent("approval_rejected", a)
                   EXCEPT !.checkpoint = run.checkpoint]
<1>1. /\ OfferedPending /\ log' = Append(log, e)
      /\ Call("reject", "rejected", NoAction, "idle")
  BY DEF Reject
<1>2. IsAction(a)
  BY <1>1, PendingRequestIsAction
<1>3. /\ e.type = "approval_rejected" /\ e.checkpoint = run.checkpoint
      /\ e.action = a
  BY EventFields
<1> HIDE DEF e, a
<1>4. LogOK' /\ Len(log) <= Len(log')
  BY <1>1, <1>2, <1>3, AtAnyPoint, UserEventKeeps
<1>5. /\ pc' = "rejected" /\ IsJob(job') /\ job'.step = 0
      /\ job'.limit \in 0..MaxSteps /\ job'.initial \in Nat
      /\ IsCycle(job'.cycle)
      /\ UNCHANGED <<reservations, disk, overlay, run>>
  BY <1>1, CallFields
<1>6. pc' \notin Executes \union {"gate", "advance", "step", "end", "wait",
                                  "recover", "resume"}
  BY <1>5 DEF Executes
<1> QED BY <1>4, <1>5, <1>6, AtAnyPoint, SameStore, OutsideKeeps

LEMMA ResumeLoopKeeps == Inv /\ ResumeLoop => Inv'
<1> SUFFICES ASSUME Inv, ResumeLoop PROVE Inv'
  OBVIOUS
<1>1. UNCHANGED <<log, reservations, disk, run>> /\ Resume(log', run.cycle)
  BY DEF ResumeLoop
<1>2. LogOK' /\ Len(log) <= Len(log')
  BY <1>1, AtAnyPoint DEF LogOK
<1> QED BY <1>1, <1>2, AtAnyPoint, ResumeKeeps

-----------------------------------------------------------------------------
(* How these calls continue.                                               *)

LEMMA AnsweredKeeps == Inv /\ Answered => Inv'
<1> SUFFICES ASSUME Inv, Answered PROVE Inv'
  OBVIOUS
<1>1. PICK state : log' \in {log, Append(log, Snapshot(state))}
  BY DEF Answered
<1>2. Resume(log', job.cycle) /\ UNCHANGED <<reservations, disk, run>>
  BY DEF Answered
<1>3. LogOK' /\ Len(log) <= Len(log')
  BY <1>1, MayRecord
<1> QED BY <1>2, <1>3, AtAnyPoint, ResumeKeeps

LEMMA RejectedStateKeeps == Inv /\ RejectedState => Inv'
<1> SUFFICES ASSUME Inv, RejectedState PROVE Inv'
  OBVIOUS
<1>1. Fail /\ UNCHANGED <<reservations, disk>>
      /\ log' = Append(log, Snapshot(Stop(LatestState(log),
                                          "approval_rejected")))
  BY DEF RejectedState
<1>2. LogOK'
  BY <1>1, MayRecord
<1> QED BY <1>1, <1>2, SameStore, FailKeeps

(* A call after its action: no step of a loop has begun.                   *)
AfterAction == {"written", "diffed", "close", "requested", "validated",
                "observed"}

LEMMA NoStepAfterAction ==
  ASSUME Inv, pc \in AfterAction
  PROVE  job.step = 0
BY DEF Inv, TypeInv, JobOK, AfterAction, InLoop, Executes

LEMMA WrittenKeeps == Inv /\ Written => Inv'
<1> SUFFICES ASSUME Inv, Written PROVE Inv'
  OBVIOUS
<1> DEFINE diff == Read(Append(job.action.id, "diff"), "inspect_diff", 1)
<1>1. pc = "written" /\ UNCHANGED <<reservations, disk>> /\ job.step = 0
  BY NoStepAfterAction DEF Written, AfterAction
<1>2. CASE job.obs.status = "approval_required"
  <2>1. PICK state : log' = Append(log, Snapshot(state)) /\ Return(log')
    BY <1>2 DEF Written, SuccessStatuses
  <2>2. LogOK'
    BY <2>1, MayRecord
  <2> QED BY <1>1, <2>1, <2>2, SameStore, ReturnKeeps
<1>3. CASE job.obs.status \in SuccessStatuses
  <2>1. PICK after :
          /\ log' = Append(log, Snapshot(after)) /\ pc' = "execute"
          /\ job' = [job EXCEPT !.action = diff, !.then = "diffed",
                                !.state = after]
          /\ UNCHANGED <<overlay, run>>
    BY <1>3 DEF Written, SuccessStatuses
  <2>2. LogOK' /\ Len(log) <= Len(log')
    BY <2>1, MayRecord
  <2>3. IsAction(diff)
    BY DEF Read, Action, IsAction, WriteKinds
  <2> HIDE DEF diff
  <2>4. /\ IsJob(job') /\ job'.step = job.step /\ job'.limit = job.limit
        /\ job'.initial = job.initial /\ job'.cycle = job.cycle
        /\ job'.action = diff /\ job'.then = "diffed"
    BY <2>1, AtAnyPoint DEF IsJob
  <2> QED BY <1>1, <2>1, <2>2, <2>3, <2>4, AtAnyPoint, SameStore, BeginKeeps
          DEF ReturnsTo
<1>4. CASE job.obs.status \notin SuccessStatuses \union {"approval_required"}
  <2>1. Reset /\ UNCHANGED <<log, run>>
    BY <1>4 DEF Written
  <2>2. LogOK'
    BY <2>1, AtAnyPoint DEF LogOK
  <2> QED BY <1>1, <2>1, <2>2, AtAnyPoint, SameStore, ResetKeeps
<1> QED BY <1>2, <1>3, <1>4

LEMMA DiffedKeeps == Inv /\ Diffed => Inv'
<1> SUFFICES ASSUME Inv, Diffed PROVE Inv'
  OBVIOUS
<1>1. pc = "diffed" /\ UNCHANGED <<reservations, disk, overlay, run>>
      /\ pc' = "close" /\ job.step = 0
  BY NoStepAfterAction DEF Diffed, AfterAction
<1>2. PICK state : log' = Append(log, Snapshot(state))
                   /\ job' = [job EXCEPT !.state = state]
  BY DEF Diffed
<1>3. LogOK' /\ Len(log) <= Len(log')
  BY <1>2, MayRecord
<1>4. /\ IsJob(job') /\ job'.step = job.step /\ job'.limit = job.limit
      /\ job'.initial = job.initial /\ job'.cycle = job.cycle
  BY <1>2, AtAnyPoint DEF IsJob
<1>5. pc' \notin Executes \union {"gate", "advance", "step", "end", "wait",
                                  "recover", "resume"}
  BY <1>1 DEF Executes
<1> QED BY <1>1, <1>3, <1>4, <1>5, AtAnyPoint, SameStore, OutsideKeeps

LEMMA RequestNextKeeps ==
  ASSUME Inv, job.step = 0, LogOK', Len(log) <= Len(log'),
         UNCHANGED <<reservations, disk>>,
         NEW c, IsCycle(c), RequestNext(c)
  PROVE  Inv'
<1> DEFINE a == Validation(c.write, c.next)
<1>1. /\ pc' = "execute" /\ UNCHANGED <<overlay, run>>
      /\ job' = [job EXCEPT !.action = a, !.then = "requested", !.cycle = c]
  BY DEF RequestNext
<1>2. IsAction(a)
  BY DEF Validation, Action, IsAction, WriteKinds
<1> HIDE DEF a
<1>3. /\ IsJob(job') /\ job'.step = job.step /\ job'.limit = job.limit
      /\ job'.initial = job.initial /\ job'.cycle = c
      /\ job'.action = a /\ job'.then = "requested"
  BY <1>1, AtAnyPoint DEF IsJob
<1> QED BY <1>1, <1>2, <1>3, AtAnyPoint, SameStore, BeginKeeps DEF ReturnsTo

LEMMA CloseWriteKeeps == Inv /\ CloseWrite => Inv'
<1> SUFFICES ASSUME Inv, CloseWrite PROVE Inv'
  OBVIOUS
<1> DEFINE c == [write |-> job.action.id[2], next |-> 1]
<1>1. /\ pc = "close" /\ UNCHANGED <<reservations, disk>> /\ job.step = 0
      /\ log' = Append(log, Snapshot(Stop(job.state, "write_complete")))
      /\ IF Commands = <<>> THEN Fail ELSE RequestNext(c)
  BY NoStepAfterAction DEF CloseWrite, AfterAction
<1>2. LogOK' /\ Len(log) <= Len(log')
  BY <1>1, MayRecord
<1>3. CASE Commands = <<>>
  BY <1>1, <1>2, <1>3, SameStore, FailKeeps
<1>4. CASE Commands # <<>>
  <2>1. Len(Commands) # 0
    BY <1>4, AgentLoopAssumption DEF AgentLoopAssumption
  <2>2. IsCycle(c)
    BY <2>1, CommandsLength DEF IsCycle
  <2> HIDE DEF c
  <2> QED BY <1>1, <1>2, <1>4, <2>2, RequestNextKeeps
<1> QED BY <1>3, <1>4

LEMMA RequestedKeeps == Inv /\ Requested => Inv'
<1> SUFFICES ASSUME Inv, Requested PROVE Inv'
  OBVIOUS
<1>1. UNCHANGED <<reservations, disk>>
  BY DEF Requested
<1>2. PICK state : \/ Return(log') /\ log' = Append(log, Snapshot(state))
                   \/ Fail /\ log' = log
  BY DEF Requested
<1>3. LogOK'
  BY <1>2, MayRecord
<1> QED BY <1>1, <1>2, <1>3, SameStore, ReturnKeeps, FailKeeps

LEMMA ValidatedKeeps == Inv /\ Validated => Inv'
<1> SUFFICES ASSUME Inv, Validated PROVE Inv'
  OBVIOUS
<1> DEFINE more == job.obs.status = "completed"
                   /\ job.cycle.next < Len(Commands)
           c == [job.cycle EXCEPT !.next = @ + 1]
<1>1. pc = "validated" /\ UNCHANGED <<reservations, disk>> /\ job.step = 0
  BY NoStepAfterAction DEF Validated, AfterAction
<1>2. PICK state : log' = Append(log, Snapshot(state))
  BY DEF Validated
<1>3. LogOK' /\ Len(log) <= Len(log')
  BY <1>2, MayRecord
<1>4. CASE more
  <2>1. RequestNext(c)
    BY <1>4 DEF Validated
  <2>2. IsCycle(c)
    BY <1>4, AtAnyPoint, CommandsLength DEF IsCycle
  <2> HIDE DEF c
  <2> QED BY <1>1, <1>3, <2>1, <2>2, RequestNextKeeps
<1>5. CASE ~more
  <2>1. /\ pc' = "observed" /\ UNCHANGED <<overlay, run>>
        /\ job' = [job EXCEPT !.cycle.next = 0]
    BY <1>5 DEF Validated
  <2>2. /\ IsJob(job') /\ job'.step = job.step /\ job'.limit = job.limit
        /\ job'.initial = job.initial
        /\ job'.cycle = [job.cycle EXCEPT !.next = 0]
    BY <2>1, AtAnyPoint DEF IsJob
  <2>3. IsCycle(job'.cycle)
    BY <2>2, AtAnyPoint, CommandsLength DEF IsCycle
  <2>4. pc' \notin Executes \union {"gate", "advance", "step", "end", "wait",
                                    "recover", "resume"}
    BY <2>1 DEF Executes
  <2> QED BY <1>1, <1>3, <2>1, <2>2, <2>3, <2>4, AtAnyPoint, SameStore,
             OutsideKeeps
<1> QED BY <1>4, <1>5

LEMMA ObservedKeeps == Inv /\ Observed => Inv'
<1> SUFFICES ASSUME Inv, Observed PROVE Inv'
  OBVIOUS
<1>1. UNCHANGED <<reservations, disk>>
  BY DEF Observed
<1>2. PICK state : log' \in {log, Append(log, Snapshot(state))}
  BY DEF Observed
<1>3. LogOK' /\ Len(log) <= Len(log')
  BY <1>2, MayRecord
<1>4. Fail \/ (Resume(log', job.cycle) /\ UNCHANGED run)
  BY DEF Observed
<1> QED BY <1>1, <1>3, <1>4, AtAnyPoint, SameStore, FailKeeps, ResumeKeeps

-----------------------------------------------------------------------------
(* Faults, and the invariant.                                              *)

LEMMA CrashKeeps == Inv /\ Crash => Inv'
<1> SUFFICES ASSUME Inv, Crash PROVE Inv'
  OBVIOUS
<1>1. Reset /\ UNCHANGED <<log, reservations, disk, run>>
  BY DEF Crash
<1>2. LogOK'
  BY <1>1, AtAnyPoint DEF LogOK
<1> QED BY <1>1, <1>2, AtAnyPoint, SameStore, ResetKeeps

LEMMA OutsideEditKeeps == Inv /\ OutsideEdit => Inv'
<1> SUFFICES ASSUME Inv, OutsideEdit PROVE Inv'
  OBVIOUS
<1>1. UNCHANGED <<log, reservations, overlay, run, pc, job>>
  BY DEF OutsideEdit
<1>2. disk' \in [Paths -> Contents]
  BY AtAnyPoint DEF OutsideEdit
<1>3. InLoop' <=> InLoop
  BY <1>1 DEF InLoop
<1>4. LogOK' /\ StoreOK' /\ FilesOK' /\ JobOK'
  BY <1>1, <1>2, <1>3 DEF Inv, TypeInv, LogOK, StoreOK, FilesOK, JobOK
<1>5. BudgetInv' /\ GateInv'
  BY <1>1, <1>3 DEF Inv, BudgetInv, GateInv
<1> QED BY <1>4, <1>5 DEF Inv, TypeInv

LEMMA StutterKeeps == Inv /\ UNCHANGED vars => Inv'
<1> SUFFICES ASSUME Inv, UNCHANGED vars PROVE Inv'
  OBVIOUS
<1>1. UNCHANGED <<log, reservations, disk, overlay, run, pc, job>>
  BY DEF vars
<1> QED BY <1>1, AtAnyPoint, RunKeeps

LEMMA InitHolds == Init => Inv
<1> SUFFICES ASSUME Init PROVE Inv
  OBVIOUS
<1>1. /\ log = <<>> /\ reservations = {} /\ pc = "idle" /\ job = NoJob
      /\ disk = [p \in Paths |-> Original] /\ overlay = NoEdits
      /\ run = [checkpoint |-> 0, question |-> NoAction, cycle |-> NoCycle]
  BY DEF Init
<1>2. LogOK /\ StoreOK
  BY <1>1 DEF LogOK, LogsEvents, IsLog, StoreOK
<1>3. /\ IsJob(job) /\ IsCycle(job.cycle) /\ job.step = 0
      /\ job.limit = 0 /\ job.initial = 0 /\ IsCycle(NoCycle)
  BY <1>1, NoJobFields DEF NoJob
<1>4. FilesOK
  <2>1. Original \in Contents /\ Len(log) = 0
    BY <1>1, AgentLoopAssumption DEF AgentLoopAssumption
  <2> QED BY <1>1, <1>3, <2>1, EntriesAreEdits DEF FilesOK
<1>5. ~InLoop /\ pc \notin Executes
  BY <1>1 DEF InLoop, Executes
<1>6. JobOK
  BY <1>1, <1>3, <1>5, AgentLoopAssumption DEF JobOK, AgentLoopAssumption
<1>7. BudgetInv /\ GateInv
  BY <1>1, <1>3, <1>5 DEF BudgetInv, GateInv
<1> QED BY <1>2, <1>4, <1>6, <1>7 DEF Inv, TypeInv

LEMMA NextKeeps == Inv /\ [Next]_vars => Inv'
<1>1. Inv /\ Loop => Inv'
  BY ReconcileKeeps, RecoverKeeps, ResumePendingKeeps, ResumedKeeps,
     EnterLoopKeeps, DecideKeeps, DecisionFailsKeeps, LimitReachedKeeps,
     GateKeeps, AdvanceStateKeeps, EndLoopKeeps DEF Loop
<1>2. Inv /\ UserCall => Inv'
  BY AnswerKeeps, ApproveKeeps, RejectKeeps, RestoreQuestionKeeps,
     CancelKeeps DEF UserCall
<1>3. Inv /\ Continue => Inv'
  BY AnsweredKeeps, RejectedStateKeeps, WrittenKeeps, DiffedKeeps,
     CloseWriteKeeps, RequestedKeeps, ValidatedKeeps, ObservedKeeps
  DEF Continue
<1> QED BY <1>1, <1>2, <1>3, ExecuteStepKeeps, StartLoopKeeps,
           ResumeLoopKeeps, CrashKeeps, OutsideEditKeeps, StutterKeeps
        DEF Next, Progress

LEMMA InvHolds == Spec => []Inv
<1> QED BY InitHolds, NextKeeps, PTL DEF Spec

-----------------------------------------------------------------------------
(* The theorems of the invariant.                                          *)

(* Every variable keeps its shape: the types of events, one reservation    *)
(* per action, the files, the offered checkpoint and command, and the step *)
(* of a loop (agent_loop.py, runtime/loop.py).                             *)
THEOREM TypesHold == Spec => []TypeOK
<1>1. Inv => TypeOK
  <2> SUFFICES ASSUME Inv PROVE TypeOK
    OBVIOUS
  <2>1. ASSUME NEW i \in DOMAIN log PROVE log[i].type \in EventTypes
    <3>1. i \in 1..Len(log) /\ LogsEvents(log)
      BY <2>1, AtAnyPoint, LogIsCharged
    <3> QED BY <3>1 DEF LogsEvents, IsEvent
  <2>2. \A p \in Paths : overlay[p].status \in
                           {"none", "proposed", "inspected", "conflict"}
    BY AtAnyPoint DEF Overlays, EditSet
  <2>3. job.step \in 0..(MaxSteps + 1)
    <3>1. job.step = 0 \/ job.step <= job.limit + 1
      BY AtAnyPoint DEF Inv, TypeInv, JobOK
    <3> QED BY <3>1, AtAnyPoint, AgentLoopAssumption DEF AgentLoopAssumption
  <2> QED BY <2>1, <2>2, <2>3, AtAnyPoint
          DEF TypeOK, EventTypes, StoreOK, IsCycle
<1> QED BY <1>1, InvHolds, PTL

(* A call of the loop never charges more tool calls than max_tool_calls,   *)
(* the members of its parallel reads and the actions it recovered from an  *)
(* earlier process included (run_agent_loop, remaining_tool_calls).        *)
THEOREM CallsStayWithinBudget == Spec => []ToolCallsWithinBudget
<1>1. Inv => ToolCallsWithinBudget
  BY DEF Inv, BudgetInv, ToolCallsWithinBudget
<1> QED BY <1>1, InvHolds, PTL

(* A stored observation is one that a tool reported.                       *)
LEMMA StoredIsReported ==
  ASSUME StoreOK, NEW a, \E r \in Reserved(a) : r.obs # NoObs
  PROVE  StoredObs(a).status \in ToolStatuses
<1>1. PICK r \in Reserved(a) : r.obs # NoObs
  OBVIOUS
<1>2. \A q \in Reserved(a) : q = r
  BY <1>1 DEF StoreOK, Reserved
<1>3. StoredObs(a) = r.obs
  BY <1>1, <1>2 DEF StoredObs
<1> QED BY <1>1, <1>3 DEF StoreOK, Reserved

(* While the loop is about to execute an action, only AuthorizeSideEffect  *)
(* makes it wait, and it does so for a patch of the file as it is.         *)
LEMMA WaitsForTheFile ==
  ASSUME Inv, [Next]_vars, pc = "execute", job.then = "advance",
         job.action.kind = "apply_patch", Waits(job'.obs)
  PROVE  disk[job.action.path] = job.action.from
<1> DEFINE a == job.action
           done == \E r \in Reserved(a) : r.obs # NoObs
           moved == a.kind = "apply_patch" /\ disk[a.path] # a.from
<1>1. ~Waits(job.obs)
  BY DEF Inv, GateInv
<1>2. job' # job
  BY <1>1
<1>3. ~Crash
  BY NoJobFields DEF Crash, Reset, NoJob, Waits
<1>4. AuthorizeSideEffect
  BY <1>2, <1>3 DEF Next, Progress, Execute, Loop, Continue, UserCall,
     StartLoop, MayCall, ResumeLoop, Answer, Approve, Reject, RestoreQuestion,
     Cancel, OutsideEdit, AuthorizeRead, Ask, Reserve, Start, Tool, Complete,
     Report, Executing, Reconcile, Recover, ResumePending, Resumed, EnterLoop,
     Decide, DecisionFails, LimitReached, Gate, AdvanceState, EndLoop,
     Answered, RejectedState, Written, Diffed, CloseWrite, Requested,
     Validated, Observed, vars
<1>5. \A obs : Observe(obs) => job'.obs = obs
  BY AtExecute DEF Observe, Executes, IsJob
<1>5a. ~Denied(a)
  BY DEF Denied
<1>6. CASE done
  <2>1. Observe(StoredObs(a))
    BY <1>4, <1>6, <1>5a DEF AuthorizeSideEffect
  <2>2. StoredObs(a).status \in ToolStatuses
    BY <1>6, AtExecute, StoredIsReported DEF Executes
  <2> QED BY <1>5, <2>1, <2>2 DEF Waits, ToolStatuses
<1>7. CASE ~done /\ moved
  <2>1. Observe(Plain("conflict"))
    BY <1>4, <1>7, <1>5a DEF AuthorizeSideEffect
  <2> QED BY <1>5, <2>1 DEF Waits, Plain, Obs
<1>8. CASE ~moved
  BY <1>8
<1> QED BY <1>6, <1>7, <1>8

(* A patch the loop sends to the user is the diff that was inspected, from *)
(* the content the file has (_managed_write_conflict, then                 *)
(* _preflight_patch).                                                      *)
THEOREM RequestsAreReviewed == Spec => RequestsShowTheReviewedDiff
<1> DEFINE shown == (/\ pc = "execute" /\ job.then = "advance"
      /\ job.action.kind = "apply_patch"
      /\ job'.obs # NoObs /\ job'.obs.status = "approval_required") =>
       /\ Inspected(job.state.edits[job.action.path])
       /\ job.state.edits[job.action.path].base = job.action.from
       /\ job.state.edits[job.action.path].current = job.action.to
       /\ disk[job.action.path] = job.action.from
<1>1. Inv /\ [Next]_vars => [shown]_vars
  <2> SUFFICES ASSUME Inv, [Next]_vars, pc = "execute", job.then = "advance",
                      job.action.kind = "apply_patch", Waits(job'.obs)
               PROVE  /\ Inspected(job.state.edits[job.action.path])
                      /\ job.state.edits[job.action.path].base =
                           job.action.from
                      /\ job.state.edits[job.action.path].current =
                           job.action.to
                      /\ disk[job.action.path] = job.action.from
    BY DEF Waits
  <2>1. disk[job.action.path] = job.action.from
    BY WaitsForTheFile
  <2> QED BY <2>1 DEF Inv, GateInv
<1> QED BY <1>1, InvHolds, PTL DEF Spec, RequestsShowTheReviewedDiff

-----------------------------------------------------------------------------
(* The invariant of action ids and of the working state.                   *)

StateFields == {"status", "stop", "iteration", "plan", "criteria", "edits",
                "inputs", "recent"}
IsState(s) == DOMAIN s = StateFields /\ s.iteration \in Nat

(* The actions of a log, and the number of a decided one: it has the id of *)
(* the loop's step.  The other actions are functions of their id.          *)
Recorded(l) == {l[i].action : i \in DOMAIN l} \ {NoAction}
Number(a) == a.id[2]
IsDecided(a) == a.id = <<"explore", Number(a)>> /\ Number(a) \in Nat
IsDiff(a) == a = Read(<<"explore", Number(a), "diff">>, "inspect_diff", 1)
IsCommand(a) == a = Validation(Number(a), a.id[3])
IsDerived(a) == IsDiff(a) \/ IsCommand(a)
IsKnown(l, a) == a \in Recorded(l) \union {NoAction} \/ IsDerived(a)

Observations == TerminalTypes \union WaitingTypes
Settling == {"approval_granted", "approval_rejected"}

(* The decided actions that the last snapshot does not count.              *)
Iteration(l) == LatestState(l).iteration
Ahead(l) == {a \in Recorded(l) : IsDecided(a) /\ Number(a) > Iteration(l)}
Quiet(l) == \A a \in Ahead(l) : ~Has(l, a.id, Observations)

ActionsOK(l) ==
  /\ \A a \in Recorded(l) : IsDecided(a) \/ IsDerived(a)
  /\ \A a, b \in Recorded(l) : a.id = b.id => a = b
SnapshotsOK(l) ==
  \A i \in DOMAIN l :
    l[i].type = "working_state_updated" => IsState(l[i].state)
(* At most the next number is ahead, and the snapshot hides no observation *)
(* of its action.                                                          *)
AheadOK(l) ==
  \A a \in Ahead(l) : /\ Number(a) = Iteration(l) + 1
                      /\ \A i \in Of(l, a.id, Observations) :
                           i > SnapshotAt(l)
(* A request names an action and precedes what settles it; an action is    *)
(* rejected or answered after it waited.                                   *)
RequestsOK(l) ==
  \A i \in DOMAIN l :
    /\ l[i].type \in WaitingTypes => l[i].action # NoAction
    /\ l[i].type = "approval_required" => l[i].action.kind \in SideEffects
    /\ l[i].type = "approval_required" =>
         \A j \in DOMAIN l :
           (l[j].type \in Settling /\ l[j].checkpoint = l[i].checkpoint) =>
             i < j
    /\ l[i].type \in {"approval_rejected", "input_received"} =>
         Has(l, l[i].action.id, WaitingTypes)

IdLog(l) == /\ ActionsOK(l) /\ SnapshotsOK(l) /\ AheadOK(l) /\ RequestsOK(l)

(* Where the working state of the call counts the last snapshot.           *)
HoldsState ==
  \/ InLoop \/ pc \in {"resume", "wait", "step", "end", "diffed", "close"}
  \/ pc \in Executes /\ job.then = "diffed"

IsSettled(l, c) ==
  \E j \in DOMAIN l : l[j].type \in Settling /\ l[j].checkpoint = c

IdInv ==
  /\ IdLog(log)
  /\ HoldsState => IsState(job.state) /\ job.state.iteration = Iteration(log)
  /\ pc # "end" => job.reason = "none"
  /\ pc \in {"step", "end", "close", "observed"} => Ahead(log) = {}
  /\ (\/ pc \in {"resume", "rejected", "wait"}
      \/ pc = "idle" /\ OfferedPending) => Quiet(log)
  /\ pc = "wait" => \/ Ahead(log) = {}
                    \/ NextStep(log) \notin {"execute_pending",
                                             "retry_read_only"}
  /\ pc = "resumed" /\ job.obs.status \notin StoppingStatuses =>
       \E i \in DOMAIN log : /\ i > SnapshotAt(log)
                             /\ log[i].type \in Observations
                             /\ log[i].action # NoAction
  /\ pc \in Executes \union {"gate"} => IsKnown(log, job.action)
  /\ (\/ pc = "written"
      \/ pc \in Executes /\ job.then = "written") => IsDecided(job.action)
  /\ run.question # NoAction => run.checkpoint = 0
  /\ pc # "idle" => run.checkpoint = 0 \/ IsSettled(log, run.checkpoint)

-----------------------------------------------------------------------------
(* The functions of the working state keep its fields; only Advance counts *)
(* an iteration.                                                           *)

LEMMA StatesKeepFields ==
  ASSUME NEW s, IsState(s)
  PROVE  /\ IsState(FromRecord(s)) /\ FromRecord(s).iteration = s.iteration
         /\ \A u : IsState(ApplyUpdate(s, u))
         /\ \A reason : IsState(Stop(s, reason))
                        /\ Stop(s, reason).iteration = s.iteration
         /\ \A id, answer : IsState(RecordAnswer(s, id, answer))
                            /\ RecordAnswer(s, id, answer).iteration =
                                 s.iteration
         /\ \A id, changed, commands :
              /\ IsState(PostWrite(s, id, changed, commands))
              /\ PostWrite(s, id, changed, commands).iteration = s.iteration
<1>1. IsState(FromRecord(s)) /\ FromRecord(s).iteration = s.iteration
  BY DEF FromRecord, IsState, StateFields
<1>2. ASSUME NEW u PROVE IsState(ApplyUpdate(s, u))
  BY DEF ApplyUpdate, IsState, StateFields
<1>3. ASSUME NEW reason
      PROVE  IsState(Stop(s, reason))
             /\ Stop(s, reason).iteration = s.iteration
  BY DEF Stop, IsState, StateFields
<1>4. ASSUME NEW id, NEW answer
      PROVE  IsState(RecordAnswer(s, id, answer))
             /\ RecordAnswer(s, id, answer).iteration = s.iteration
  BY DEF RecordAnswer, IsState, StateFields
<1>5. ASSUME NEW id, NEW changed, NEW commands
      PROVE  /\ IsState(PostWrite(s, id, changed, commands))
             /\ PostWrite(s, id, changed, commands).iteration = s.iteration
  BY DEF PostWrite, IsState, StateFields
<1> QED BY <1>1, <1>2, <1>3, <1>4, <1>5

LEMMA AdvanceCounts ==
  ASSUME NEW s, IsState(s), NEW a, NEW obs, NEW u
  PROVE  /\ IsState(Advance(s, a, obs, u))
         /\ Advance(s, a, obs, u).iteration = s.iteration + 1
<1> DEFINE t == ApplyUpdate(s, u)
           n == s.iteration + 1
<1>1. IsState(t) /\ n \in Nat
  BY StatesKeepFields DEF IsState
<1>2. PICK status, stop, criteria, edits, recent :
        Advance(s, a, obs, u) =
          [t EXCEPT !.status = status, !.stop = stop, !.iteration = n,
                    !.criteria = criteria, !.edits = edits,
                    !.recent = recent]
  BY DEF Advance
<1> HIDE DEF t, n
<1>3. IsState([t EXCEPT !.status = status, !.stop = stop, !.iteration = n,
                        !.criteria = criteria, !.edits = edits,
                        !.recent = recent])
      /\ [t EXCEPT !.status = status, !.stop = stop, !.iteration = n,
                   !.criteria = criteria, !.edits = edits,
                   !.recent = recent].iteration = n
  BY <1>1 DEF IsState, StateFields
<1> QED BY <1>2, <1>3 DEF n

LEMMA CreatedIsState == IsState(CreateState) /\ CreateState.iteration = 0
BY DEF CreateState, IsState, StateFields

-----------------------------------------------------------------------------
(* The last snapshot, and the state that is rebuilt from it.               *)

LEMMA LatestIsState ==
  ASSUME NEW l, LogsEvents(l), SnapshotsOK(l)
  PROVE  /\ SnapshotAt(l) \in 0..Len(l)
         /\ IsState(LatestState(l)) /\ Iteration(l) \in Nat
<1> DEFINE at == {i \in DOMAIN l : l[i].type = "working_state_updated"}
<1>1. Len(l) \in Nat /\ DOMAIN l = 1..Len(l)
  BY LogIsCharged
<1>2. CASE at = {}
  <2>1. SnapshotAt(l) = 0
    BY <1>2 DEF SnapshotAt
  <2> QED BY <1>1, <2>1, CreatedIsState DEF LatestState, Iteration, IsState
<1>3. CASE at # {}
  <2>1. at \subseteq 1..Len(l)
    BY <1>1
  <2>2. SnapshotAt(l) = Newest(at)
    BY <1>3 DEF SnapshotAt
  <2> HIDE DEF at
  <2>3. SnapshotAt(l) \in at
    BY <1>1, <1>3, <2>1, <2>2, NewestIsLast
  <2>4. SnapshotAt(l) \in 1..Len(l)
        /\ IsState(l[SnapshotAt(l)].state)
    BY <1>1, <2>3 DEF at, SnapshotsOK
  <2>5. LatestState(l) = FromRecord(l[SnapshotAt(l)].state)
    BY <1>1, <2>4 DEF LatestState
  <2>6. IsState(LatestState(l))
    BY <2>4, <2>5, StatesKeepFields
  <2> QED BY <1>1, <2>4, <2>6 DEF Iteration, IsState
<1> QED BY <1>2, <1>3

(* f rebuilds the state: it folds the unseen events in their order.        *)
Rebuilds(f, l) ==
  /\ f[SnapshotAt(l)] = LatestState(l)
  /\ \A n \in SnapshotAt(l) + 1 .. Len(l) :
       f[n] = IF n \in Unseen(l) THEN Fold(l, f[n - 1], n) ELSE f[n - 1]

LEMMA RebuildExists ==
  ASSUME NEW l, LogsEvents(l), SnapshotsOK(l)
  PROVE  \E f : /\ f = [n \in SnapshotAt(l) .. Len(l) |-> f[n]]
                /\ Rebuilds(f, l)
<1> DEFINE from == SnapshotAt(l)
           P(f, k) ==
             /\ f = [n \in from .. from + k |-> f[n]]
             /\ f[from] = LatestState(l)
             /\ \A n \in from + 1 .. from + k :
                  f[n] = IF n \in Unseen(l) THEN Fold(l, f[n - 1], n)
                         ELSE f[n - 1]
           S == {k \in Nat : \E f : P(f, k)}
<1>1. Len(l) \in Nat /\ from \in 0..Len(l)
  BY LogIsCharged, LatestIsState
<1> HIDE DEF from
<1>2. 0 \in S
  <2> DEFINE f == [n \in from .. from + 0 |-> LatestState(l)]
  <2>1. P(f, 0)
    BY <1>1
  <2> HIDE DEF P, f
  <2> QED BY <2>1
<1>3. ASSUME NEW k \in Nat, k \in S PROVE k + 1 \in S
  <2>1. PICK f : P(f, k)
    BY <1>3
  <2> DEFINE p == from + k + 1
             x == IF p \in Unseen(l) THEN Fold(l, f[from + k], p)
                  ELSE f[from + k]
             g == [n \in from .. p |-> IF n = p THEN x ELSE f[n]]
  <2>2. p \in Nat /\ p - 1 = from + k /\ p = from + (k + 1) /\ from < p
        /\ from \in Nat
    BY <1>1
  <2> HIDE DEF p
  <2>3. g = [n \in from .. p |-> g[n]] /\ g[from] = LatestState(l)
    <3> HIDE DEF x
    <3> QED BY <2>1, <2>2
  <2>4. ASSUME NEW n \in from + 1 .. p
        PROVE  g[n] = IF n \in Unseen(l) THEN Fold(l, g[n - 1], n)
                      ELSE g[n - 1]
    <3>1. CASE n = p
      <4>1. g[p] = x
        <5> HIDE DEF x
        <5> QED BY <2>2
      <4>2. g[p - 1] = f[from + k]
        <5>1. p - 1 \in from .. p /\ p - 1 # p /\ p - 1 = from + k
          BY <1>1, <2>2
        <5> HIDE DEF x
        <5> QED BY <5>1
      <4> HIDE DEF g
      <4> QED BY <3>1, <4>1, <4>2
    <3>2. CASE n # p
      <4>1. n \in from + 1 .. from + k /\ n - 1 \in from .. p /\ n - 1 # p
            /\ n \in from .. p
        BY <1>1, <2>2, <3>2
      <4>2. g[n] = f[n] /\ g[n - 1] = f[n - 1]
        <5> HIDE DEF x
        <5> QED BY <3>2, <4>1
      <4> HIDE DEF g
      <4> QED BY <2>1, <4>1, <4>2
    <3> QED BY <3>1, <3>2
  <2> HIDE DEF g
  <2>5. P(g, k + 1)
    BY <2>2, <2>3, <2>4
  <2> HIDE DEF P
  <2> QED BY <2>5
<1> HIDE DEF S
<1> DEFINE d == Len(l) - from
<1>4. d \in Nat /\ from + d = Len(l)
  BY <1>1
<1> HIDE DEF d
<1>5. d \in S
  BY <1>2, <1>3, <1>4, SetInduction
<1>6. PICK f : P(f, d)
  BY <1>5 DEF S
<1> QED BY <1>4, <1>6 DEF Rebuilds, from

LEMMA RebuiltBySteps ==
  ASSUME NEW l, LogsEvents(l), SnapshotsOK(l)
  PROVE  \E f : Rebuilds(f, l) /\ Rebuilt(l) = f[Len(l)]
<1> DEFINE from == SnapshotAt(l)
           F(f) == [n \in from .. Len(l) |->
                      IF n = from THEN LatestState(l)
                      ELSE IF n \in Unseen(l) THEN Fold(l, f[n - 1], n)
                           ELSE f[n - 1]]
           folded == CHOOSE f : f = F(f)
<1>1. Len(l) \in Nat /\ from \in 0..Len(l)
  BY LogIsCharged, LatestIsState
<1>2. PICK f : f = [n \in from .. Len(l) |-> f[n]] /\ Rebuilds(f, l)
  BY RebuildExists
<1>3. f = F(f)
  <2>1. ASSUME NEW n \in from .. Len(l)
        PROVE  f[n] = IF n = from THEN LatestState(l)
                      ELSE IF n \in Unseen(l) THEN Fold(l, f[n - 1], n)
                           ELSE f[n - 1]
    <3>1. n = from \/ n \in from + 1 .. Len(l)
      BY <1>1
    <3> QED BY <1>1, <1>2, <3>1 DEF Rebuilds
  <2> HIDE DEF from
  <2> QED BY <1>2, <2>1 DEF from
<1>4. folded = F(folded)
  <2> HIDE DEF F
  <2> QED BY <1>3
<1>5. Rebuilt(l) = folded[Len(l)]
  BY DEF Rebuilt
<1> HIDE DEF folded
<1>6. \A n \in from .. Len(l) :
        folded[n] = IF n = from THEN LatestState(l)
                    ELSE IF n \in Unseen(l) THEN Fold(l, folded[n - 1], n)
                         ELSE folded[n - 1]
  BY <1>4
<1>7. Rebuilds(folded, l)
  <2>1. folded[from] = LatestState(l)
    BY <1>1, <1>6
  <2>2. ASSUME NEW n \in from + 1 .. Len(l)
        PROVE  folded[n] = IF n \in Unseen(l) THEN Fold(l, folded[n - 1], n)
                           ELSE folded[n - 1]
    <3>1. n \in from .. Len(l) /\ n # from
      BY <1>1
    <3> QED BY <1>6, <3>1
  <2> QED BY <2>1, <2>2 DEF Rebuilds
<1> QED BY <1>5, <1>7

LEMMA FoldCounts ==
  ASSUME NEW l, NEW s, IsState(s), NEW i
  PROVE  /\ IsState(Fold(l, s, i))
         /\ Fold(l, s, i).iteration \in {s.iteration, s.iteration + 1}
         /\ l[i].type # "input_received" =>
              Fold(l, s, i).iteration = s.iteration + 1
<1>1. CASE l[i].type = "input_received"
  BY <1>1, StatesKeepFields DEF Fold
<1>2. CASE l[i].type # "input_received"
  BY <1>2, AdvanceCounts DEF Fold
<1> QED BY <1>1, <1>2

(* The rebuilt state counts at least the iterations of the snapshot, and   *)
(* one more if an observation is unseen.                                   *)
LEMMA RebuiltCounts ==
  ASSUME NEW l, LogsEvents(l), SnapshotsOK(l)
  PROVE  /\ IsState(Rebuilt(l))
         /\ Iteration(l) <= Rebuilt(l).iteration
         /\ (\E i \in Unseen(l) : l[i].type # "input_received") =>
              Iteration(l) < Rebuilt(l).iteration
         /\ Unseen(l) = {} => Rebuilt(l) = LatestState(l)
<1> DEFINE from == SnapshotAt(l)
           seen(n) == \E i \in Unseen(l) :
                        i <= n /\ l[i].type # "input_received"
<1>1. /\ Len(l) \in Nat /\ from \in 0..Len(l)
      /\ IsState(LatestState(l)) /\ Iteration(l) \in Nat
  BY LogIsCharged, LatestIsState
<1>2. Unseen(l) \subseteq from + 1 .. Len(l)
  BY DEF Unseen
<1>3. PICK f : Rebuilds(f, l) /\ Rebuilt(l) = f[Len(l)]
  BY RebuiltBySteps
<1> DEFINE Q(n) == /\ IsState(f[n]) /\ Iteration(l) <= f[n].iteration
                   /\ seen(n) => Iteration(l) < f[n].iteration
                   /\ Unseen(l) = {} => f[n] = LatestState(l)
           S == {k \in Nat : from + k <= Len(l) => Q(from + k)}
<1>4. f[from] = LatestState(l)
      /\ \A n \in from + 1 .. Len(l) :
           f[n] = IF n \in Unseen(l) THEN Fold(l, f[n - 1], n) ELSE f[n - 1]
  BY <1>3 DEF Rebuilds
<1> HIDE DEF from
<1>5. 0 \in S
  <2>1. from + 0 = from /\ ~seen(from)
    BY <1>1, <1>2
  <2> QED BY <1>1, <1>4, <2>1 DEF Iteration
<1>6. ASSUME NEW k \in Nat, k \in S PROVE k + 1 \in S
  <2> DEFINE n == from + k
             p == from + (k + 1)
  <2>1. SUFFICES ASSUME p <= Len(l) PROVE Q(p)
    OBVIOUS
  <2>2. /\ n \in Nat /\ p \in Nat /\ p = n + 1 /\ p - 1 = n
        /\ n <= Len(l) /\ p \in from + 1 .. Len(l)
    BY <1>1, <2>1
  <2>3. Q(n)
    BY <1>6, <2>2
  <2>4. f[p] = IF p \in Unseen(l) THEN Fold(l, f[n], p) ELSE f[n]
    BY <1>4, <2>2
  <2>5. f[n].iteration \in Nat
    BY <2>3 DEF IsState
  <2>6. seen(p) => seen(n) \/ (p \in Unseen(l) /\ l[p].type # "input_received")
    BY <1>1, <1>2, <2>2
  <2> HIDE DEF n, p, seen
  <2>7. CASE p \in Unseen(l)
    <3> DEFINE s == f[n]
               t == Fold(l, s, p)
    <3>1. IsState(s) /\ f[p] = t
      BY <2>3, <2>4, <2>7
    <3> HIDE DEF s
    <3>2. /\ IsState(t) /\ t.iteration \in {s.iteration, s.iteration + 1}
          /\ l[p].type # "input_received" => t.iteration = s.iteration + 1
      BY <3>1, FoldCounts
    <3> HIDE DEF t
    <3>3. /\ s.iteration \in Nat /\ Iteration(l) <= s.iteration
          /\ seen(n) => Iteration(l) < s.iteration
      BY <2>3, <2>5 DEF s
    <3> QED BY <1>1, <2>6, <2>7, <3>1, <3>2, <3>3
  <2>8. CASE p \notin Unseen(l)
    BY <2>3, <2>4, <2>6, <2>8
  <2> QED BY <2>7, <2>8
<1> HIDE DEF S
<1> DEFINE d == Len(l) - from
<1>7. d \in Nat /\ from + d = Len(l)
  BY <1>1
<1> HIDE DEF d
<1>8. d \in S
  BY <1>5, <1>6, <1>7, SetInduction
<1>9. Q(Len(l))
  BY <1>7, <1>8 DEF S
<1>10. (\E i \in Unseen(l) : l[i].type # "input_received") => seen(Len(l))
  BY <1>1, <1>2
<1> HIDE DEF seen
<1> QED BY <1>3, <1>9, <1>10

-----------------------------------------------------------------------------
(* How an event changes what is read from the log.                         *)

LEMMA OfGrows ==
  ASSUME NEW l, LogsEvents(l), NEW e
  PROVE  /\ \A id, types :
              Of(Append(l, e), id, types) =
                Of(l, id, types) \union
                  (IF e.action # NoAction /\ e.action.id = id
                      /\ e.type \in types THEN {Len(l) + 1} ELSE {})
         /\ Recorded(Append(l, e)) = Recorded(l) \union ({e.action} \ {NoAction})
         /\ \A id, types : Of(l, id, types) \subseteq 1..Len(l)
<1> DEFINE m == Append(l, e)
           n == Len(l)
<1>1. /\ n \in Nat /\ DOMAIN l = 1..n /\ DOMAIN m = 1..(n + 1)
      /\ \A i \in 1..n : m[i] = l[i]
      /\ m[n + 1] = e
  BY AppendGrows DEF LogsEvents
<1> HIDE DEF m, n
<1>2. ASSUME NEW id, NEW types
      PROVE  /\ Of(m, id, types) = Of(l, id, types) \union
                  (IF e.action # NoAction /\ e.action.id = id
                      /\ e.type \in types THEN {n + 1} ELSE {})
             /\ Of(l, id, types) \subseteq 1..n
  BY <1>1 DEF Of
<1>3. Recorded(m) = Recorded(l) \union ({e.action} \ {NoAction})
  <2>1. 1..(n + 1) = 1..n \union {n + 1} /\ n + 1 \notin 1..n
    BY <1>1
  <2> QED BY <1>1, <2>1 DEF Recorded
<1> QED BY <1>2, <1>3 DEF m, n

LEMMA SnapshotKept ==
  ASSUME NEW l, LogsEvents(l), SnapshotsOK(l),
         NEW e, e.type # "working_state_updated"
  PROVE  /\ SnapshotAt(Append(l, e)) = SnapshotAt(l)
         /\ LatestState(Append(l, e)) = LatestState(l)
         /\ Iteration(Append(l, e)) = Iteration(l)
         /\ SnapshotsOK(Append(l, e))
<1> DEFINE m == Append(l, e)
           n == Len(l)
<1>1. /\ n \in Nat /\ DOMAIN l = 1..n /\ DOMAIN m = 1..(n + 1)
      /\ \A i \in 1..n : m[i] = l[i]
      /\ m[n + 1] = e
  BY AppendGrows DEF LogsEvents
<1>2. SnapshotAt(l) \in 0..n
  BY LatestIsState
<1> HIDE DEF m, n
<1>3. {i \in DOMAIN m : m[i].type = "working_state_updated"} =
        {i \in DOMAIN l : l[i].type = "working_state_updated"}
  BY <1>1
<1>4. SnapshotAt(m) = SnapshotAt(l)
  BY <1>3 DEF SnapshotAt
<1>5. LatestState(m) = LatestState(l)
  BY <1>1, <1>2, <1>4 DEF LatestState
<1>6. SnapshotsOK(m)
  BY <1>1 DEF SnapshotsOK
<1> QED BY <1>4, <1>5, <1>6 DEF m, Iteration

LEMMA SnapshotTaken ==
  ASSUME NEW l, LogsEvents(l), SnapshotsOK(l), NEW s, IsState(s)
  PROVE  LET m == Append(l, Snapshot(s))
         IN  /\ SnapshotAt(m) = Len(l) + 1 /\ SnapshotsOK(m)
             /\ Iteration(m) = s.iteration /\ IsState(LatestState(m))
             /\ Recorded(m) = Recorded(l)
             /\ \A id, types : Of(m, id, types) = Of(l, id, types)
<1> DEFINE e == Snapshot(s)
           m == Append(l, e)
           n == Len(l)
           at == {i \in DOMAIN m : m[i].type = "working_state_updated"}
<1>1. e.type = "working_state_updated" /\ e.state = s /\ e.action = NoAction
  BY EventFields
<1> HIDE DEF e
<1>2. /\ n \in Nat /\ DOMAIN l = 1..n /\ DOMAIN m = 1..(n + 1)
      /\ \A i \in 1..n : m[i] = l[i]
      /\ m[n + 1] = e
  BY AppendGrows DEF LogsEvents
<1>3. /\ Recorded(m) = Recorded(l)
      /\ \A id, types : Of(m, id, types) = Of(l, id, types)
  <2>1. Recorded(m) = Recorded(l)
    <3>1. Recorded(m) = Recorded(l) \union ({e.action} \ {NoAction})
      BY OfGrows
    <3>2. {e.action} \ {NoAction} = {}
      BY <1>1
    <3> HIDE DEF m
    <3> QED BY <3>1, <3>2
  <2>2. ASSUME NEW id, NEW types PROVE Of(m, id, types) = Of(l, id, types)
    <3>1. Of(m, id, types) = Of(l, id, types) \union
                  (IF e.action # NoAction /\ e.action.id = id
                      /\ e.type \in types THEN {n + 1} ELSE {})
      BY OfGrows
    <3> QED BY <1>1, <3>1
  <2> QED BY <2>1, <2>2
<1> HIDE DEF m, n
<1>4. n + 1 \in at /\ at \subseteq 1..(n + 1) /\ n + 1 \in Nat
  BY <1>1, <1>2
<1>5. SnapshotAt(m) = Newest(at)
  BY <1>4 DEF SnapshotAt
<1>6. Newest(at) = n + 1
  <2> DEFINE p == n + 1
  <2>1. p \in at /\ at \subseteq 1..p /\ p \in Nat
    BY <1>4
  <2> HIDE DEF p, at
  <2>2. Newest(at) \in at /\ \A j \in at : j <= Newest(at)
    BY <2>1, NewestIsLast
  <2> DEFINE q == Newest(at)
  <2>3. q \in 1..p /\ p <= q
    BY <2>1, <2>2
  <2> HIDE DEF q
  <2>4. q = p
    BY <2>1, <2>3
  <2> QED BY <2>4 DEF p, q
<1>7. LatestState(m) = FromRecord(s)
  BY <1>1, <1>2, <1>5, <1>6 DEF LatestState
<1>8. SnapshotsOK(m)
  BY <1>1, <1>2 DEF SnapshotsOK
<1>9. IsState(LatestState(m)) /\ Iteration(m) = s.iteration
  BY <1>7, StatesKeepFields DEF Iteration
<1> QED BY <1>3, <1>5, <1>6, <1>8, <1>9 DEF m, n, e

(* A diff and a command have their ids for themselves.                     *)
LEMMA DerivedById ==
  ASSUME NEW a, NEW b, IsDerived(a), IsDecided(b) \/ IsDerived(b),
         a.id = b.id
  PROVE  a = b
<1>1. IsDiff(a) => a.id = <<"explore", Number(a), "diff">>
  BY DEF IsDiff, Read, Action
<1>2. IsCommand(a) => a.id = <<"validate", Number(a), a.id[3]>>
  BY DEF IsCommand, Validation, Action
<1>3. IsDiff(b) => b.id = <<"explore", Number(b), "diff">>
  BY DEF IsDiff, Read, Action
<1>4. IsCommand(b) => b.id = <<"validate", Number(b), b.id[3]>>
  BY DEF IsCommand, Validation, Action
<1>5. Number(a) = Number(b)
  BY DEF Number
<1>6. CASE IsDiff(a)
  <2>1. ~IsDecided(b)
    BY <1>1, <1>6 DEF IsDecided
  <2>2. ~IsCommand(b)
    BY <1>1, <1>4, <1>6
  <2> QED BY <1>5, <1>6, <2>1, <2>2 DEF IsDiff, IsDerived
<1>7. CASE IsCommand(a)
  <2>1. ~IsDecided(b)
    BY <1>2, <1>7 DEF IsDecided
  <2>2. ~IsDiff(b)
    BY <1>2, <1>3, <1>7
  <2> QED BY <1>5, <1>7, <2>1, <2>2 DEF IsCommand, IsDerived
<1> QED BY <1>6, <1>7 DEF IsDerived

-----------------------------------------------------------------------------
(* How the invariant of the log follows an event.                          *)

(* An event may be logged about an action that the log knows, about a diff *)
(* or a command, or about the decision that follows.                       *)
MayDecide(l, e) ==
  /\ Ahead(l) = {} /\ e.type \notin Observations
  /\ IsDecided(e.action) /\ Number(e.action) = Iteration(l) + 1
MayLog(l, e) ==
  /\ e.type # "working_state_updated"
  /\ IsKnown(l, e.action) \/ MayDecide(l, e)
  /\ e.type \in WaitingTypes => e.action # NoAction
  /\ e.type = "approval_required" =>
       /\ e.action.kind \in SideEffects
       /\ \A j \in DOMAIN l : l[j].type \in Settling =>
            l[j].checkpoint # e.checkpoint
  /\ e.type \in {"approval_rejected", "input_received"} =>
       Has(l, e.action.id, WaitingTypes)

LEMMA ActionsGrow ==
  ASSUME NEW l, LogsEvents(l), IdLog(l), NEW e, MayLog(l, e)
  PROVE  ActionsOK(Append(l, e))
<1> DEFINE m == Append(l, e)
           a == e.action
<1> SUFFICES ActionsOK(m)
  OBVIOUS
<1>1. Recorded(m) \subseteq Recorded(l) \union ({a} \ {NoAction})
  BY OfGrows
<1>2. ActionsOK(l) /\ Iteration(l) \in Nat
  BY LatestIsState DEF IdLog
<1> HIDE DEF m
<1>3. CASE a \in Recorded(l) \union {NoAction}
  BY <1>1, <1>2, <1>3 DEF ActionsOK
<1>4. CASE IsDerived(a)
  <2>1. \A b \in Recorded(l) : b.id = a.id => a = b
    BY <1>2, <1>4, DerivedById DEF ActionsOK
  <2> HIDE DEF a
  <2> QED BY <1>1, <1>2, <1>4, <2>1 DEF ActionsOK
<1>5. CASE MayDecide(l, e)
  <2>1. IsDecided(a) /\ Number(a) = Iteration(l) + 1 /\ Ahead(l) = {}
    BY <1>5 DEF MayDecide
  <2>2. ASSUME NEW b \in Recorded(l), b.id = a.id PROVE a = b
    <3>1. CASE IsDerived(b)
      BY <2>1, <2>2, <3>1, DerivedById
    <3>2. CASE IsDecided(b)
      <4>1. Number(b) = Iteration(l) + 1
        BY <2>1, <2>2 DEF Number
      <4>2. b \in Ahead(l)
        BY <1>2, <3>2, <4>1 DEF Ahead
      <4> QED BY <2>1, <4>2
    <3> QED BY <1>2, <3>1, <3>2 DEF ActionsOK
  <2> HIDE DEF a
  <2> QED BY <1>1, <1>2, <2>1, <2>2 DEF ActionsOK
<1> QED BY <1>3, <1>4, <1>5 DEF MayLog, IsKnown

LEMMA AheadGrows ==
  ASSUME NEW l, LogsEvents(l), IdLog(l), NEW e, MayLog(l, e)
  PROVE  /\ AheadOK(Append(l, e))
         /\ IsKnown(l, e.action) => Ahead(Append(l, e)) = Ahead(l)
<1> DEFINE m == Append(l, e)
           a == e.action
           n == Len(l)
<1>1. /\ Recorded(m) = Recorded(l) \union ({a} \ {NoAction})
      /\ \A id : Of(m, id, Observations) = Of(l, id, Observations) \union
           (IF a # NoAction /\ a.id = id /\ e.type \in Observations
            THEN {n + 1} ELSE {})
  BY OfGrows
<1>2. /\ SnapshotAt(m) = SnapshotAt(l) /\ Iteration(m) = Iteration(l)
      /\ SnapshotAt(l) < n + 1 /\ Iteration(l) \in Nat
  BY SnapshotKept, LatestIsState, LogIsCharged DEF MayLog, IdLog
<1>3. AheadOK(l)
  BY DEF IdLog
<1> HIDE DEF m, n, a
<1>4. ~(IsDerived(a) /\ IsDecided(a))
  <2>1. IsDiff(a) => a.id = <<"explore", Number(a), "diff">>
    BY DEF IsDiff, Read, Action
  <2>2. IsCommand(a) => a.id = <<"validate", Number(a), a.id[3]>>
    BY DEF IsCommand, Validation, Action
  <2>3. IsDecided(a) => a.id = <<"explore", Number(a)>>
    BY DEF IsDecided
  <2> QED BY <2>1, <2>2, <2>3 DEF IsDerived
<1>5. CASE IsKnown(l, a)
  <2>1. Ahead(m) = Ahead(l)
    BY <1>1, <1>2, <1>4, <1>5 DEF Ahead, IsKnown
  <2>2. ASSUME NEW b \in Ahead(l), NEW i \in Of(m, b.id, Observations)
        PROVE  i > SnapshotAt(l)
    <3>1. i \in Of(l, b.id, Observations) \/ i = n + 1
      BY <1>1
    <3> QED BY <1>2, <1>3, <3>1 DEF AheadOK
  <2> QED BY <1>2, <1>3, <2>1, <2>2 DEF AheadOK, m
<1>6. CASE MayDecide(l, e) /\ ~IsKnown(l, a)
  <2>1. /\ Ahead(l) = {} /\ e.type \notin Observations
        /\ IsDecided(a) /\ Number(a) = Iteration(l) + 1
    BY <1>6 DEF MayDecide, a
  <2>2. Ahead(m) \subseteq {a}
    BY <1>1, <1>2, <2>1 DEF Ahead
  <2>3. Of(m, a.id, Observations) = Of(l, a.id, Observations)
    BY <1>1, <2>1
  <2>4. ASSUME NEW i \in Of(l, a.id, Observations) PROVE FALSE
    <3>1. l[i].action \in Recorded(l) /\ l[i].action.id = a.id
      BY <2>4 DEF Of, Recorded
    <3>2. IsDecided(l[i].action) /\ Number(l[i].action) = Number(a)
      BY <2>1, <3>1 DEF IsDecided, Number
    <3> QED BY <1>2, <2>1, <3>1, <3>2 DEF Ahead
  <2>5. Number(a) = Iteration(m) + 1 /\ Of(m, a.id, Observations) = {}
    BY <1>2, <2>1, <2>3, <2>4
  <2>6. AheadOK(m)
    BY <2>2, <2>5 DEF AheadOK
  <2> QED BY <1>6, <2>6 DEF m, a
<1> QED BY <1>5, <1>6 DEF MayLog, m, a

LEMMA RequestsGrow ==
  ASSUME NEW l, LogsEvents(l), IdLog(l), NEW e, MayLog(l, e)
  PROVE  RequestsOK(Append(l, e))
<1> DEFINE m == Append(l, e)
           n == Len(l)
<1>1. /\ n \in Nat /\ DOMAIN l = 1..n /\ DOMAIN m = 1..(n + 1)
      /\ \A i \in 1..n : m[i] = l[i]
      /\ m[n + 1] = e
  BY AppendGrows DEF LogsEvents
<1>2. \A id : Has(l, id, WaitingTypes) => Has(m, id, WaitingTypes)
  BY OfGrows DEF Has
<1>3. RequestsOK(l)
  BY DEF IdLog
<1> HIDE DEF m, n
<1>4. ASSUME NEW i \in DOMAIN m
      PROVE  /\ m[i].type \in WaitingTypes => m[i].action # NoAction
             /\ m[i].type = "approval_required" =>
                  m[i].action.kind \in SideEffects
             /\ m[i].type \in {"approval_rejected", "input_received"} =>
                  Has(m, m[i].action.id, WaitingTypes)
  <2>1. CASE i \in 1..n
    BY <1>1, <1>2, <1>3, <2>1 DEF RequestsOK
  <2>2. CASE i = n + 1
    BY <1>1, <1>2, <2>2 DEF MayLog
  <2> QED BY <1>1, <2>1, <2>2
<1>5. ASSUME NEW i \in DOMAIN m, m[i].type = "approval_required",
             NEW j \in DOMAIN m, m[j].type \in Settling,
             m[j].checkpoint = m[i].checkpoint
      PROVE  i < j
  <2>1. CASE i \in 1..n /\ j \in 1..n
    BY <1>1, <1>3, <1>5, <2>1 DEF RequestsOK
  <2>2. CASE i \in 1..n /\ j = n + 1
    BY <1>1, <2>2
  <2>3. CASE i = n + 1
    <3>1. e.type = "approval_required" /\ m[i] = e
      BY <1>1, <1>5, <2>3
    <3>2. j # i
      BY <1>5 DEF Settling
    <3>3. j \in 1..n /\ m[j] = l[j]
      BY <1>1, <2>3, <3>2
    <3> QED BY <1>1, <1>5, <3>1, <3>3 DEF MayLog
  <2> QED BY <1>1, <2>1, <2>2, <2>3
<1> QED BY <1>4, <1>5 DEF RequestsOK, m

(* A logged event keeps the invariant of the log, and what is quiet unless *)
(* it is an observation or a decision.                                     *)
LEMMA IdLogGrows ==
  ASSUME NEW l, LogsEvents(l), IdLog(l), NEW e, MayLog(l, e)
  PROVE  LET m == Append(l, e)
         IN  /\ IdLog(m)
             /\ SnapshotAt(m) = SnapshotAt(l) /\ Iteration(m) = Iteration(l)
             /\ Recorded(l) \subseteq Recorded(m)
             /\ IsKnown(l, e.action) => Ahead(m) = Ahead(l)
             /\ (Quiet(l) /\ e.type \notin Observations
                   /\ IsKnown(l, e.action)) => Quiet(m)
<1> DEFINE m == Append(l, e)
<1>1. SnapshotAt(m) = SnapshotAt(l) /\ Iteration(m) = Iteration(l)
      /\ SnapshotsOK(m)
  BY SnapshotKept DEF IdLog, MayLog
<1>2. IdLog(m)
  BY <1>1, ActionsGrow, AheadGrows, RequestsGrow DEF IdLog
<1>3. IsKnown(l, e.action) => Ahead(m) = Ahead(l)
  BY AheadGrows
<1>4. ASSUME e.type \notin Observations, NEW id
      PROVE  Of(m, id, Observations) = Of(l, id, Observations)
  <2>1. Of(m, id, Observations) = Of(l, id, Observations) \union
           (IF e.action # NoAction /\ e.action.id = id
               /\ e.type \in Observations THEN {Len(l) + 1} ELSE {})
    BY OfGrows
  <2> QED BY <1>4, <2>1
<1>5. Recorded(l) \subseteq Recorded(m)
  BY OfGrows
<1> HIDE DEF m
<1>6. (Quiet(l) /\ e.type \notin Observations /\ IsKnown(l, e.action)) => Quiet(m)
  BY <1>3, <1>4 DEF Quiet, Has
<1> QED BY <1>1, <1>2, <1>3, <1>5, <1>6 DEF m

(* A recorded state counts what the log has, or leaves it quiet.           *)
LEMMA IdLogRecords ==
  ASSUME NEW l, LogsEvents(l), IdLog(l), NEW s, IsState(s),
         \/ s.iteration = Iteration(l) /\ Quiet(l)
         \/ s.iteration > Iteration(l)
  PROVE  LET m == Append(l, Snapshot(s))
         IN  /\ IdLog(m) /\ Quiet(m) /\ Iteration(m) = s.iteration
             /\ Recorded(m) = Recorded(l)
             /\ Ahead(m) \subseteq Ahead(l)
             /\ s.iteration > Iteration(l) => Ahead(m) = {}
<1> DEFINE e == Snapshot(s)
           m == Append(l, e)
           n == Len(l)
<1>1. /\ SnapshotAt(m) = n + 1 /\ SnapshotsOK(m)
      /\ Iteration(m) = s.iteration
      /\ Recorded(m) = Recorded(l)
      /\ \A id, types : Of(m, id, types) = Of(l, id, types)
  BY SnapshotTaken DEF IdLog
<1>2. /\ n \in Nat /\ DOMAIN l = 1..n /\ DOMAIN m = 1..(n + 1)
      /\ \A i \in 1..n : m[i] = l[i]
      /\ m[n + 1] = e
      /\ e.type = "working_state_updated"
  BY AppendGrows, EventFields DEF LogsEvents
<1>3. Iteration(l) \in Nat /\ s.iteration \in Nat
  BY LatestIsState DEF IdLog, IsState
<1>4. ActionsOK(l) /\ AheadOK(l) /\ RequestsOK(l)
  BY DEF IdLog
<1> HIDE DEF e, m, n
<1>5. Ahead(m) \subseteq Ahead(l)
  BY <1>1, <1>3 DEF Ahead, IsDecided
<1>6. s.iteration > Iteration(l) => Ahead(m) = {}
  <2>1. SUFFICES ASSUME s.iteration > Iteration(l), NEW a \in Ahead(m)
                 PROVE  FALSE
    OBVIOUS
  <2>2. Number(a) = Iteration(l) + 1 /\ Number(a) > s.iteration
    BY <1>1, <1>4, <1>5, <2>1 DEF AheadOK, Ahead
  <2> QED BY <1>3, <2>1, <2>2
<1>7. Quiet(m)
  BY <1>1, <1>5, <1>6 DEF Quiet, Has
<1>8. AheadOK(m)
  <2>1. CASE s.iteration > Iteration(l)
    BY <1>6, <2>1 DEF AheadOK
  <2>2. CASE s.iteration = Iteration(l)
    BY <1>1, <1>4, <1>5, <1>7, <2>2 DEF AheadOK, Quiet, Has
  <2> QED BY <2>1, <2>2
<1>9. ActionsOK(m)
  BY <1>1, <1>4 DEF ActionsOK
<1>10. RequestsOK(m)
  <2>1. \A id : Has(m, id, WaitingTypes) <=> Has(l, id, WaitingTypes)
    BY <1>1 DEF Has
  <2>2. e.type \notin WaitingTypes \union Settling \union
          {"approval_required", "approval_rejected", "input_received"}
    BY <1>2 DEF WaitingTypes, Settling
  <2>3. \A i \in DOMAIN m : i \in 1..n \/ m[i] = e
    BY <1>2
  <2> QED BY <1>2, <1>4, <2>1, <2>2, <2>3 DEF RequestsOK
<1> QED BY <1>1, <1>5, <1>6, <1>7, <1>8, <1>9, <1>10 DEF IdLog, m, e

-----------------------------------------------------------------------------
(* How a step keeps the invariant of ids.                                  *)

LEMMA SettledStays ==
  ASSUME NEW l, LogsEvents(l), NEW e, NEW c, IsSettled(l, c)
  PROVE  IsSettled(Append(l, e), c)
<1>1. /\ DOMAIN l = 1..Len(l) /\ DOMAIN Append(l, e) = 1..(Len(l) + 1)
      /\ \A i \in 1..Len(l) : Append(l, e)[i] = l[i]
      /\ Len(l) \in Nat
  BY AppendGrows DEF LogsEvents
<1> HIDE DEF LogsEvents
<1> QED BY <1>1 DEF IsSettled

(* What was settled is not pending again.                                  *)
LEMMA SettledIsNotPending ==
  ASSUME NEW l, LogsEvents(l), RequestsOK(l), NEW c, c # 0, IsSettled(l, c)
  PROVE  PendingApproval(l) # c
<1> DEFINE asked == Events({"approval_required"}, l)
           n == Newest(asked)
<1>1. SUFFICES ASSUME PendingApproval(l) = c PROVE FALSE
  OBVIOUS
<1>2. Len(l) \in Nat /\ DOMAIN l = 1..Len(l)
  BY LogIsCharged
<1>3. asked # {} /\ asked \subseteq 1..Len(l)
  BY <1>1, <1>2 DEF PendingApproval, Events
<1>4. n \in asked
  <2> HIDE DEF asked
  <2> QED BY <1>2, <1>3, NewestIsLast
<1>5. l[n].checkpoint = c
      /\ ~ \E i \in Events({"approval_granted", "approval_rejected"}, l) :
             i > n /\ l[i].checkpoint = c
  <2> HIDE DEF asked
  <2> QED BY <1>1, <1>3 DEF PendingApproval, asked
<1>6. PICK j \in DOMAIN l : l[j].type \in Settling /\ l[j].checkpoint = c
  BY DEF IsSettled
<1>7. n \in DOMAIN l /\ l[n].type = "approval_required"
  BY <1>4 DEF Events
<1> HIDE DEF n
<1>8. n < j
  BY <1>5, <1>6, <1>7 DEF RequestsOK
<1>9. j \in Events({"approval_granted", "approval_rejected"}, l) /\ j > n
  BY <1>2, <1>6, <1>7, <1>8 DEF Events, Settling
<1> QED BY <1>5, <1>6, <1>9

LEMMA NotOffered ==
  ASSUME Inv, IdInv, pc # "idle"
  PROVE  ~OfferedPending
<1>1. LogsEvents(log) /\ RequestsOK(log)
  BY AtAnyPoint DEF IdInv, IdLog
<1>2. run.checkpoint = 0 \/ IsSettled(log, run.checkpoint)
  BY DEF IdInv
<1> QED BY <1>1, <1>2, SettledIsNotPending DEF OfferedPending

LEMMA ResetIds ==
  ASSUME IdLog(log'), Reset,
         run'.question # NoAction => run'.checkpoint = 0,
         OfferedPending' => Quiet(log')
  PROVE  IdInv'
<1>1. pc' = "idle" /\ job'.reason = "none"
  BY NoJobFields DEF Reset, NoJob
<1>2. ~HoldsState'
  BY <1>1 DEF HoldsState, InLoop, Executes
<1> QED BY <1>1, <1>2 DEF IdInv, Executes

LEMMA ReturnIds ==
  ASSUME IdLog(log'), Return(log'), Quiet(log')
  PROVE  IdInv'
<1>1. run'.question # NoAction => run'.checkpoint = 0
  BY DEF Return, Offer
<1> QED BY <1>1, ResetIds DEF Return

LEMMA FailIds ==
  ASSUME IdLog(log'), Fail
  PROVE  IdInv'
<1>1. run'.checkpoint = 0
  BY DEF Fail
<1>2. ~OfferedPending'
  BY <1>1 DEF OfferedPending
<1> QED BY <1>1, <1>2, ResetIds DEF Fail

LEMMA QuitIds ==
  ASSUME Inv, IdInv, pc # "idle", Reset, UNCHANGED <<log, run>>
  PROVE  IdInv'
<1>1. ~OfferedPending'
  BY NotOffered DEF OfferedPending
<1>2. IdLog(log')
  BY DEF IdInv
<1> QED BY <1>1, <1>2, ResetIds DEF IdInv

(* The record of a running call is settled.                                *)
LEMMA StillSettled ==
  ASSUME Inv, IdInv, pc # "idle", run' = run, NEW e,
         log' \in {log, Append(log, e)}
  PROVE  /\ run'.question # NoAction => run'.checkpoint = 0
         /\ run'.checkpoint = 0 \/ IsSettled(log', run'.checkpoint)
<1>1. /\ run.question # NoAction => run.checkpoint = 0
      /\ run.checkpoint = 0 \/ IsSettled(log, run.checkpoint)
  BY DEF IdInv
<1>2. IsSettled(log, run.checkpoint) => IsSettled(log', run.checkpoint)
  <2>1. LogsEvents(log)
    BY AtAnyPoint
  <2>2. CASE log' = log
    BY <2>2
  <2>3. CASE log' = Append(log, e)
    BY <2>1, <2>3, SettledStays
  <2> QED BY <2>2, <2>3
<1> QED BY <1>1, <1>2

(* AgentRuntime.execute goes on.                                           *)
LEMMA ExecuteIds ==
  ASSUME Inv, IdInv, pc \in Executes, pc' \in Executes,
         IdLog(log'), Iteration(log') = Iteration(log),
         IsKnown(log', job.action),
         job'.state = job.state, job'.action = job.action,
         job'.then = job.then, job'.reason = job.reason, run' = run,
         NEW e, log' \in {log, Append(log, e)}
  PROVE  IdInv'
<1>1. HoldsState' <=> HoldsState
  BY DEF HoldsState, InLoop, Executes
<1>2. pc # "idle" /\ pc # "end" /\ pc' \notin {"step", "end", "close",
        "observed", "resume", "rejected", "wait", "idle", "resumed",
        "written", "gate"}
  BY DEF Executes
<1>3. /\ run'.question # NoAction => run'.checkpoint = 0
      /\ run'.checkpoint = 0 \/ IsSettled(log', run'.checkpoint)
  BY <1>2, StillSettled
<1> QED BY <1>1, <1>2, <1>3 DEF IdInv

(* It ends with an observation: an event of its action tells it, unless    *)
(* it stops the call.                                                      *)
LEMMA ObserveIds ==
  ASSUME Inv, IdInv, pc \in Executes, NEW e, MayLog(log, e),
         log' = Append(log, e), e.action = job.action, job.action # NoAction,
         NEW obs, Observe(obs), run' = run,
         e.type \in Observations \/ obs.status \in StoppingStatuses
  PROVE  IdInv'
<1>1. /\ pc' = job.then /\ job'.obs = obs
      /\ job'.action = job.action /\ job'.then = job.then
      /\ job'.state = job.state /\ job'.reason = job.reason
  BY DEF Observe, Inv, TypeInv, JobOK, IsJob
<1>2. pc' \in ReturnsTo
  BY <1>1 DEF Inv, TypeInv, JobOK
<1>3. pc # "idle" /\ pc # "end" /\ pc' \notin Executes \union {"step", "end",
        "close", "observed", "resume", "rejected", "wait", "idle", "gate"}
  BY <1>2 DEF Executes, ReturnsTo
<1>4. /\ LogsEvents(log) /\ IdLog(log) /\ Len(log) \in Nat
      /\ SnapshotAt(log) \in 0..Len(log)
  BY AtAnyPoint, LatestIsState DEF IdInv, IdLog
<1>5. /\ IdLog(log') /\ Iteration(log') = Iteration(log)
      /\ SnapshotAt(log') = SnapshotAt(log)
  BY <1>4, IdLogGrows
<1>6. HoldsState' => HoldsState
  BY <1>1, <1>2, <1>3 DEF HoldsState, InLoop, ReturnsTo
<1>7. /\ run'.question # NoAction => run'.checkpoint = 0
      /\ run'.checkpoint = 0 \/ IsSettled(log', run'.checkpoint)
  BY <1>3, StillSettled
<1>8. (pc' = "resumed" /\ job'.obs.status \notin StoppingStatuses) =>
        \E i \in DOMAIN log' : /\ i > SnapshotAt(log')
                               /\ log'[i].type \in Observations
                               /\ log'[i].action # NoAction
  <2> DEFINE i == Len(log) + 1
  <2>1. i \in DOMAIN log' /\ log'[i] = e /\ i > SnapshotAt(log')
    BY <1>4, <1>5, AppendGrows DEF LogsEvents
  <2> HIDE DEF i
  <2> QED BY <1>1, <2>1
<1>9. pc' = "written" => IsDecided(job'.action)
  BY <1>1 DEF IdInv
<1>10. HoldsState' =>
         IsState(job'.state) /\ job'.state.iteration = Iteration(log')
  BY <1>1, <1>5, <1>6 DEF IdInv
<1>11. job'.reason = "none"
  BY <1>1, <1>3 DEF IdInv
<1> QED BY <1>3, <1>5, <1>7, <1>8, <1>9, <1>10, <1>11 DEF IdInv

(* What may be logged about the action in execution.                       *)
LEMMA ActionMayLog ==
  ASSUME Inv, IdInv, pc \in Executes \union {"gate"}, NEW type, NEW obs,
         NEW e, e \in {ActionEvent(type, job.action),
                       Result(type, job.action, obs)},
         type \notin {"working_state_updated", "approval_required",
                      "approval_rejected", "input_received"},
         type \in WaitingTypes => job.action # NoAction
  PROVE  /\ MayLog(log, e) /\ IsKnown(log, e.action)
         /\ e.action = job.action /\ e.type = type
<1>1. e.action = job.action /\ e.type = type
  BY EventFields
<1>2. IsKnown(log, job.action)
  BY DEF IdInv
<1> QED BY <1>1, <1>2 DEF MayLog

(* The execution goes on, and may have logged an event of its action.      *)
LEMMA LoggedIds ==
  ASSUME Inv, IdInv, pc \in Executes, pc' \in Executes,
         NEW type, NEW obs, NEW e,
         e \in {ActionEvent(type, job.action), Result(type, job.action, obs)},
         type \notin {"working_state_updated", "approval_required",
                      "approval_rejected", "input_received"},
         type \notin WaitingTypes, log' \in {log, Append(log, e)},
         job'.state = job.state, job'.action = job.action,
         job'.then = job.then, job'.reason = job.reason, run' = run
  PROVE  IdInv'
<1>1. /\ MayLog(log, e) /\ IsKnown(log, job.action) /\ LogsEvents(log)
      /\ IdLog(log)
  <2>1. LogsEvents(log) /\ IdLog(log)
    BY AtAnyPoint DEF IdInv
  <2>2. e.action = job.action /\ e.type = type
    BY EventFields
  <2>3. IsKnown(log, job.action)
    BY DEF IdInv
  <2> QED BY <2>1, <2>2, <2>3 DEF MayLog
<1>2. /\ IdLog(log') /\ Iteration(log') = Iteration(log)
      /\ Recorded(log) \subseteq Recorded(log')
  <2>1. CASE log' = log
    BY <1>1, <2>1
  <2>2. CASE log' = Append(log, e)
    BY <1>1, <2>2, IdLogGrows
  <2> QED BY <2>1, <2>2
<1>3. IsKnown(log', job.action)
  BY <1>1, <1>2 DEF IsKnown
<1> QED BY <1>2, <1>3, ExecuteIds

LEMMA AuthorizedIds ==
  ASSUME Inv, IdInv, pc \in Executes, pc' \in Executes,
         UNCHANGED <<job, run>>,
         log' = Append(log, ActionEvent("action_authorized", job.action))
  PROVE  IdInv'
<1> DEFINE e == ActionEvent("action_authorized", job.action)
<1>1. e \in {ActionEvent("action_authorized", job.action),
              Result("action_authorized", job.action, NoObs)}
  OBVIOUS
<1>2. "action_authorized" \notin WaitingTypes
  BY DEF WaitingTypes
<1>3. log' \in {log, Append(log, e)}
  OBVIOUS
<1> HIDE DEF e
<1> QED BY <1>1, <1>2, <1>3, LoggedIds

LEMMA AuthorizeReadIds == Inv /\ IdInv /\ AuthorizeRead => IdInv'
<1> SUFFICES ASSUME Inv, IdInv, AuthorizeRead PROVE IdInv'
  OBVIOUS
<1> DEFINE e == ActionEvent("action_authorized", job.action)
<1>1. /\ pc \in Executes /\ pc' \in Executes /\ UNCHANGED <<job, run>>
      /\ log' = Append(log, e)
  BY DEF AuthorizeRead, Executing, Executes
<1> QED BY <1>1, AuthorizedIds

LEMMA AskIds == Inv /\ IdInv /\ Ask => IdInv'
<1> SUFFICES ASSUME Inv, IdInv, Ask PROVE IdInv'
  OBVIOUS
<1> DEFINE obs == Plain("input_required")
           e == Result("input_required", job.action, obs)
<1>1. /\ pc \in Executes /\ job.action # NoAction /\ run' = run
      /\ log' = Append(log, e) /\ Observe(obs)
  BY DEF Ask, Executing, Executes
<1>2. MayLog(log, e) /\ e.action = job.action /\ e.type = "input_required"
  BY <1>1, ActionMayLog
<1> HIDE DEF e, obs
<1> QED BY <1>1, <1>2, ObserveIds DEF Observations, WaitingTypes

LEMMA CheckpointIsOpen ==
  ASSUME Inv, NEW a, NEW j \in DOMAIN log, log[j].type \in Settling
  PROVE  log[j].checkpoint # Checkpoint(a)
<1>1. /\ Len(log) \in Nat /\ DOMAIN log = 1..Len(log)
      /\ log[j].checkpoint \in 0..Len(log)
  BY AtAnyPoint, LogIsCharged DEF LogsEvents, IsEvent
<1>2. log[j].checkpoint # Len(log) + 1
  BY <1>1
<1>3. ASSUME ~Rejected(LastRequest(a).checkpoint),
             ~Granted(LastRequest(a).checkpoint)
      PROVE  log[j].checkpoint # LastRequest(a).checkpoint
  BY <1>3 DEF Rejected, Granted, Requests, Events, Settling
<1> QED BY <1>2, <1>3 DEF Checkpoint

LEMMA AuthorizeSideEffectIds ==
  Inv /\ IdInv /\ AuthorizeSideEffect => IdInv'
<1> SUFFICES ASSUME Inv, IdInv, AuthorizeSideEffect PROVE IdInv'
  OBVIOUS
<1> DEFINE a == job.action
           done == \E r \in Reserved(a) : r.obs # NoObs
           moved == a.kind = "apply_patch" /\ disk[a.path] # a.from
<1>1. /\ pc \in Executes /\ a # NoAction /\ run' = run
      /\ a.kind \in SideEffects
  BY DEF AuthorizeSideEffect, Executing, Executes
<1>2. CASE ~Denied(a) /\ done
  <2> DEFINE e == Result("action_replayed", a, StoredObs(a))
  <2>1. log' = Append(log, e) /\ Observe(StoredObs(a))
    BY <1>2 DEF AuthorizeSideEffect
  <2>2. MayLog(log, e) /\ e.action = a /\ e.type = "action_replayed"
    BY <1>1, ActionMayLog
  <2> HIDE DEF e
  <2> QED BY <1>1, <2>1, <2>2, ObserveIds DEF Observations, TerminalTypes
<1>3. CASE ~Denied(a) /\ ~done /\ moved
  <2> DEFINE e == Result("action_conflict", a, Plain("conflict"))
  <2>1. log' = Append(log, e) /\ Observe(Plain("conflict"))
    BY <1>3 DEF AuthorizeSideEffect
  <2>2. MayLog(log, e) /\ e.action = a /\ e.type = "action_conflict"
    BY <1>1, ActionMayLog
  <2> HIDE DEF e
  <2> QED BY <1>1, <2>1, <2>2, ObserveIds DEF Observations, TerminalTypes
<1>4. CASE ~Denied(a) /\ ~done /\ ~moved /\ ValidGrant(a)
  <2>1. log' = Append(log, ActionEvent("action_authorized", a))
        /\ pc' \in Executes /\ UNCHANGED job
    BY <1>4 DEF AuthorizeSideEffect, Executes
  <2> QED BY <1>1, <2>1, AuthorizedIds
<1>5. CASE ~Denied(a) /\ ~done /\ ~moved /\ ~ValidGrant(a)
  <2> DEFINE obs == Plain("approval_required")
             e == [Result("approval_required", a, obs)
                     EXCEPT !.checkpoint = Checkpoint(a),
                            !.baseline = Baseline(a)]
  <2>1. log' = Append(log, e) /\ Observe(obs)
    BY <1>5 DEF AuthorizeSideEffect
  <2>2. e.type = "approval_required" /\ e.checkpoint = Checkpoint(a)
        /\ e.action = a
    BY EventFields
  <2> HIDE DEF e, obs
  <2>3. IsKnown(log, a)
    BY <1>1 DEF IdInv
  <2>4. MayLog(log, e)
    <3>1. \A j \in DOMAIN log : log[j].type \in Settling =>
            log[j].checkpoint # e.checkpoint
      BY <2>2, CheckpointIsOpen
    <3> QED BY <1>1, <2>2, <2>3, <3>1 DEF MayLog
  <2> QED BY <1>1, <2>1, <2>2, <2>4, ObserveIds DEF Observations, WaitingTypes
<1>6. CASE Denied(a)
  <2> DEFINE e == Result("action_denied", a, Plain("policy_denied"))
  <2>1. log' = Append(log, e) /\ Observe(Plain("policy_denied"))
    BY <1>6 DEF AuthorizeSideEffect
  <2>2. MayLog(log, e) /\ e.action = a /\ e.type = "action_denied"
    BY <1>1, ActionMayLog
  <2> HIDE DEF e
  <2> QED BY <1>1, <2>1, <2>2, ObserveIds DEF Observations, TerminalTypes
<1> QED BY <1>2, <1>3, <1>4, <1>5, <1>6

LEMMA ReserveIds == Inv /\ IdInv /\ Reserve => IdInv'
<1> SUFFICES ASSUME Inv, IdInv, Reserve PROVE IdInv'
  OBVIOUS
<1> DEFINE a == job.action
           obs == IF StoredObs(a) # NoObs THEN StoredObs(a)
                  ELSE Plain("recovery_required")
           type == IF StoredObs(a) # NoObs THEN "action_replayed"
                   ELSE "action_recovery_required"
           e == Result(type, a, obs)
<1>1. pc \in Executes /\ a # NoAction /\ run' = run
  BY DEF Reserve, Executing, Executes
<1>2. CASE Reserved(a) = {}
  <2>1. log' = log /\ pc' \in Executes /\ UNCHANGED job
    BY <1>2 DEF Reserve, Executes
  <2>2. "action_started" \notin WaitingTypes
    BY DEF WaitingTypes
  <2> QED BY <1>1, <2>1, <2>2, LoggedIds
<1>3. CASE Reserved(a) # {}
  <2>1. log' = Append(log, e) /\ Observe(obs)
    BY <1>3 DEF Reserve
  <2>2. type \in {"action_replayed", "action_recovery_required"}
    OBVIOUS
  <2>3. type \in Observations \/ obs.status \in StoppingStatuses
    BY DEF Observations, TerminalTypes, StoppingStatuses, Plain, Obs
  <2> HIDE DEF obs, type
  <2>4. MayLog(log, e) /\ e.action = a /\ e.type = type
    BY <1>1, <2>2, ActionMayLog DEF WaitingTypes
  <2> HIDE DEF e
  <2> QED BY <1>1, <2>1, <2>3, <2>4, ObserveIds
<1> QED BY <1>2, <1>3

LEMMA StartIds == Inv /\ IdInv /\ Start => IdInv'
<1> SUFFICES ASSUME Inv, IdInv, Start PROVE IdInv'
  OBVIOUS
<1> DEFINE type == IF job.retry THEN "action_recovery_started"
                   ELSE "action_started"
<1>1. /\ pc \in Executes /\ pc' \in Executes /\ UNCHANGED <<job, run>>
      /\ log' = Append(log, ActionEvent(type, job.action))
  BY DEF Start, Executing, Executes
<1>2. type \in {"action_recovery_started", "action_started"}
  OBVIOUS
<1> HIDE DEF type
<1> QED BY <1>1, <1>2, LoggedIds DEF WaitingTypes

LEMMA ToolIds == Inv /\ IdInv /\ Tool => IdInv'
<1> SUFFICES ASSUME Inv, IdInv, Tool PROVE IdInv'
  OBVIOUS
<1>1. pc \in Executes /\ pc' \in Executes /\ UNCHANGED <<log, run>>
  BY DEF Tool, Executing, Executes
<1>2. \E obs : job' = [job EXCEPT !.obs = obs]
  BY DEF Tool, ToolRead, ToolFinish, ToolPropose, ToolInspect, ToolWrite,
         ToolValidate
<1>3. /\ job'.state = job.state /\ job'.action = job.action
      /\ job'.then = job.then /\ job'.reason = job.reason
  BY <1>2, AtAnyPoint DEF IsJob
<1>4. "action_started" \notin WaitingTypes
  BY DEF WaitingTypes
<1> QED BY <1>1, <1>3, <1>4, LoggedIds

LEMMA CompleteIds == Inv /\ IdInv /\ Complete => IdInv'
<1> SUFFICES ASSUME Inv, IdInv, Complete PROVE IdInv'
  OBVIOUS
<1>1. pc \in Executes /\ pc' \in Executes /\ UNCHANGED <<log, run, job>>
  BY DEF Complete, Executing, Executes
<1>2. "action_started" \notin WaitingTypes
  BY DEF WaitingTypes
<1> QED BY <1>1, <1>2, LoggedIds

LEMMA ReportIds == Inv /\ IdInv /\ Report => IdInv'
<1> SUFFICES ASSUME Inv, IdInv, Report PROVE IdInv'
  OBVIOUS
<1> DEFINE e == Result(ReportType, job.action, job.obs)
<1>1. /\ pc \in Executes /\ job.action # NoAction /\ run' = run
      /\ log' = Append(log, e) /\ Observe(job.obs)
  BY DEF Report, Executing, Executes
<1>2. ReportType \in {"action_recovered", "action_completed",
                      "action_conflict", "action_failed"}
  BY DEF ReportType
<1>3. MayLog(log, e) /\ e.action = job.action /\ e.type = ReportType
  BY <1>1, <1>2, ActionMayLog DEF WaitingTypes
<1> HIDE DEF e
<1> QED BY <1>1, <1>2, <1>3, ObserveIds DEF Observations, TerminalTypes

LEMMA ExecuteStepIds == Inv /\ IdInv /\ Execute => IdInv'
BY AuthorizeReadIds, AskIds, AuthorizeSideEffectIds, ReserveIds, StartIds,
   ToolIds, CompleteIds, ReportIds DEF Execute

-----------------------------------------------------------------------------
(* What recovery records.                                                  *)

(* An observation after the snapshot is unseen, or a newer one of its      *)
(* action is.                                                              *)
LEMMA ObservationIsUnseen ==
  ASSUME NEW l, LogsEvents(l), SnapshotsOK(l), NEW i \in DOMAIN l,
         i > SnapshotAt(l), l[i].action # NoAction,
         l[i].type \in Observations
  PROVE  \E j \in Unseen(l) : l[j].type # "input_received"
<1>1. /\ Len(l) \in Nat /\ DOMAIN l = 1..Len(l)
      /\ SnapshotAt(l) \in 0..Len(l)
  BY LogIsCharged, LatestIsState
<1> DEFINE id == l[i].action.id
<1>2. ASSUME NEW types, types \in {WaitingTypes, TerminalTypes},
             l[i].type \in types
      PROVE  \E j \in Unseen(l) : l[j].type # "input_received"
  <2> DEFINE P == Of(l, id, types)
             j == At(l, id, types)
  <2>1. P \subseteq 1..Len(l) /\ i \in P
    BY <1>1, <1>2 DEF Of
  <2>2. j = Newest(P)
    BY DEF At
  <2> HIDE DEF P
  <2>3. j \in P /\ i <= j
    BY <1>1, <2>1, <2>2, NewestIsLast
  <2> HIDE DEF j
  <2>4. /\ j \in 1..Len(l) /\ l[j].action # NoAction
        /\ l[j].action.id = id /\ l[j].type \in types
    BY <1>1, <2>3 DEF P, Of
  <2>5. j \in SnapshotAt(l) + 1 .. Len(l)
    BY <1>1, <2>3, <2>4
  <2>6. j \in ObservedAt(l, l[j].action.id)
    BY <1>2, <2>3, <2>4 DEF ObservedAt, P, j
  <2>7. j \in Unseen(l)
    BY <2>4, <2>5, <2>6 DEF Unseen
  <2>8. l[j].type # "input_received"
    BY <1>2, <2>4 DEF WaitingTypes, TerminalTypes
  <2> QED BY <2>7, <2>8
<1>3. l[i].type \in WaitingTypes \/ l[i].type \in TerminalTypes
  BY DEF Observations
<1> QED BY <1>2, <1>3

(* The rebuilt state counts what the log has, or leaves it quiet.          *)
LEMMA RebuiltFollows ==
  ASSUME NEW l, LogsEvents(l), IdLog(l)
  PROVE  /\ IsState(Rebuilt(l))
         /\ \/ Rebuilt(l).iteration = Iteration(l) /\ Quiet(l)
            \/ Rebuilt(l).iteration > Iteration(l)
<1>1. SnapshotsOK(l) /\ AheadOK(l)
  BY DEF IdLog
<1>2. /\ IsState(Rebuilt(l)) /\ Iteration(l) <= Rebuilt(l).iteration
      /\ (\E i \in Unseen(l) : l[i].type # "input_received") =>
           Iteration(l) < Rebuilt(l).iteration
  BY <1>1, RebuiltCounts
<1>3. Iteration(l) \in Nat /\ Rebuilt(l).iteration \in Nat
  BY <1>1, <1>2, LatestIsState DEF IsState
<1>4. ASSUME ~Quiet(l) PROVE \E i \in Unseen(l) : l[i].type # "input_received"
  <2>1. PICK a \in Ahead(l) : Has(l, a.id, Observations)
    BY <1>4 DEF Quiet
  <2>2. PICK i \in Of(l, a.id, Observations) : TRUE
    BY <2>1 DEF Has
  <2>3. i > SnapshotAt(l)
    BY <1>1, <2>2 DEF AheadOK
  <2>4. /\ i \in DOMAIN l /\ l[i].action # NoAction
        /\ l[i].type \in Observations
    BY <2>2 DEF Of
  <2> QED BY <1>1, <2>3, <2>4, ObservationIsUnseen
<1> QED BY <1>2, <1>3, <1>4

LEMMA PersistIds ==
  ASSUME NEW l, LogsEvents(l), IdLog(l), NEW m,
         m = IF Unseen(l) = {} THEN l ELSE Append(l, Snapshot(Rebuilt(l)))
  PROVE  /\ IdLog(m) /\ Quiet(m) /\ IsState(Rebuilt(l))
         /\ Rebuilt(l).iteration = Iteration(m)
         /\ (\E i \in DOMAIN l : /\ i > SnapshotAt(l)
                                 /\ l[i].type \in Observations
                                 /\ l[i].action # NoAction) =>
              Ahead(m) = {}
<1>1. SnapshotsOK(l)
  BY DEF IdLog
<1>2. /\ IsState(Rebuilt(l))
      /\ \/ Rebuilt(l).iteration = Iteration(l) /\ Quiet(l)
         \/ Rebuilt(l).iteration > Iteration(l)
  BY RebuiltFollows
<1>3. /\ (\E i \in Unseen(l) : l[i].type # "input_received") =>
           Iteration(l) < Rebuilt(l).iteration
      /\ Unseen(l) = {} => Rebuilt(l) = LatestState(l)
  BY <1>1, RebuiltCounts
<1>4. Iteration(l) \in Nat
  BY <1>1, LatestIsState
<1>5. ASSUME NEW i \in DOMAIN l, i > SnapshotAt(l),
             l[i].type \in Observations, l[i].action # NoAction
      PROVE  \E j \in Unseen(l) : l[j].type # "input_received"
  BY <1>1, <1>5, ObservationIsUnseen
<1>6. CASE Unseen(l) = {}
  <2>1. m = l /\ Rebuilt(l).iteration = Iteration(l)
    BY <1>3, <1>6 DEF Iteration
  <2>2. Quiet(l)
    BY <1>2, <1>4, <2>1
  <2> QED BY <1>2, <1>5, <1>6, <2>1, <2>2
<1>7. CASE Unseen(l) # {}
  <2> DEFINE s == Rebuilt(l)
  <2>1. m = Append(l, Snapshot(s))
    BY <1>7
  <2>2. /\ IsState(s)
        /\ \/ s.iteration = Iteration(l) /\ Quiet(l)
           \/ s.iteration > Iteration(l)
    BY <1>2
  <2> HIDE DEF s
  <2>3. /\ IdLog(m) /\ Quiet(m) /\ Iteration(m) = s.iteration
        /\ s.iteration > Iteration(l) => Ahead(m) = {}
    BY <2>1, <2>2, IdLogRecords
  <2>4. (\E j \in Unseen(l) : l[j].type # "input_received") =>
          s.iteration > Iteration(l)
    BY <1>2, <1>3, <1>4 DEF s, IsState
  <2> QED BY <1>5, <2>2, <2>3, <2>4 DEF s
<1> QED BY <1>6, <1>7

-----------------------------------------------------------------------------
(* The steps of the loop keep the invariant of ids.                        *)

LEMMA ResumeIds ==
  ASSUME IdLog(log'), NEW cycle, Resume(log', cycle),
         run'.question # NoAction => run'.checkpoint = 0,
         run'.checkpoint = 0 \/ IsSettled(log', run'.checkpoint)
  PROVE  IdInv'
<1>1. pc' = "recover"
  BY DEF Resume
<1>2. job'.reason = "none"
  BY NoJobFields DEF Resume, IsJob
<1>3. ~HoldsState'
  BY <1>1 DEF HoldsState, InLoop, Executes
<1> QED BY <1>1, <1>2, <1>3 DEF IdInv, Executes

LEMMA ResumeLoopIds == Inv /\ IdInv /\ ResumeLoop => IdInv'
<1> SUFFICES ASSUME Inv, IdInv, ResumeLoop PROVE IdInv'
  OBVIOUS
<1>1. /\ UNCHANGED <<log, run>> /\ Resume(log', run.cycle)
      /\ run.checkpoint = 0
  BY DEF ResumeLoop, Offering
<1>2. IdLog(log')
  BY <1>1 DEF IdInv
<1> QED BY <1>1, <1>2, ResumeIds

LEMMA StartLoopIds == Inv /\ IdInv /\ StartLoop => IdInv'
<1> SUFFICES ASSUME Inv, IdInv, StartLoop PROVE IdInv'
  OBVIOUS
<1> DEFINE s == CreateState
<1>1. /\ pc' = "step" /\ run' = run /\ log = <<>>
      /\ log' = <<Snapshot(s)>>
  BY DEF StartLoop
<1>2. job'.state = s /\ job'.reason = "none"
  <2>1. IsJob(Job("loop")) /\ Job("loop").reason = "none"
    BY NoJobFields
  <2> HIDE DEF s
  <2> QED BY <2>1 DEF StartLoop, IsJob, s
<1>3. IsState(s) /\ s.iteration = 0
  BY CreatedIsState
<1>4. /\ SnapshotAt(log) = 0 /\ Recorded(log) = {} /\ Len(log) = 0
  BY <1>1 DEF SnapshotAt, Recorded
<1>5. Iteration(log) = 0 /\ Ahead(log) = {} /\ Quiet(log)
  BY <1>3, <1>4 DEF Iteration, LatestState, Ahead, Quiet
<1> HIDE DEF s
<1>6. log' = Append(log, Snapshot(s))
  BY <1>1
<1>7. LogsEvents(log) /\ IdLog(log)
  BY AtAnyPoint DEF IdInv
<1>8. /\ IdLog(log') /\ Iteration(log') = s.iteration
      /\ Ahead(log') \subseteq Ahead(log)
  BY <1>3, <1>5, <1>6, <1>7, IdLogRecords
<1>9. run.checkpoint = 0
  BY <1>4, AtAnyPoint DEF FilesOK
<1> QED BY <1>1, <1>2, <1>3, <1>5, <1>8, <1>9 DEF IdInv, Executes

LEMMA ReconcileIds == Inv /\ IdInv /\ Reconcile => IdInv'
<1> SUFFICES ASSUME Inv, IdInv, Reconcile PROVE IdInv'
  OBVIOUS
<1> DEFINE a == ActionOf(log, Pending(log))
           e == Result("action_recovered", a, StoredObs(a))
<1>1. /\ pc = "recover" /\ UNCHANGED <<pc, job, run>>
      /\ log' = Append(log, e)
  BY DEF Reconcile
<1>2. LogsEvents(log) /\ IdLog(log)
  BY AtAnyPoint DEF IdInv
<1>3. Unresolved(log) # {}
  BY DEF Reconcile, Settled, PendingClass
<1>4. a \in Recorded(log)
  BY <1>2, <1>3, PendingInLog DEF Recorded
<1>5. e.type = "action_recovered" /\ e.action = a
  BY EventFields
<1> HIDE DEF e, a
<1>6. MayLog(log, e)
  BY <1>4, <1>5 DEF MayLog, IsKnown, WaitingTypes
<1>7. IdLog(log')
  BY <1>1, <1>2, <1>6, IdLogGrows
<1>8. /\ run'.question # NoAction => run'.checkpoint = 0
      /\ run'.checkpoint = 0 \/ IsSettled(log', run'.checkpoint)
  BY <1>1, StillSettled
<1>9. ~HoldsState' /\ job'.reason = "none"
  BY <1>1 DEF HoldsState, InLoop, Executes, IdInv
<1> QED BY <1>1, <1>7, <1>8, <1>9 DEF IdInv, Executes

LEMMA RecoverIds == Inv /\ IdInv /\ Recover => IdInv'
<1> SUFFICES ASSUME Inv, IdInv, Recover PROVE IdInv'
  OBVIOUS
<1> DEFINE s == Rebuilt(log)
           e == Snapshot(s)
<1>1. /\ pc = "recover" /\ pc' = "resume" /\ run' = run
      /\ log' = IF Unseen(log) = {} THEN log ELSE Append(log, e)
      /\ job' = [job EXCEPT !.state = s]
  BY DEF Recover, PersistRebuilt
<1>2. LogsEvents(log) /\ IdLog(log)
  BY AtAnyPoint DEF IdInv
<1>3. /\ IdLog(log') /\ Quiet(log') /\ IsState(s)
      /\ s.iteration = Iteration(log')
  BY <1>1, <1>2, PersistIds
<1> HIDE DEF s, e
<1>4. job'.state = s /\ job'.reason = job.reason
  BY <1>1, AtAnyPoint DEF IsJob
<1>5. /\ run'.question # NoAction => run'.checkpoint = 0
      /\ run'.checkpoint = 0 \/ IsSettled(log', run'.checkpoint)
  BY <1>1, StillSettled
<1>6. job.reason = "none"
  BY <1>1 DEF IdInv
<1> QED BY <1>1, <1>3, <1>4, <1>5, <1>6 DEF IdInv, Executes

LEMMA ResumePendingIds == Inv /\ IdInv /\ ResumePending => IdInv'
<1> SUFFICES ASSUME Inv, IdInv, ResumePending PROVE IdInv'
  OBVIOUS
<1> DEFINE next == NextStep(log)
           a == ActionOf(log, Pending(log))
<1>1. pc = "resume" /\ UNCHANGED <<log, run>>
  BY DEF ResumePending
<1>2. /\ run'.question # NoAction => run'.checkpoint = 0
      /\ run'.checkpoint = 0 \/ IsSettled(log', run'.checkpoint)
  BY <1>1, StillSettled
<1>3. IdLog(log') /\ Quiet(log') /\ job.reason = "none"
  BY <1>1 DEF IdInv
<1>4. CASE next \in {"execute_pending", "retry_read_only"}
  <2>1. a \in Recorded(log)
    BY <1>4, NextStepOfPending, AtAnyPoint, PendingInLog DEF Recorded
  <2>2. /\ pc' \in {"execute", "start"}
        /\ \/ job' = [job EXCEPT !.action = a, !.then = "resumed"]
           \/ job' = [job EXCEPT !.action = a, !.then = "resumed",
                                 !.retry = TRUE]
    BY <1>4 DEF ResumePending
  <2> HIDE DEF a, next
  <2>3. /\ job'.action = a /\ job'.then = "resumed"
        /\ job'.reason = job.reason
    BY <2>2, AtAnyPoint DEF IsJob
  <2>4. IsKnown(log', job'.action)
    BY <1>1, <2>1, <2>3 DEF IsKnown
  <2>5. ~HoldsState'
    BY <2>2, <2>3 DEF HoldsState, InLoop
  <2> QED BY <1>2, <1>3, <2>2, <2>3, <2>4, <2>5 DEF IdInv
<1>5. CASE next \notin {"execute_pending", "retry_read_only"}
  <2>1. pc' = "wait" /\ UNCHANGED job
    BY <1>5 DEF ResumePending
  <2>2. IsState(job.state) /\ job.state.iteration = Iteration(log)
    BY <1>1 DEF IdInv, HoldsState
  <2> QED BY <1>1, <1>2, <1>3, <1>5, <2>1, <2>2 DEF IdInv, Executes
<1> QED BY <1>4, <1>5

LEMMA ResumedIds == Inv /\ IdInv /\ Resumed => IdInv'
<1> SUFFICES ASSUME Inv, IdInv, Resumed PROVE IdInv'
  OBVIOUS
<1> DEFINE s == Rebuilt(log)
           e == Snapshot(s)
<1>1. /\ pc = "resumed"
      /\ log' = IF Unseen(log) = {} THEN log ELSE Append(log, e)
  BY DEF Resumed, PersistRebuilt
<1>2. LogsEvents(log) /\ IdLog(log)
  BY AtAnyPoint DEF IdInv
<1>3. /\ IdLog(log') /\ Quiet(log') /\ IsState(s)
      /\ s.iteration = Iteration(log')
      /\ (\E i \in DOMAIN log : /\ i > SnapshotAt(log)
                                /\ log[i].type \in Observations
                                /\ log[i].action # NoAction) =>
           Ahead(log') = {}
  BY <1>1, <1>2, PersistIds
<1>4. CASE job.obs.status \in StoppingStatuses
  <2>1. Return(log')
    BY <1>4 DEF Resumed
  <2> QED BY <1>3, <2>1, ReturnIds
<1>5. CASE job.obs.status \notin StoppingStatuses
  <2>1. /\ job' = [job EXCEPT !.state = s] /\ pc' = "wait" /\ run' = run
    BY <1>5 DEF Resumed, PersistRebuilt
  <2>2. Ahead(log') = {} /\ job.reason = "none"
    BY <1>1, <1>3, <1>5 DEF IdInv
  <2> HIDE DEF s, e
  <2>3. job'.state = s /\ job'.reason = job.reason
    BY <2>1, AtAnyPoint DEF IsJob
  <2>4. /\ run'.question # NoAction => run'.checkpoint = 0
        /\ run'.checkpoint = 0 \/ IsSettled(log', run'.checkpoint)
    BY <1>1, <2>1, StillSettled
  <2> QED BY <1>3, <2>1, <2>2, <2>3, <2>4 DEF IdInv, Executes
<1> QED BY <1>4, <1>5

(* An action that is ahead and quiet is unresolved, and a run with an      *)
(* unresolved action takes no decision.                                    *)
LEMMA QuietIsUnresolved ==
  ASSUME NEW l, LogsEvents(l), IdLog(l), Quiet(l), NEW a \in Ahead(l)
  PROVE  a.id \in Unresolved(l)
<1>1. PICK i \in DOMAIN l : l[i].action = a /\ a # NoAction
  BY DEF Ahead, Recorded
<1>2. a.id \in Tracked(l)
  BY <1>1 DEF Tracked
<1>3. ~Has(l, a.id, Observations)
  BY DEF Quiet
<1>4. ~Has(l, a.id, TerminalTypes) /\ ~Has(l, a.id, WaitingTypes)
  BY <1>3 DEF Has, Of, Observations
<1>5. ASSUME Has(l, a.id, {"input_received", "approval_rejected"})
      PROVE  FALSE
  <2>1. PICK j \in DOMAIN l :
          /\ l[j].action.id = a.id
          /\ l[j].type \in {"approval_rejected", "input_received"}
    BY <1>5 DEF Has, Of
  <2>2. Has(l, l[j].action.id, WaitingTypes)
    BY <2>1 DEF IdLog, RequestsOK
  <2> QED BY <1>4, <2>1, <2>2
<1> QED BY <1>2, <1>4, <1>5 DEF Unresolved

LEMMA NextStepOfUnresolved ==
  ASSUME NEW l, Unresolved(l) # {}
  PROVE  NextStep(l) \in {"await_approval", "await_input", "retry_read_only",
                          "confirm_side_effect", "execute_pending"}
<1>1. PendingClass(l) \in {"input_required", "awaiting_approval",
                           "not_started", "ambiguous_side_effect",
                           "interrupted_read_only"}
  BY DEF PendingClass, Classification
<1> QED BY <1>1 DEF NextStep

LEMMA EnterLoopIds == Inv /\ IdInv /\ EnterLoop => IdInv'
<1> SUFFICES ASSUME Inv, IdInv, EnterLoop PROVE IdInv'
  OBVIOUS
<1> DEFINE waits == \/ NextStep(log) \in {"await_approval", "await_input",
                                          "confirm_side_effect", "stopped"}
                    \/ PendingApproval(log) # 0
<1>1. pc = "wait" /\ log' = log
  BY DEF EnterLoop
<1>2. LogsEvents(log) /\ IdLog(log) /\ Quiet(log) /\ job.reason = "none"
  BY <1>1, AtAnyPoint DEF IdInv
<1>3. CASE waits
  <2>1. Return(log')
    BY <1>1, <1>3 DEF EnterLoop
  <2> QED BY <1>1, <1>2, <2>1, ReturnIds
<1>4. CASE ~waits
  <2>1. /\ pc' = "step" /\ run' = run
        /\ \E limit : job' = [job EXCEPT !.step = 1, !.action = NoAction,
                                         !.limit = limit]
    BY <1>4 DEF EnterLoop
  <2>2. job'.state = job.state /\ job'.reason = job.reason
    BY <2>1, AtAnyPoint DEF IsJob
  <2>3. Ahead(log) = {}
    <3>1. SUFFICES ASSUME Ahead(log) # {} PROVE FALSE
      OBVIOUS
    <3>2. Unresolved(log) # {}
      BY <1>2, <3>1, QuietIsUnresolved
    <3>3. NextStep(log) \notin {"execute_pending", "retry_read_only"}
      BY <1>1, <3>1 DEF IdInv
    <3> QED BY <1>4, <3>2, <3>3, NextStepOfUnresolved
  <2>4. IsState(job.state) /\ job.state.iteration = Iteration(log)
    BY <1>1 DEF IdInv, HoldsState
  <2>5. /\ run'.question # NoAction => run'.checkpoint = 0
        /\ run'.checkpoint = 0 \/ IsSettled(log', run'.checkpoint)
    BY <1>1, <2>1, StillSettled
  <2> QED BY <1>1, <1>2, <2>1, <2>2, <2>3, <2>4, <2>5 DEF IdInv, Executes
<1> QED BY <1>3, <1>4

LEMMA DecideIds == Inv /\ IdInv /\ Decide => IdInv'
<1> SUFFICES ASSUME Inv, IdInv, Decide PROVE IdInv'
  OBVIOUS
<1>1. pc = "step" /\ pc' = "gate" /\ run' = run
  BY DEF Decide
<1>2. PICK a \in DecidedActions, u \in Offered :
        /\ log' = Append(log, [ActionEvent("decision_recorded", a)
                                 EXCEPT !.update = u])
        /\ job' = [job EXCEPT !.action = a, !.update = u]
  BY DEF Decide
<1> DEFINE e == [ActionEvent("decision_recorded", a) EXCEPT !.update = u]
<1>3. /\ LogsEvents(log) /\ IdLog(log) /\ Ahead(log) = {}
      /\ IsState(job.state) /\ job.state.iteration = Iteration(log)
      /\ job.reason = "none"
  BY <1>1, AtAnyPoint DEF IdInv, HoldsState
<1>4. a.id = <<"explore", job.state.iteration + 1>>
  BY DEF DecidedActions, LoopId, Read, Action
<1>5. e.type = "decision_recorded" /\ e.action = a
  BY EventFields
<1>6. IsDecided(a) /\ Number(a) = Iteration(log) + 1
  BY <1>3, <1>4 DEF IsDecided, Number, IsState
<1>7. log' = Append(log, e) /\ job' = [job EXCEPT !.action = a, !.update = u]
  BY <1>2
<1> HIDE DEF e
<1>8. MayLog(log, e)
  BY <1>3, <1>5, <1>6
  DEF MayLog, MayDecide, WaitingTypes, Observations, TerminalTypes
<1>9. IdLog(log') /\ Iteration(log') = Iteration(log)
  BY <1>3, <1>7, <1>8, IdLogGrows
<1>10. a # NoAction => a \in Recorded(log')
  BY <1>3, <1>5, <1>7, OfGrows
<1>11. /\ job'.state = job.state /\ job'.action = a
       /\ job'.reason = job.reason
  BY <1>7, AtAnyPoint DEF IsJob
<1>12. IsKnown(log', job'.action)
  BY <1>10, <1>11 DEF IsKnown
<1>13. /\ run'.question # NoAction => run'.checkpoint = 0
       /\ run'.checkpoint = 0 \/ IsSettled(log', run'.checkpoint)
  BY <1>1, <1>7, StillSettled
<1> QED BY <1>1, <1>3, <1>9, <1>11, <1>12, <1>13 DEF IdInv, Executes

LEMMA DecisionFailsIds == Inv /\ IdInv /\ DecisionFails => IdInv'
<1> SUFFICES ASSUME Inv, IdInv, DecisionFails PROVE IdInv'
  OBVIOUS
<1> DEFINE s == Stop(job.state, "failed")
<1>1. pc = "step" /\ Fail /\ log' \in {log, Append(log, Snapshot(s))}
  BY DEF DecisionFails
<1>2. /\ LogsEvents(log) /\ IdLog(log) /\ Quiet(log)
      /\ IsState(job.state) /\ job.state.iteration = Iteration(log)
  BY <1>1, AtAnyPoint DEF IdInv, HoldsState, Quiet
<1>3. IsState(s) /\ s.iteration = Iteration(log)
  BY <1>2, StatesKeepFields
<1> HIDE DEF s
<1>4. IdLog(log')
  <2>1. CASE log' = log
    BY <1>2, <2>1
  <2>2. CASE log' = Append(log, Snapshot(s))
    BY <1>2, <1>3, <2>2, IdLogRecords
  <2> QED BY <1>1, <2>1, <2>2
<1> QED BY <1>1, <1>4, FailIds

LEMMA LimitReachedIds == Inv /\ IdInv /\ LimitReached => IdInv'
<1> SUFFICES ASSUME Inv, IdInv, LimitReached PROVE IdInv'
  OBVIOUS
<1>1. /\ pc = "step" /\ pc' = "end" /\ UNCHANGED <<log, run>>
      /\ job' = [job EXCEPT !.reason = "step_limit"]
  BY DEF LimitReached, stored
<1>2. job'.state = job.state
  BY <1>1, AtAnyPoint DEF IsJob
<1>3. HoldsState /\ pc # "idle"
  BY <1>1 DEF HoldsState
<1> QED BY <1>1, <1>2, <1>3 DEF IdInv, Executes

LEMMA GateIds == Inv /\ IdInv /\ Gate => IdInv'
<1> SUFFICES ASSUME Inv, IdInv, Gate PROVE IdInv'
  OBVIOUS
<1>1. pc = "gate" /\ run' = run
  BY DEF Gate
<1>2. /\ LogsEvents(log) /\ IdLog(log) /\ IsKnown(log, job.action)
      /\ IsState(job.state) /\ job.state.iteration = Iteration(log)
      /\ job.reason = "none"
  BY <1>1, AtAnyPoint DEF IdInv, HoldsState, InLoop
<1>3. CASE pc' = "advance"
  <2>1. PICK type \in {"finish_blocked", "action_conflict"},
             obs \in {Plain("acceptance_incomplete"), Plain("conflict")} :
          /\ log' = Append(log, Result(type, job.action, obs))
          /\ job' = [job EXCEPT !.obs = obs]
    BY <1>3 DEF Gate
  <2> DEFINE e == Result(type, job.action, obs)
  <2>2. e.type = type /\ e.action = job.action
    BY EventFields
  <2>3. log' = Append(log, e)
    BY <2>1
  <2> HIDE DEF e
  <2>4. MayLog(log, e)
    BY <1>2, <2>2 DEF MayLog, WaitingTypes
  <2>5. IdLog(log') /\ Iteration(log') = Iteration(log)
    BY <1>2, <2>3, <2>4, IdLogGrows
  <2>6. /\ job'.state = job.state /\ job'.reason = job.reason
    BY <2>1, AtAnyPoint DEF IsJob
  <2>7. /\ run'.question # NoAction => run'.checkpoint = 0
        /\ run'.checkpoint = 0 \/ IsSettled(log', run'.checkpoint)
    BY <1>1, <2>3, StillSettled
  <2> QED BY <1>2, <1>3, <2>5, <2>6, <2>7 DEF IdInv, Executes
<1>4. CASE pc' # "advance"
  <2>1. /\ pc' = "execute" /\ log' = log
        /\ job' = [job EXCEPT !.then = "advance"]
    BY <1>4 DEF Gate
  <2>2. /\ job'.state = job.state /\ job'.reason = job.reason
        /\ job'.action = job.action /\ job'.then = "advance"
    BY <2>1, AtAnyPoint DEF IsJob
  <2>3. /\ run'.question # NoAction => run'.checkpoint = 0
        /\ run'.checkpoint = 0 \/ IsSettled(log', run'.checkpoint)
    BY <1>1, <2>1, StillSettled
  <2> QED BY <1>2, <2>1, <2>2, <2>3 DEF IdInv, Executes
<1> QED BY <1>3, <1>4

LEMMA AdvanceStateIds == Inv /\ IdInv /\ AdvanceState => IdInv'
<1> SUFFICES ASSUME Inv, IdInv, AdvanceState PROVE IdInv'
  OBVIOUS
<1> DEFINE s == Advance(job.state, job.action, job.obs, job.update)
<1>1. /\ pc = "advance" /\ run' = run /\ log' = Append(log, Snapshot(s))
      /\ \E reason :
           /\ pc' = IF reason = "none" THEN "step" ELSE "end"
           /\ job' = [job EXCEPT !.state = s, !.reason = reason,
                                 !.step = @ + 1, !.action = NoAction,
                                 !.update = NoUpdate, !.obs = NoObs]
  BY DEF AdvanceState
<1>2. /\ LogsEvents(log) /\ IdLog(log)
      /\ IsState(job.state) /\ job.state.iteration = Iteration(log)
  BY <1>1, AtAnyPoint DEF IdInv, HoldsState, InLoop
<1>3. IsState(s) /\ s.iteration > Iteration(log)
  BY <1>2, AdvanceCounts DEF IsState
<1> HIDE DEF s
<1>4. /\ IdLog(log') /\ Iteration(log') = s.iteration
      /\ Ahead(log') = {}
  BY <1>1, <1>2, <1>3, IdLogRecords
<1>5. /\ job'.state = s /\ pc' \in {"step", "end"}
      /\ pc' # "end" => job'.reason = "none"
  BY <1>1, AtAnyPoint DEF IsJob
<1>6. /\ run'.question # NoAction => run'.checkpoint = 0
      /\ run'.checkpoint = 0 \/ IsSettled(log', run'.checkpoint)
  BY <1>1, StillSettled
<1> QED BY <1>3, <1>4, <1>5, <1>6 DEF IdInv, Executes

LEMMA EndLoopIds == Inv /\ IdInv /\ EndLoop => IdInv'
<1> SUFFICES ASSUME Inv, IdInv, EndLoop PROVE IdInv'
  OBVIOUS
<1> DEFINE s == Stop(job.state, job.reason)
<1>1. pc = "end" /\ Return(log') /\ log' \in {log, Append(log, Snapshot(s))}
  BY DEF EndLoop
<1>2. /\ LogsEvents(log) /\ IdLog(log) /\ Quiet(log)
      /\ IsState(job.state) /\ job.state.iteration = Iteration(log)
  BY <1>1, AtAnyPoint DEF IdInv, HoldsState, Quiet
<1>3. IsState(s) /\ s.iteration = Iteration(log)
  BY <1>2, StatesKeepFields
<1> HIDE DEF s
<1>4. IdLog(log') /\ Quiet(log')
  <2>1. CASE log' = log
    BY <1>2, <2>1
  <2>2. CASE log' = Append(log, Snapshot(s))
    BY <1>2, <1>3, <2>2, IdLogRecords
  <2> QED BY <1>1, <2>1, <2>2
<1> QED BY <1>1, <1>4, ReturnIds

LEMMA LoopStepIds == Inv /\ IdInv /\ Loop => IdInv'
BY ReconcileIds, RecoverIds, ResumePendingIds, ResumedIds, EnterLoopIds,
   DecideIds, DecisionFailsIds, LimitReachedIds, GateIds, AdvanceStateIds,
   EndLoopIds DEF Loop

-----------------------------------------------------------------------------
(* The calls of the user and what follows them keep the invariant of ids.  *)

LEMMA RestoreQuestionIds == Inv /\ IdInv /\ RestoreQuestion => IdInv'
<1> SUFFICES ASSUME Inv, IdInv, RestoreQuestion PROVE IdInv'
  OBVIOUS
<1>1. /\ pc = "idle" /\ run.checkpoint = 0
      /\ run' = [run EXCEPT !.question = PendingInput(log)]
      /\ UNCHANGED <<log, pc, job>>
  BY DEF RestoreQuestion, Offering
<1>2. run'.checkpoint = 0
  BY <1>1, AtAnyPoint
<1>3. ~OfferedPending'
  BY <1>2 DEF OfferedPending
<1>4. ~HoldsState'
  BY <1>1 DEF HoldsState, InLoop, Executes
<1> QED BY <1>1, <1>2, <1>3, <1>4 DEF IdInv, Executes

LEMMA CancelIds == Inv /\ IdInv /\ Cancel => IdInv'
<1> SUFFICES ASSUME Inv, IdInv, Cancel PROVE IdInv'
  OBVIOUS
<1>1. /\ pc = "idle" /\ UNCHANGED <<log, pc, job>>
      /\ run' = [run EXCEPT !.checkpoint = 0, !.question = NoAction]
  BY DEF Cancel
<1>2. run'.checkpoint = 0
  BY <1>1, AtAnyPoint
<1>3. ~OfferedPending'
  BY <1>2 DEF OfferedPending
<1>4. ~HoldsState'
  BY <1>1 DEF HoldsState, InLoop, Executes
<1> QED BY <1>1, <1>2, <1>3, <1>4 DEF IdInv, Executes

(* The pending question and the pending request are in the log.            *)
LEMMA PendingInputWaits ==
  ASSUME NEW l, LogsEvents(l), PendingInput(l) # NoAction
  PROVE  /\ PendingInput(l) \in Recorded(l)
         /\ Has(l, PendingInput(l).id, WaitingTypes)
<1> DEFINE asked == Events({"input_required"}, l)
           n == Newest(asked)
<1>1. asked # {} /\ PendingInput(l) = l[n].action
  BY DEF PendingInput
<1>2. Len(l) \in Nat /\ DOMAIN l = 1..Len(l) /\ asked \subseteq 1..Len(l)
  BY LogIsCharged DEF Events
<1>3. n \in asked
  <2> HIDE DEF asked
  <2> QED BY <1>1, <1>2, NewestIsLast
<1>4. n \in DOMAIN l /\ l[n].type = "input_required"
  BY <1>3 DEF Events
<1> HIDE DEF n
<1>5. n \in Of(l, PendingInput(l).id, WaitingTypes)
  BY <1>1, <1>4 DEF Of, WaitingTypes
<1> QED BY <1>1, <1>4, <1>5 DEF Recorded, Has

LEMMA PendingRequestWaits ==
  ASSUME Inv, IdInv, OfferedPending
  PROVE  /\ PendingApprovalAction \in Recorded(log)
         /\ Has(log, PendingApprovalAction.id, WaitingTypes)
         /\ PendingApprovalAction.kind \in SideEffects
<1> DEFINE asked == Events({"approval_required"}, log)
           n == Newest(asked)
<1>1. asked # {} /\ PendingApprovalAction = log[n].action
  BY DEF OfferedPending, PendingApproval, PendingApprovalAction, Requests
<1>2. Len(log) \in Nat /\ DOMAIN log = 1..Len(log)
      /\ asked \subseteq 1..Len(log)
  BY AtAnyPoint, LogIsCharged DEF Events
<1>3. n \in asked
  <2> HIDE DEF asked
  <2> QED BY <1>1, <1>2, NewestIsLast
<1>4. n \in DOMAIN log /\ log[n].type = "approval_required"
  BY <1>3 DEF Events
<1>5. RequestsOK(log)
  BY DEF IdInv, IdLog
<1> HIDE DEF n
<1>6. log[n].action # NoAction /\ log[n].action.kind \in SideEffects
  BY <1>4, <1>5 DEF RequestsOK, WaitingTypes
<1>7. n \in Of(log, PendingApprovalAction.id, WaitingTypes)
  BY <1>1, <1>4, <1>6 DEF Of, WaitingTypes
<1> QED BY <1>1, <1>4, <1>6, <1>7 DEF Recorded, Has

LEMMA CallReason ==
  ASSUME NEW name, NEW point, NEW a, NEW then, Call(name, point, a, then)
  PROVE  job'.reason = "none"
<1>1. IsJob(Job(name)) /\ Job(name).reason = "none"
  BY NoJobFields
<1> QED BY <1>1 DEF Call, IsJob

LEMMA AnswerIds == Inv /\ IdInv /\ Answer => IdInv'
<1> SUFFICES ASSUME Inv, IdInv, Answer PROVE IdInv'
  OBVIOUS
<1> DEFINE q == run.question
<1>1. PICK answer \in Answers :
        \/ log' = log
        \/ /\ q = PendingInput(log)
           /\ log' = Append(log, [ActionEvent("input_received", q)
                                    EXCEPT !.answer = answer])
  BY DEF Answer
<1> DEFINE e == [ActionEvent("input_received", q) EXCEPT !.answer = answer]
<1>2. q # NoAction /\ Call("answer", "answered", q, "idle")
  BY DEF Answer
<1>3. /\ pc' = "answered" /\ job'.reason = "none" /\ run' = run
      /\ run.checkpoint = 0
  BY <1>2, CallFields, CallReason DEF IdInv
<1>4. LogsEvents(log) /\ IdLog(log)
  BY AtAnyPoint DEF IdInv
<1>5. IdLog(log')
  <2>1. CASE log' = log
    BY <1>4, <2>1
  <2>2. CASE q = PendingInput(log) /\ log' = Append(log, e)
    <3>1. q \in Recorded(log) /\ Has(log, q.id, WaitingTypes)
      BY <1>2, <1>4, <2>2, PendingInputWaits
    <3>2. e.type = "input_received" /\ e.action = q
      BY EventFields
    <3> HIDE DEF e, q
    <3>3. MayLog(log, e)
      BY <3>1, <3>2 DEF MayLog, IsKnown, WaitingTypes
    <3> QED BY <1>4, <2>2, <3>3, IdLogGrows
  <2> QED BY <1>1, <2>1, <2>2
<1>6. ~HoldsState'
  BY <1>3 DEF HoldsState, InLoop, Executes
<1> QED BY <1>3, <1>5, <1>6 DEF IdInv, Executes

LEMMA ApproveIds == Inv /\ IdInv /\ Approve => IdInv'
<1> SUFFICES ASSUME Inv, IdInv, Approve PROVE IdInv'
  OBVIOUS
<1> DEFINE a == PendingApprovalAction
           c == run.checkpoint
           e == [ActionEvent("approval_granted", a) EXCEPT !.checkpoint = c]
           then == IF a.kind = "validate" THEN "validated" ELSE "written"
<1>1. /\ OfferedPending /\ Call("approve", "execute", a, then)
      /\ log' = Append(log, e)
  BY DEF Approve
<1>2. /\ LogsEvents(log) /\ IdLog(log)
      /\ run.question # NoAction => run.checkpoint = 0
  BY AtAnyPoint DEF IdInv
<1>3. a \in Recorded(log) /\ a.kind \in SideEffects
  BY <1>1, PendingRequestWaits
<1>4. then = "written" => IsDecided(a)
  <2>1. SUFFICES ASSUME a.kind # "validate" PROVE IsDecided(a)
    OBVIOUS
  <2>2. IsDecided(a) \/ IsDerived(a)
    BY <1>2, <1>3 DEF IdLog, ActionsOK
  <2>3. IsDiff(a) => a.kind = "inspect_diff"
    BY DEF IsDiff, Read, Action
  <2>4. IsCommand(a) => a.kind = "validate"
    BY DEF IsCommand, Validation, Action
  <2> QED BY <1>3, <2>1, <2>2, <2>3, <2>4 DEF IsDerived, SideEffects
<1>5. then \in {"written", "validated"}
  OBVIOUS
<1>6. e.type = "approval_granted" /\ e.action = a /\ e.checkpoint = c
  BY EventFields
<1> HIDE DEF e, a, then
<1>7. MayLog(log, e)
  BY <1>3, <1>6 DEF MayLog, IsKnown, WaitingTypes
<1>8. IdLog(log') /\ Recorded(log) \subseteq Recorded(log')
  BY <1>1, <1>2, <1>7, IdLogGrows
<1>9. /\ pc' = "execute" /\ job'.action = a /\ job'.then = then
      /\ job'.reason = "none" /\ run' = run
  BY <1>1, CallFields, CallReason
<1>10. IsKnown(log', job'.action)
  BY <1>3, <1>8, <1>9 DEF IsKnown
<1>11. IsSettled(log', run'.checkpoint)
  <2> DEFINE j == Len(log) + 1
  <2>1. j \in DOMAIN log' /\ log'[j] = e
    BY <1>1, <1>2, AppendGrows DEF LogsEvents
  <2> HIDE DEF j
  <2> QED BY <1>6, <1>9, <2>1 DEF IsSettled, Settling
<1>12. ~HoldsState'
  BY <1>5, <1>9 DEF HoldsState, InLoop
<1> QED BY <1>2, <1>4, <1>5, <1>8, <1>9, <1>10, <1>11, <1>12 DEF IdInv

LEMMA RejectIds == Inv /\ IdInv /\ Reject => IdInv'
<1> SUFFICES ASSUME Inv, IdInv, Reject PROVE IdInv'
  OBVIOUS
<1> DEFINE a == PendingApprovalAction
           c == run.checkpoint
           e == [ActionEvent("approval_rejected", a) EXCEPT !.checkpoint = c]
<1>1. /\ pc = "idle" /\ OfferedPending /\ log' = Append(log, e)
      /\ Call("reject", "rejected", NoAction, "idle")
  BY DEF Reject, MayCall
<1>2. /\ LogsEvents(log) /\ IdLog(log) /\ Quiet(log)
      /\ run.question # NoAction => run.checkpoint = 0
  BY <1>1, AtAnyPoint DEF IdInv
<1>3. a \in Recorded(log) /\ Has(log, a.id, WaitingTypes)
  BY <1>1, PendingRequestWaits
<1>4. e.type = "approval_rejected" /\ e.action = a /\ e.checkpoint = c
  BY EventFields
<1> HIDE DEF e, a
<1>5. MayLog(log, e) /\ IsKnown(log, e.action)
  BY <1>3, <1>4 DEF MayLog, IsKnown, WaitingTypes
<1>6. e.type \notin Observations
  BY <1>4 DEF Observations, WaitingTypes, TerminalTypes
<1>7. IdLog(log') /\ Quiet(log')
  BY <1>1, <1>2, <1>5, <1>6, IdLogGrows
<1>8. pc' = "rejected" /\ job'.reason = "none" /\ run' = run
  BY <1>1, CallFields, CallReason
<1>9. IsSettled(log', run'.checkpoint)
  <2> DEFINE j == Len(log) + 1
  <2>1. j \in DOMAIN log' /\ log'[j] = e
    BY <1>1, <1>2, AppendGrows DEF LogsEvents
  <2> HIDE DEF j
  <2> QED BY <1>4, <1>8, <2>1 DEF IsSettled, Settling
<1>10. ~HoldsState'
  BY <1>8 DEF HoldsState, InLoop, Executes
<1> QED BY <1>2, <1>7, <1>8, <1>9, <1>10 DEF IdInv, Executes

LEMMA UserCallIds == Inv /\ IdInv /\ UserCall => IdInv'
BY AnswerIds, ApproveIds, RejectIds, RestoreQuestionIds, CancelIds
DEF UserCall

LEMMA AnsweredIds == Inv /\ IdInv /\ Answered => IdInv'
<1> SUFFICES ASSUME Inv, IdInv, Answered PROVE IdInv'
  OBVIOUS
<1> DEFINE r == Rebuilt(log)
<1>1. /\ pc = "answered" /\ run' = run /\ Resume(log', job.cycle)
      /\ \/ log' = log
         \/ log' = Append(log, Snapshot(r))
         \/ \E id, answer :
              log' = Append(log, Snapshot(RecordAnswer(r, id, answer)))
  BY DEF Answered
<1>2. LogsEvents(log) /\ IdLog(log)
  BY AtAnyPoint DEF IdInv
<1>3. /\ IsState(r)
      /\ \/ r.iteration = Iteration(log) /\ Quiet(log)
         \/ r.iteration > Iteration(log)
  BY <1>2, RebuiltFollows
<1> HIDE DEF r
<1>4. ASSUME NEW s, IsState(s), s.iteration = r.iteration,
             log' = Append(log, Snapshot(s))
      PROVE  IdInv'
  <2>1. IdLog(log')
    BY <1>2, <1>3, <1>4, IdLogRecords
  <2>2. /\ run'.question # NoAction => run'.checkpoint = 0
        /\ run'.checkpoint = 0 \/ IsSettled(log', run'.checkpoint)
    BY <1>1, <1>4, StillSettled
  <2> QED BY <1>1, <2>1, <2>2, ResumeIds
<1>5. CASE log' = log
  <2>1. /\ run'.question # NoAction => run'.checkpoint = 0
        /\ run'.checkpoint = 0 \/ IsSettled(log', run'.checkpoint)
    BY <1>1, <1>5, StillSettled
  <2> QED BY <1>1, <1>2, <1>5, <2>1, ResumeIds
<1>6. CASE log' = Append(log, Snapshot(r))
  BY <1>3, <1>4, <1>6
<1>7. CASE \E id, answer :
             log' = Append(log, Snapshot(RecordAnswer(r, id, answer)))
  BY <1>3, <1>4, <1>7, StatesKeepFields
<1> QED BY <1>1, <1>5, <1>6, <1>7

LEMMA RejectedStateIds == Inv /\ IdInv /\ RejectedState => IdInv'
<1> SUFFICES ASSUME Inv, IdInv, RejectedState PROVE IdInv'
  OBVIOUS
<1> DEFINE s == Stop(LatestState(log), "approval_rejected")
<1>1. pc = "rejected" /\ Fail /\ log' = Append(log, Snapshot(s))
  BY DEF RejectedState
<1>2. LogsEvents(log) /\ IdLog(log) /\ Quiet(log)
  BY <1>1, AtAnyPoint DEF IdInv
<1>3. IsState(LatestState(log))
  BY <1>2, LatestIsState DEF IdLog
<1>4. IsState(s) /\ s.iteration = Iteration(log)
  BY <1>3, StatesKeepFields DEF Iteration
<1> HIDE DEF s
<1>5. IdLog(log')
  BY <1>1, <1>2, <1>4, IdLogRecords
<1> QED BY <1>1, <1>5, FailIds

(* The state after an observation that the last snapshot does not have.    *)
LEMMA NextIsState ==
  ASSUME Inv, IdInv, NEW a, NEW obs,
         NEW s, s = Advance(LatestState(log), a, obs, NoUpdate)
  PROVE  /\ LogsEvents(log) /\ IdLog(log)
         /\ IsState(s) /\ s.iteration > Iteration(log)
<1>1. LogsEvents(log) /\ IdLog(log)
  BY AtAnyPoint DEF IdInv
<1>2. IsState(LatestState(log)) /\ Iteration(log) \in Nat
  BY <1>1, LatestIsState DEF IdLog
<1>3. IsState(s) /\ s.iteration = Iteration(log) + 1
  BY <1>2, AdvanceCounts DEF Iteration
<1> QED BY <1>1, <1>2, <1>3

LEMMA AppendToPair ==
  ASSUME NEW x, NEW y, NEW z
  PROVE  Append(<<x, y>>, z) = <<x, y, z>>
<1> DEFINE s == <<x, y>>
           t == Append(s, z)
<1>1. s \in Seq({x, y}) /\ Len(s) = 2 /\ s[1] = x /\ s[2] = y
      /\ DOMAIN s = 1..2
  OBVIOUS
<1> HIDE DEF s
<1>2. IsLog(s)
  <2>1. {s[i] : i \in DOMAIN s} = {x, y}
    BY <1>1
  <2> QED BY <1>1, <2>1 DEF IsLog
<1>3. /\ IsLog(t) /\ Len(t) = Len(s) + 1 /\ DOMAIN t = 1..(Len(s) + 1)
      /\ \A i \in 1..Len(s) : t[i] = s[i]
      /\ t[Len(s) + 1] = z
  BY <1>2, AppendGrows
<1> HIDE DEF t
<1>4. t = <<x, y, z>>
  BY <1>1, <1>3 DEF IsLog
<1> QED BY <1>4 DEF s, t

(* The diff of a write has the number of the write.                        *)
LEMMA DiffOfWrite ==
  ASSUME NEW a, IsDecided(a),
         NEW diff, diff = Read(Append(a.id, "diff"), "inspect_diff", 1)
  PROVE  /\ IsDiff(diff) /\ diff.kind = "inspect_diff"
         /\ Number(diff) = Number(a)
<1> DEFINE n == Number(a)
           id == Append(a.id, "diff")
<1>1. a.id = <<"explore", n>>
  BY DEF IsDecided
<1> HIDE DEF n
<1>2. id = <<"explore", n, "diff">>
  BY <1>1, AppendToPair
<1> HIDE DEF id
<1>3. diff = Read(id, "inspect_diff", 1) /\ Number(diff) = id[2]
      /\ diff.kind = "inspect_diff"
  BY DEF id, Read, Action, Number
<1>4. Number(diff) = n
  BY <1>2, <1>3
<1> QED BY <1>2, <1>3, <1>4 DEF IsDiff, n

LEMMA WrittenIds == Inv /\ IdInv /\ Written => IdInv'
<1> SUFFICES ASSUME Inv, IdInv, Written PROVE IdInv'
  OBVIOUS
<1> DEFINE a == job.action
           state == Advance(LatestState(log), a, job.obs, NoUpdate)
           after == PostWrite(state, a.id, job.obs.changed, Commands)
           stopped == Stop(state, "approval_required")
           diff == Read(Append(a.id, "diff"), "inspect_diff", 1)
<1>1. pc = "written" /\ IsDecided(a) /\ job.reason = "none"
  BY DEF Written, IdInv
<1>2. /\ LogsEvents(log) /\ IdLog(log)
      /\ IsState(state) /\ state.iteration > Iteration(log)
  BY NextIsState
<1>3. CASE job.obs.status = "approval_required"
  <2>1. Return(log') /\ log' = Append(log, Snapshot(stopped))
    BY <1>3 DEF Written, SuccessStatuses
  <2> HIDE DEF state
  <2>2. IsState(stopped) /\ stopped.iteration > Iteration(log)
    BY <1>2, StatesKeepFields
  <2> HIDE DEF stopped
  <2>3. IdLog(log') /\ Quiet(log')
    BY <1>2, <2>1, <2>2, IdLogRecords
  <2> QED BY <2>1, <2>3, ReturnIds
<1>4. CASE job.obs.status \in SuccessStatuses
  <2>1. /\ log' = Append(log, Snapshot(after)) /\ pc' = "execute"
        /\ job' = [job EXCEPT !.action = diff, !.then = "diffed",
                              !.state = after]
        /\ run' = run
    BY <1>4 DEF Written, SuccessStatuses
  <2> HIDE DEF state
  <2>2. IsState(after) /\ after.iteration > Iteration(log)
    BY <1>2, StatesKeepFields
  <2> HIDE DEF after
  <2>3. IdLog(log') /\ Iteration(log') = after.iteration
    BY <1>2, <2>1, <2>2, IdLogRecords
  <2>4. IsDiff(diff)
    BY <1>1, DiffOfWrite
  <2> HIDE DEF diff
  <2>5. /\ job'.state = after /\ job'.reason = job.reason
        /\ job'.action = diff /\ job'.then = "diffed"
    BY <2>1, AtAnyPoint DEF IsJob
  <2>6. /\ run'.question # NoAction => run'.checkpoint = 0
        /\ run'.checkpoint = 0 \/ IsSettled(log', run'.checkpoint)
    BY <1>1, <2>1, StillSettled
  <2>7. IsKnown(log', job'.action)
    BY <2>4, <2>5 DEF IsKnown, IsDerived
  <2> QED BY <1>1, <2>1, <2>2, <2>3, <2>5, <2>6, <2>7 DEF IdInv
<1>5. CASE job.obs.status \notin SuccessStatuses \union {"approval_required"}
  <2>1. Reset /\ UNCHANGED <<log, run>>
    BY <1>5 DEF Written
  <2> QED BY <1>1, <2>1, QuitIds
<1> QED BY <1>3, <1>4, <1>5

LEMMA DiffedIds == Inv /\ IdInv /\ Diffed => IdInv'
<1> SUFFICES ASSUME Inv, IdInv, Diffed PROVE IdInv'
  OBVIOUS
<1> DEFINE s == Advance(job.state, job.action, job.obs, NoUpdate)
<1>1. /\ pc = "diffed" /\ pc' = "close" /\ run' = run
      /\ log' = Append(log, Snapshot(s)) /\ job' = [job EXCEPT !.state = s]
  BY DEF Diffed
<1>2. /\ LogsEvents(log) /\ IdLog(log) /\ job.reason = "none"
      /\ IsState(job.state) /\ job.state.iteration = Iteration(log)
  BY <1>1, AtAnyPoint DEF IdInv, HoldsState
<1>3. IsState(s) /\ s.iteration > Iteration(log)
  BY <1>2, AdvanceCounts DEF IsState
<1> HIDE DEF s
<1>4. /\ IdLog(log') /\ Iteration(log') = s.iteration
      /\ Ahead(log') = {}
  BY <1>1, <1>2, <1>3, IdLogRecords
<1>5. job'.state = s /\ job'.reason = job.reason
  BY <1>1, AtAnyPoint DEF IsJob
<1>6. /\ run'.question # NoAction => run'.checkpoint = 0
      /\ run'.checkpoint = 0 \/ IsSettled(log', run'.checkpoint)
  BY <1>1, StillSettled
<1> QED BY <1>1, <1>2, <1>3, <1>4, <1>5, <1>6 DEF IdInv, Executes

LEMMA RequestNextIds ==
  ASSUME Inv, IdInv, pc \notin {"idle", "end"}, NEW cycle, RequestNext(cycle),
         NEW s, log' = Append(log, Snapshot(s)), IdLog(log')
  PROVE  IdInv'
<1> DEFINE a == Validation(cycle.write, cycle.next)
<1>1. /\ pc' = "execute" /\ run' = run
      /\ job' = [job EXCEPT !.action = a, !.then = "requested",
                            !.cycle = cycle]
  BY DEF RequestNext
<1>2. IsCommand(a)
  BY DEF IsCommand, Validation, Action, Number
<1> HIDE DEF a
<1>3. /\ job'.action = a /\ job'.then = "requested"
      /\ job'.reason = job.reason
  BY <1>1, AtAnyPoint DEF IsJob
<1>4. IsKnown(log', job'.action)
  BY <1>2, <1>3 DEF IsKnown, IsDerived
<1>5. /\ run'.question # NoAction => run'.checkpoint = 0
      /\ run'.checkpoint = 0 \/ IsSettled(log', run'.checkpoint)
  BY <1>1, StillSettled
<1>6. ~HoldsState' /\ job.reason = "none"
  BY <1>1, <1>3 DEF HoldsState, InLoop, IdInv
<1> QED BY <1>1, <1>3, <1>4, <1>5, <1>6 DEF IdInv

LEMMA CloseWriteIds == Inv /\ IdInv /\ CloseWrite => IdInv'
<1> SUFFICES ASSUME Inv, IdInv, CloseWrite PROVE IdInv'
  OBVIOUS
<1> DEFINE s == Stop(job.state, "write_complete")
<1>1. /\ pc = "close" /\ log' = Append(log, Snapshot(s))
      /\ \/ Fail
         \/ RequestNext([write |-> job.action.id[2], next |-> 1])
  BY DEF CloseWrite
<1>2. /\ LogsEvents(log) /\ IdLog(log) /\ Quiet(log)
      /\ IsState(job.state) /\ job.state.iteration = Iteration(log)
  BY <1>1, AtAnyPoint DEF IdInv, HoldsState, Quiet
<1>3. IsState(s) /\ s.iteration = Iteration(log)
  BY <1>2, StatesKeepFields
<1> HIDE DEF s
<1>4. IdLog(log')
  BY <1>1, <1>2, <1>3, IdLogRecords
<1>5. CASE Fail
  BY <1>4, <1>5, FailIds
<1>6. CASE RequestNext([write |-> job.action.id[2], next |-> 1])
  BY <1>1, <1>4, <1>6, RequestNextIds
<1> QED BY <1>1, <1>5, <1>6

LEMMA RequestedIds == Inv /\ IdInv /\ Requested => IdInv'
<1> SUFFICES ASSUME Inv, IdInv, Requested PROVE IdInv'
  OBVIOUS
<1> DEFINE state == Advance(LatestState(log), job.action, job.obs, NoUpdate)
           s == Stop(state, "approval_required")
<1>1. \/ Return(log') /\ log' = Append(log, Snapshot(s))
      \/ Fail /\ log' = log
  BY DEF Requested
<1>2. /\ LogsEvents(log) /\ IdLog(log)
      /\ IsState(state) /\ state.iteration > Iteration(log)
  BY NextIsState
<1> HIDE DEF state
<1>3. IsState(s) /\ s.iteration > Iteration(log)
  BY <1>2, StatesKeepFields
<1> HIDE DEF s
<1>4. CASE Return(log') /\ log' = Append(log, Snapshot(s))
  <2>1. IdLog(log') /\ Quiet(log')
    BY <1>2, <1>3, <1>4, IdLogRecords
  <2> QED BY <1>4, <2>1, ReturnIds
<1>5. CASE Fail /\ log' = log
  BY <1>2, <1>5, FailIds
<1> QED BY <1>1, <1>4, <1>5

LEMMA ValidatedIds == Inv /\ IdInv /\ Validated => IdInv'
<1> SUFFICES ASSUME Inv, IdInv, Validated PROVE IdInv'
  OBVIOUS
<1> DEFINE s == Advance(LatestState(log), job.action, job.obs, NoUpdate)
           cycle == [job.cycle EXCEPT !.next = @ + 1]
<1>1. /\ pc = "validated" /\ log' = Append(log, Snapshot(s))
      /\ \/ RequestNext(cycle)
         \/ /\ pc' = "observed" /\ run' = run
            /\ job' = [job EXCEPT !.cycle.next = 0]
  BY DEF Validated
<1>2. /\ LogsEvents(log) /\ IdLog(log)
      /\ IsState(s) /\ s.iteration > Iteration(log)
  BY NextIsState
<1> HIDE DEF s, cycle
<1>3. IdLog(log') /\ Ahead(log') = {}
  BY <1>1, <1>2, IdLogRecords
<1>4. CASE RequestNext(cycle)
  BY <1>1, <1>3, <1>4, RequestNextIds
<1>5. CASE /\ pc' = "observed" /\ run' = run
           /\ job' = [job EXCEPT !.cycle.next = 0]
  <2>1. job'.reason = job.reason /\ job.reason = "none"
    BY <1>1, <1>5, AtAnyPoint DEF IsJob, IdInv
  <2>2. /\ run'.question # NoAction => run'.checkpoint = 0
        /\ run'.checkpoint = 0 \/ IsSettled(log', run'.checkpoint)
    BY <1>1, <1>5, StillSettled
  <2>3. ~HoldsState'
    BY <1>5 DEF HoldsState, InLoop, Executes
  <2> QED BY <1>3, <1>5, <2>1, <2>2, <2>3 DEF IdInv, Executes
<1> QED BY <1>1, <1>4, <1>5

LEMMA ObservedIds == Inv /\ IdInv /\ Observed => IdInv'
<1> SUFFICES ASSUME Inv, IdInv, Observed PROVE IdInv'
  OBVIOUS
<1> DEFINE s == Stop(LatestState(log), "repair_stopped")
<1>1. /\ pc = "observed"
      /\ \/ Fail /\ log' \in {log, Append(log, Snapshot(s))}
         \/ Resume(log', job.cycle) /\ UNCHANGED <<log, run>>
  BY DEF Observed
<1>2. LogsEvents(log) /\ IdLog(log) /\ Quiet(log)
  BY <1>1, AtAnyPoint DEF IdInv, Quiet
<1>3. IsState(LatestState(log))
  BY <1>2, LatestIsState DEF IdLog
<1>4. IsState(s) /\ s.iteration = Iteration(log)
  BY <1>3, StatesKeepFields DEF Iteration
<1> HIDE DEF s
<1>5. CASE Fail /\ log' \in {log, Append(log, Snapshot(s))}
  <2>1. CASE log' = log
    BY <1>2, <1>5, <2>1, FailIds
  <2>2. CASE log' = Append(log, Snapshot(s))
    <3>1. IdLog(log')
      BY <1>2, <1>4, <2>2, IdLogRecords
    <3> QED BY <1>5, <3>1, FailIds
  <2> QED BY <1>5, <2>1, <2>2
<1>6. CASE Resume(log', job.cycle) /\ UNCHANGED <<log, run>>
  <2>1. /\ run'.question # NoAction => run'.checkpoint = 0
        /\ run'.checkpoint = 0 \/ IsSettled(log', run'.checkpoint)
    BY <1>1, <1>6, StillSettled
  <2> QED BY <1>2, <1>6, <2>1, ResumeIds
<1> QED BY <1>1, <1>5, <1>6

LEMMA ContinueIds == Inv /\ IdInv /\ Continue => IdInv'
BY AnsweredIds, RejectedStateIds, WrittenIds, DiffedIds, CloseWriteIds,
   RequestedIds, ValidatedIds, ObservedIds DEF Continue

LEMMA CrashIds == Inv /\ IdInv /\ Crash => IdInv'
BY QuitIds DEF Crash

LEMMA SameIds ==
  ASSUME IdInv, UNCHANGED <<log, run, pc, job>>
  PROVE  IdInv'
BY DEF IdInv, HoldsState, InLoop, OfferedPending

LEMMA InitIds == Init => IdInv
<1> SUFFICES ASSUME Init PROVE IdInv
  OBVIOUS
<1>1. /\ log = <<>> /\ pc = "idle" /\ job = NoJob
      /\ run = [checkpoint |-> 0, question |-> NoAction, cycle |-> NoCycle]
  BY DEF Init
<1>2. Recorded(log) = {} /\ DOMAIN log = {}
  BY <1>1 DEF Recorded
<1>3. IdLog(log)
  BY <1>2 DEF IdLog, ActionsOK, SnapshotsOK, AheadOK, RequestsOK, Ahead
<1>4. job.reason = "none" /\ run.checkpoint = 0
  BY <1>1, NoJobFields DEF NoJob
<1>5. ~HoldsState /\ ~OfferedPending
  BY <1>1, <1>4 DEF HoldsState, InLoop, Executes, OfferedPending
<1> QED BY <1>1, <1>3, <1>4, <1>5 DEF IdInv, Executes

LEMMA NextIds == Inv /\ IdInv /\ [Next]_vars => IdInv'
<1> SUFFICES ASSUME Inv, IdInv, [Next]_vars PROVE IdInv'
  OBVIOUS
<1>1. CASE Progress
  BY <1>1, ExecuteStepIds, LoopStepIds, ContinueIds DEF Progress
<1>2. CASE StartLoop \/ ResumeLoop \/ UserCall \/ Crash
  BY <1>2, StartLoopIds, ResumeLoopIds, UserCallIds, CrashIds
<1>3. CASE OutsideEdit
  BY <1>3, SameIds DEF OutsideEdit
<1>4. CASE UNCHANGED vars
  BY <1>4, SameIds DEF vars
<1> QED BY <1>1, <1>2, <1>3, <1>4 DEF Next

LEMMA IdInvHolds == Spec => [](Inv /\ IdInv)
<1>1. Init => Inv /\ IdInv
  BY InitHolds, InitIds
<1>2. Inv /\ IdInv /\ [Next]_vars => (Inv /\ IdInv)'
  BY NextKeeps, NextIds
<1> QED BY <1>1, <1>2, PTL DEF Spec

-----------------------------------------------------------------------------
(* Theorems.                                                               *)

(* An action of the run never shares its id, and with it its reservation,  *)
(* with another one: the number of a decision is one more than the         *)
(* iterations that the log counts, also after a crash between its events   *)
(* (action_id=f"explore-{step}" in agent_loop.py).                         *)
THEOREM ActionIdsStayFresh == Spec => []ActionIdsAreFresh
<1>1. IdInv => ActionIdsAreFresh
  BY DEF IdInv, IdLog, ActionsOK, ActionIdsAreFresh, Recorded
<1> QED BY <1>1, IdInvHolds, PTL

(* What the finish gate admitted is what the loop leaves: the observation  *)
(* of a finish action changes neither plan, nor criteria, nor edits.       *)
LEMMA FinishKeepsReady ==
  ASSUME NEW s, IsState(s), NEW u, CompletionReady(ApplyUpdate(s, u)),
         NEW a, a.kind = "finish", NEW obs
  PROVE  CompletionReady(Advance(s, a, obs, u))
<1> DEFINE t == ApplyUpdate(s, u)
           after == Advance(s, a, obs, u)
<1>1. IsState(t)
  BY StatesKeepFields
<1>2. AdvanceCriteria(t.criteria, a, obs) = t.criteria
  BY DEF AdvanceCriteria
<1>3. AdvanceEdits(t.edits, a, obs) = t.edits
  BY DEF AdvanceEdits, WriteKinds
<1>4. \E status, stop, n, recent :
        after = [t EXCEPT !.status = status, !.stop = stop, !.iteration = n,
                          !.criteria = AdvanceCriteria(t.criteria, a, obs),
                          !.edits = AdvanceEdits(t.edits, a, obs),
                          !.recent = recent]
  BY DEF Advance
<1>5. CompletionReady(t)
  OBVIOUS
<1> HIDE DEF t, after
<1>6. /\ after.plan = t.plan /\ after.criteria = t.criteria
      /\ after.edits = t.edits
  BY <1>1, <1>2, <1>3, <1>4 DEF IsState, StateFields
<1>7. Blockers(after) = Blockers(t)
  BY <1>6 DEF Blockers
<1>8. CompletionReady(after)
  BY <1>5, <1>7 DEF CompletionReady
<1> QED BY <1>8 DEF after

LEMMA OnlyAdvances ==
  ASSUME pc = "advance", [Next]_vars
  PROVE  AdvanceState \/ job' = job \/ job' = NoJob
<1>1. CASE Execute
  BY <1>1 DEF Execute, AuthorizeRead, Ask, AuthorizeSideEffect, Reserve,
              Start, Tool, Complete, Report, Executing
<1>2. CASE Loop
  BY <1>2 DEF Loop, Reconcile, Recover, ResumePending, Resumed, EnterLoop,
              Decide, DecisionFails, LimitReached, Gate, EndLoop
<1>3. CASE Continue
  BY <1>3 DEF Continue, Answered, RejectedState, Written, Diffed, CloseWrite,
              Requested, Validated, Observed
<1>4. CASE StartLoop \/ ResumeLoop \/ UserCall
  BY <1>4 DEF StartLoop, ResumeLoop, UserCall, Answer, Approve, Reject,
              RestoreQuestion, Cancel, MayCall
<1>5. CASE Crash \/ OutsideEdit \/ UNCHANGED vars
  BY <1>5 DEF Crash, Reset, OutsideEdit, vars
<1> QED BY <1>1, <1>2, <1>3, <1>4, <1>5 DEF Next, Progress

(* When the loop ends as finished by its own decision, plan, required      *)
(* criteria and virtual edits of the state it leaves block nothing: the    *)
(* gate looked at the state after the decision's update, and no point      *)
(* between the gate and the end lets that state change.                    *)
THEOREM FinishesAreReady == Spec => LoopFinishIsReady
<1>1. Inv /\ IdInv /\ [Next]_vars =>
        [(pc = "advance" /\ job'.reason = "finished") =>
           CompletionReady(job'.state)]_vars
  <2> SUFFICES ASSUME Inv, IdInv, [Next]_vars, pc = "advance",
                      job'.reason = "finished"
               PROVE  CompletionReady(job'.state)
    OBVIOUS
  <2> DEFINE s == Advance(job.state, job.action, job.obs, job.update)
             a == job.action
  <2>1. job.reason # "finished" /\ IsState(job.state)
    BY DEF IdInv, HoldsState, InLoop
  <2>2. NoJob.reason # "finished"
    BY NoJobFields DEF NoJob
  <2>3. AdvanceState
    BY <2>1, <2>2, OnlyAdvances
  <2>4. a.kind = "finish" /\ job.obs.status = "completed" /\ job'.state = s
    <3> DEFINE repeated == RepeatedRepair(a)
               reason == CASE repeated -> "repeated_proposal"
                           [] ~repeated /\ job.obs.status \in StoppingStatuses
                                -> job.obs.status
                           [] ~repeated /\ a.kind = "finish" /\
                              job.obs.status = "completed" -> "finished"
                           [] OTHER -> "none"
    <3>1. job' = [job EXCEPT !.state = s, !.reason = reason,
                             !.step = @ + 1, !.action = NoAction,
                             !.update = NoUpdate, !.obs = NoObs]
      BY <2>3 DEF AdvanceState
    <3> HIDE DEF s, reason
    <3>2. job'.reason = reason /\ job'.state = s
      BY <3>1, AtAnyPoint DEF IsJob
    <3>3. reason = "finished"
      BY <3>2
    <3>4. a.kind = "finish" /\ job.obs.status = "completed"
      BY <3>3 DEF reason, StoppingStatuses
    <3> QED BY <3>2, <3>4
  <2>5. CompletionReady(ApplyUpdate(job.state, job.update))
    BY <2>4 DEF Inv, GateInv
  <2> QED BY <2>1, <2>4, <2>5, FinishKeepsReady
<1> QED BY <1>1, IdInvHolds, PTL DEF Spec, LoopFinishIsReady
=============================================================================
