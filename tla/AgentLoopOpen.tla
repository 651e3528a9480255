--------------------------- MODULE AgentLoopOpen ---------------------------
(***************************************************************************)
(* Theorem of AgentLoop for every value of its constants: of the actions   *)
(* of a run at most one is open, and a request that waits for an answer is *)
(* about it.                                                               *)
(*                                                                         *)
(* Recovery reads the log as if only its last action could be open         *)
(* (analyze_runtime_recovery, pending_approval).  The loop sees to that by *)
(* the order of its steps: a decision is only recorded where nothing is    *)
(* open, a request is only made for the action a call is executing, and    *)
(* what a resume finds open it executes, answers or waits for.  OpenInv    *)
(* says for each point of a call what may be open there.                   *)
(***************************************************************************)
EXTENDS AgentLoopRecovery

-----------------------------------------------------------------------------
(* The statuses with which an action waits for the user.                   *)
Asks == {"approval_required", "input_required", "recovery_required"}
(* The action of the latest approval request.                              *)
Asked(l) == l[Newest(Events({"approval_required"}, l))].action

(* At most one action is open, and a pending request is about no other.    *)
OpenLog(l) ==
  /\ \A x, y \in Unresolved(l) : x = y
  /\ PendingApproval(l) # 0 => Unresolved(l) \subseteq {Asked(l).id}
NothingOpen(l) == Unresolved(l) = {} /\ PendingApproval(l) = 0

(* Where a loop decides nothing is open; a call that executes an action    *)
(* may find this one open, and its request pending only when it resumes    *)
(* it; an execution that does not ask closes it.                           *)
OpenInv ==
  /\ OpenLog(log)
  /\ pc \in {"step", "close"} => NothingOpen(log)
  /\ pc \in Executes \union {"gate"} =>
       /\ Unresolved(log) \subseteq {job.action.id}
       /\ PendingApproval(log) # 0 =>
            pc # "gate" /\ job.then = "resumed" /\ Asked(log).id = job.action.id
  /\ (pc \in ReturnsTo /\ job.obs.status \notin Asks) =>
       /\ Unresolved(log) = {}
       /\ pc # "resumed" => PendingApproval(log) = 0
  /\ pc = "wait" => \/ Unresolved(log) = {}
                    \/ NextStep(log) \notin {"execute_pending",
                                             "retry_read_only"}
  /\ pc = "ask" => job.action.kind = "ask_user"
  /\ (pc \in Executes /\ job.then = "diffed") => job.action.kind = "inspect_diff"
  /\ pc = "diffed" => job.obs.status \notin Asks

-----------------------------------------------------------------------------
(* How an event changes what is open.                                      *)

LEMMA UnresolvedGrows ==
  ASSUME NEW l, LogsEvents(l), NEW e
  PROVE  LET m == Append(l, e)
         IN  /\ e.action = NoAction => Unresolved(m) = Unresolved(l)
             /\ Unresolved(m) \subseteq Unresolved(l) \union {e.action.id}
             /\ e.action \in Recorded(l) \union {NoAction} =>
                  Unresolved(m) \subseteq Unresolved(l)
             /\ (/\ e.action # NoAction
                 /\ \/ e.type \in TerminalTypes
                    \/ e.type \in {"input_received", "approval_rejected"}) =>
                  e.action.id \notin Unresolved(m)
<1> DEFINE m == Append(l, e)
           answers == {"input_received", "approval_rejected"}
<1>1. \A id, types :
        Of(m, id, types) = Of(l, id, types) \union
          (IF e.action # NoAction /\ e.action.id = id /\ e.type \in types
           THEN {Len(l) + 1} ELSE {})
  BY OfGrows
<1>2. Recorded(m) = Recorded(l) \union ({e.action} \ {NoAction})
  BY OfGrows
<1> HIDE DEF m
<1>3. \A k : Tracked(k) = {a.id : a \in Recorded(k)}
  BY DEF Tracked, Recorded
<1>4. Tracked(m) \subseteq Tracked(l) \union {e.action.id}
  BY <1>2, <1>3
<1>5. e.action \in Recorded(l) \union {NoAction} => Tracked(m) = Tracked(l)
  BY <1>2, <1>3
<1>6. \A id, types : Has(l, id, types) => Has(m, id, types)
  BY <1>1 DEF Has
<1>7. \A id, types : e.action = NoAction => Has(m, id, types) = Has(l, id, types)
  BY <1>1 DEF Has
<1>8. Unresolved(m) \subseteq Unresolved(l) \union {e.action.id}
  BY <1>4, <1>6 DEF Unresolved
<1>9. e.action \in Recorded(l) \union {NoAction} =>
        Unresolved(m) \subseteq Unresolved(l)
  BY <1>5, <1>6 DEF Unresolved
<1>10. e.action = NoAction => Unresolved(m) = Unresolved(l)
  BY <1>5, <1>7 DEF Unresolved
<1>11. ASSUME e.action # NoAction,
              e.type \in TerminalTypes \/ e.type \in answers
       PROVE  e.action.id \notin Unresolved(m)
  <2>1. \A types : e.type \in types => Has(m, e.action.id, types)
    BY <1>1, <1>11 DEF Has
  <2>2. CASE e.type \in TerminalTypes
    BY <2>1, <2>2 DEF Unresolved
  <2>3. CASE e.type \in answers
    <3>1. Has(m, e.action.id, answers)
      BY <2>1, <2>3
    <3> QED BY <3>1 DEF Unresolved
  <2> QED BY <1>11, <2>2, <2>3
<1> QED BY <1>8, <1>9, <1>10, <1>11 DEF m

(* The events of some types after an event of another type.                *)
LEMMA EventsKept ==
  ASSUME NEW l, LogsEvents(l), NEW e, NEW types
  PROVE  LET m == Append(l, e)
         IN  /\ Events(types, l) \subseteq 1..Len(l)
             /\ e.type \notin types => Events(types, m) = Events(types, l)
             /\ e.type \in types =>
                  Events(types, m) = Events(types, l) \union {Len(l) + 1}
             /\ \A i \in 1..Len(l) : m[i] = l[i]
             /\ m[Len(l) + 1] = e /\ Len(l) \in Nat
<1> DEFINE m == Append(l, e)
           n == Len(l)
<1>1. /\ n \in Nat /\ DOMAIN l = 1..n /\ DOMAIN m = 1..(n + 1)
      /\ \A i \in 1..n : m[i] = l[i]
      /\ m[n + 1] = e
  BY AppendGrows DEF LogsEvents
<1> HIDE DEF m, n
<1>2. 1..(n + 1) = 1..n \union {n + 1} /\ n + 1 \notin 1..n
  BY <1>1
<1>3. Events(types, l) \subseteq 1..n
  BY <1>1 DEF Events
<1>4. e.type \notin types => Events(types, m) = Events(types, l)
  BY <1>1, <1>2 DEF Events
<1>5. e.type \in types => Events(types, m) = Events(types, l) \union {n + 1}
  BY <1>1, <1>2 DEF Events
<1> QED BY <1>1, <1>3, <1>4, <1>5 DEF m, n

LEMMA PendingApprovalKept ==
  ASSUME NEW l, LogsEvents(l), NEW e,
         e.type \notin {"approval_required", "approval_granted",
                        "approval_rejected"}
  PROVE  LET m == Append(l, e)
         IN  /\ PendingApproval(m) = PendingApproval(l)
             /\ PendingApproval(l) # 0 => Asked(m) = Asked(l)
<1> DEFINE m == Append(l, e)
           asked(k) == Events({"approval_required"}, k)
           settled(k) == Events({"approval_granted", "approval_rejected"}, k)
<1>1. /\ asked(l) \subseteq 1..Len(l) /\ asked(m) = asked(l)
      /\ settled(l) \subseteq 1..Len(l) /\ settled(m) = settled(l)
      /\ \A i \in 1..Len(l) : m[i] = l[i]
      /\ Len(l) \in Nat
  <2>1. /\ e.type \notin {"approval_required"}
        /\ e.type \notin {"approval_granted", "approval_rejected"}
    OBVIOUS
  <2>2. asked(l) \subseteq 1..Len(l) /\ asked(m) = asked(l)
    BY <2>1, EventsKept
  <2>3. settled(l) \subseteq 1..Len(l) /\ settled(m) = settled(l)
    BY <2>1, EventsKept
  <2> QED BY <2>2, <2>3, EventsKept
<1> HIDE DEF m, asked, settled
<1>2. CASE asked(l) = {}
  <2>1. PendingApproval(l) = 0 /\ PendingApproval(m) = 0
    BY <1>1, <1>2 DEF PendingApproval, asked
  <2> QED BY <2>1 DEF m
<1>3. CASE asked(l) # {}
  <2>1. Newest(asked(l)) \in 1..Len(l) /\ Newest(asked(m)) = Newest(asked(l))
    BY <1>1, <1>3, NewestIsLast
  <2>2. m[Newest(asked(m))] = l[Newest(asked(l))]
    BY <1>1, <2>1
  <2>3. Asked(m) = Asked(l)
    BY <2>2 DEF Asked, asked
  <2>4. (\E i \in settled(m) : /\ i > Newest(asked(m))
                               /\ m[i].checkpoint =
                                    m[Newest(asked(m))].checkpoint)
        <=> (\E i \in settled(l) : /\ i > Newest(asked(l))
                                   /\ l[i].checkpoint =
                                        l[Newest(asked(l))].checkpoint)
    BY <1>1, <2>1, <2>2
  <2>5. PendingApproval(m) = PendingApproval(l)
    BY <1>1, <1>3, <2>1, <2>2, <2>4 DEF PendingApproval, asked, settled
  <2> QED BY <2>3, <2>5 DEF m
<1> QED BY <1>2, <1>3

(* A grant or a rejection of the pending request settles it.               *)
LEMMA PendingIsSettled ==
  ASSUME NEW l, LogsEvents(l), PendingApproval(l) # 0, NEW e,
         e.type \in Settling, e.checkpoint = PendingApproval(l)
  PROVE  PendingApproval(Append(l, e)) = 0
<1> DEFINE m == Append(l, e)
           n == Len(l)
           asked(k) == Events({"approval_required"}, k)
           settled(k) == Events({"approval_granted", "approval_rejected"}, k)
<1>1. /\ asked(l) \subseteq 1..n /\ asked(m) = asked(l)
      /\ settled(m) = settled(l) \union {n + 1}
      /\ \A i \in 1..n : m[i] = l[i]
      /\ m[n + 1] = e /\ n \in Nat
  BY EventsKept DEF Settling
<1> HIDE DEF m, n, asked, settled
<1>2. asked(l) # {}
  BY DEF PendingApproval, asked
<1>3. Newest(asked(l)) \in 1..n
  BY <1>1, <1>2, NewestIsLast
<1>4. l[Newest(asked(l))].checkpoint = PendingApproval(l)
  BY <1>2 DEF PendingApproval, asked
<1>5. m[Newest(asked(m))].checkpoint = PendingApproval(l)
  BY <1>1, <1>3, <1>4
<1>6. n + 1 \in settled(m) /\ n + 1 > Newest(asked(m))
      /\ m[n + 1].checkpoint = m[Newest(asked(m))].checkpoint
  BY <1>1, <1>3, <1>5
<1>7. PendingApproval(m) = 0
  BY <1>6 DEF PendingApproval, asked, settled
<1> QED BY <1>7 DEF m

(* The latest request is the one that was asked.                           *)
LEMMA RequestIsAsked ==
  ASSUME NEW l, LogsEvents(l), NEW e, e.type = "approval_required"
  PROVE  Asked(Append(l, e)) = e.action
<1> DEFINE m == Append(l, e)
           n == Len(l)
           asked(k) == Events({"approval_required"}, k)
<1>1. /\ asked(l) \subseteq 1..n
      /\ asked(m) = asked(l) \union {n + 1}
      /\ m[n + 1] = e /\ n \in Nat
  BY EventsKept
<1> HIDE DEF m, n, asked
<1>2. Newest(asked(m)) \in asked(m) /\ Newest(asked(m)) <= n + 1
      /\ n + 1 <= Newest(asked(m))
  BY <1>1, NewestIsLast
<1>3. Newest(asked(m)) = n + 1
  BY <1>1, <1>2
<1> QED BY <1>1, <1>3 DEF Asked, asked, m

-----------------------------------------------------------------------------
(* How a step keeps the invariant.                                         *)

LEMMA SnapshotOpens ==
  ASSUME Inv, NEW s, log' \in {log, Append(log, Snapshot(s))}
  PROVE  /\ Unresolved(log') = Unresolved(log)
         /\ PendingApproval(log') = PendingApproval(log)
         /\ PendingApproval(log) # 0 => Asked(log') = Asked(log)
<1>1. LogsEvents(log)
  BY AtAnyPoint
<1>2. Snapshot(s).action = NoAction /\ Snapshot(s).type = "working_state_updated"
  BY EventFields
<1>3. /\ Unresolved(Append(log, Snapshot(s))) = Unresolved(log)
      /\ PendingApproval(Append(log, Snapshot(s))) = PendingApproval(log)
      /\ PendingApproval(log) # 0 =>
           Asked(Append(log, Snapshot(s))) = Asked(log)
  BY <1>1, <1>2, UnresolvedGrows, PendingApprovalKept
<1>4. CASE log' = log
  BY <1>4
<1>5. CASE log' = Append(log, Snapshot(s))
  BY <1>3, <1>5
<1> QED BY <1>4, <1>5

(* A step that records a state, or nothing, and does not execute next.     *)
LEMMA RestOpens ==
  ASSUME Inv, OpenInv, NEW s, log' \in {log, Append(log, Snapshot(s))},
         pc' \notin Executes \union ReturnsTo \union {"gate", "wait"},
         pc' \in {"step", "close"} => NothingOpen(log)
  PROVE  OpenInv'
<1>1. /\ Unresolved(log') = Unresolved(log)
      /\ PendingApproval(log') = PendingApproval(log)
      /\ PendingApproval(log) # 0 => Asked(log') = Asked(log)
  BY SnapshotOpens
<1>2. OpenLog(log')
  BY <1>1 DEF OpenInv, OpenLog
<1>3. pc' \notin Executes /\ pc' \notin ReturnsTo
      /\ pc' \notin {"gate", "wait", "ask", "diffed"}
  BY DEF Executes, ReturnsTo
<1>4. pc' \in {"step", "close"} => NothingOpen(log')
  BY <1>1 DEF NothingOpen
<1> QED BY <1>2, <1>3, <1>4 DEF OpenInv

(* An event of the action in execution, which is not about its approval.   *)
LEMMA ActionOpens ==
  ASSUME Inv, OpenInv, pc \in Executes \union {"gate"}, NEW e,
         log' = Append(log, e), e.action = job.action, job.action # NoAction,
         e.type \notin {"approval_required", "approval_granted",
                        "approval_rejected"}
  PROVE  /\ OpenLog(log')
         /\ Unresolved(log') \subseteq {job.action.id}
         /\ e.type \in TerminalTypes => Unresolved(log') = {}
         /\ PendingApproval(log') = PendingApproval(log)
         /\ PendingApproval(log) # 0 =>
              /\ pc # "gate" /\ job.then = "resumed"
              /\ Asked(log').id = job.action.id
<1>1. LogsEvents(log)
  BY AtAnyPoint
<1>2. /\ Unresolved(log) \subseteq {job.action.id}
      /\ PendingApproval(log) # 0 =>
           pc # "gate" /\ job.then = "resumed" /\ Asked(log).id = job.action.id
  BY DEF OpenInv
<1>3. Unresolved(log') \subseteq {job.action.id}
  BY <1>1, <1>2, UnresolvedGrows
<1>4. e.type \in TerminalTypes => job.action.id \notin Unresolved(log')
  BY <1>1, UnresolvedGrows
<1>5. /\ PendingApproval(log') = PendingApproval(log)
      /\ PendingApproval(log) # 0 => Asked(log') = Asked(log)
  BY <1>1, PendingApprovalKept
<1>6. OpenLog(log')
  BY <1>2, <1>3, <1>5 DEF OpenLog
<1>7. e.type \in TerminalTypes => Unresolved(log') = {}
  BY <1>3, <1>4
<1> QED BY <1>2, <1>3, <1>5, <1>6, <1>7

(* The execution goes on.                                                  *)
LEMMA ExecuteOpens ==
  ASSUME Inv, OpenInv, pc \in Executes, pc' \in Executes,
         job'.action = job.action, job'.then = job.then,
         pc' = "ask" => job.action.kind = "ask_user",
         \/ log' = log
         \/ \E e : /\ log' = Append(log, e) /\ e.action = job.action
                   /\ job.action # NoAction
                   /\ e.type \notin {"approval_required", "approval_granted",
                                     "approval_rejected"}
  PROVE  OpenInv'
<1>1. /\ OpenLog(log')
      /\ Unresolved(log') \subseteq {job.action.id}
      /\ PendingApproval(log') # 0 =>
           job.then = "resumed" /\ Asked(log').id = job.action.id
  <2>1. CASE log' = log
    BY <2>1 DEF OpenInv
  <2>2. CASE log' # log
    BY <2>2, ActionOpens
  <2> QED BY <2>1, <2>2
<1>2. job.then = "diffed" => job.action.kind = "inspect_diff"
  BY DEF OpenInv
<1>3. pc' \notin {"step", "close", "wait", "diffed", "gate"}
      /\ pc' \notin ReturnsTo
  BY DEF Executes, ReturnsTo
<1> QED BY <1>1, <1>2, <1>3 DEF OpenInv

(* The execution returns with a result, or with what has to be waited for. *)
LEMMA ObserveOpens ==
  ASSUME Inv, OpenInv, pc \in Executes, NEW obs, Observe(obs), NEW e,
         log' = Append(log, e), e.action = job.action, job.action # NoAction,
         e.type \notin {"approval_required", "approval_granted",
                        "approval_rejected"},
         e.type \in TerminalTypes \/ obs.status \in Asks,
         job.then = "diffed" => obs.status \notin Asks
  PROVE  OpenInv'
<1>1. /\ OpenLog(log')
      /\ e.type \in TerminalTypes => Unresolved(log') = {}
      /\ PendingApproval(log') # 0 => job.then = "resumed"
  BY ActionOpens
<1>2. pc' = job.then /\ job.then \in ReturnsTo /\ job'.obs = obs
  BY AtAnyPoint DEF Observe, Inv, TypeInv, JobOK, IsJob
<1>3. pc' \in ReturnsTo /\ pc' \notin {"step", "close", "wait", "gate", "ask"}
      /\ pc' \notin Executes
  BY <1>2 DEF Executes, ReturnsTo
<1>4. job'.obs.status \notin Asks => Unresolved(log') = {}
  BY <1>1, <1>2
<1>5. pc' # "resumed" => PendingApproval(log') = 0
  BY <1>1, <1>2
<1> QED BY <1>1, <1>2, <1>3, <1>4, <1>5 DEF OpenInv

LEMMA ResultsAreNotAsked ==
  /\ \A status \in ToolStatuses : status \notin Asks
  /\ "conflict" \notin Asks /\ "acceptance_incomplete" \notin Asks
  /\ {"action_replayed", "action_conflict", "action_denied", "action_recovered",
      "action_completed", "action_failed", "finish_blocked"} \subseteq
        TerminalTypes
  /\ \A type \in TerminalTypes :
       type \notin {"approval_required", "approval_granted",
                    "approval_rejected"}
BY DEF ToolStatuses, Asks, TerminalTypes

(* A diff is neither a side effect nor a question.                         *)
LEMMA DiffIsNoEffect ==
  ASSUME Inv, OpenInv, pc \in Executes, job.then = "diffed"
  PROVE  job.action.kind \notin SideEffects /\ pc # "ask"
<1>1. job.action.kind = "inspect_diff"
  BY DEF OpenInv
<1>2. pc = "ask" => job.action.kind = "ask_user"
  BY DEF OpenInv
<1> QED BY <1>1, <1>2 DEF SideEffects

LEMMA AuthorizeReadOpens == Inv /\ OpenInv /\ AuthorizeRead => OpenInv'
<1> SUFFICES ASSUME Inv, OpenInv, AuthorizeRead PROVE OpenInv'
  OBVIOUS
<1> DEFINE e == ActionEvent("action_authorized", job.action)
<1>1. /\ pc \in Executes /\ pc' \in Executes /\ job' = job
      /\ log' = Append(log, e) /\ job.action # NoAction
      /\ pc' = "ask" => job.action.kind = "ask_user"
  BY DEF AuthorizeRead, Executing, Executes
<1>2. e.action = job.action /\ e.type = "action_authorized"
  BY EventFields
<1> HIDE DEF e
<1> QED BY <1>1, <1>2, ExecuteOpens

LEMMA AskOpens == Inv /\ OpenInv /\ Ask => OpenInv'
<1> SUFFICES ASSUME Inv, OpenInv, Ask PROVE OpenInv'
  OBVIOUS
<1> DEFINE obs == Plain("input_required")
           e == Result("input_required", job.action, obs)
<1>1. /\ pc \in Executes /\ pc = "ask" /\ log' = Append(log, e)
      /\ job.action # NoAction /\ Observe(obs)
  BY DEF Ask, Executing, Executes
<1>2. e.action = job.action /\ e.type = "input_required"
  BY EventFields
<1>3. obs.status \in Asks
  BY DEF Plain, Obs, Asks
<1>4. job.then # "diffed"
  BY <1>1, DiffIsNoEffect
<1> HIDE DEF e, obs
<1> QED BY <1>1, <1>2, <1>3, <1>4, ObserveOpens

LEMMA AuthorizeSideEffectOpens ==
  Inv /\ OpenInv /\ AuthorizeSideEffect => OpenInv'
<1> SUFFICES ASSUME Inv, OpenInv, AuthorizeSideEffect PROVE OpenInv'
  OBVIOUS
<1> DEFINE a == job.action
           done == \E r \in Reserved(a) : r.obs # NoObs
           moved == a.kind = "apply_patch" /\ disk[a.path] # a.from
<1>1. /\ pc \in Executes /\ a # NoAction /\ a.kind \in SideEffects
  BY DEF AuthorizeSideEffect, Executing, Executes
<1>2. job.then # "diffed"
  BY <1>1, DiffIsNoEffect
<1>3. LogsEvents(log) /\ StoreOK
  BY AtAnyPoint
<1>4. CASE ~Denied(a) /\ done
  <2> DEFINE e == Result("action_replayed", a, StoredObs(a))
  <2>1. log' = Append(log, e) /\ Observe(StoredObs(a))
    BY <1>4 DEF AuthorizeSideEffect
  <2>2. e.action = a /\ e.type = "action_replayed"
    BY EventFields
  <2> HIDE DEF e
  <2>3. e.type \in TerminalTypes
    BY <2>2, ResultsAreNotAsked
  <2> QED BY <1>1, <1>2, <2>1, <2>2, <2>3, ObserveOpens
<1>5. CASE ~Denied(a) /\ ~done /\ moved
  <2> DEFINE e == Result("action_conflict", a, Plain("conflict"))
  <2>1. log' = Append(log, e) /\ Observe(Plain("conflict"))
    BY <1>5 DEF AuthorizeSideEffect
  <2>2. e.action = a /\ e.type = "action_conflict"
    BY EventFields
  <2> HIDE DEF e
  <2>3. e.type \in TerminalTypes
    BY <2>2, ResultsAreNotAsked
  <2> QED BY <1>1, <1>2, <2>1, <2>2, <2>3, ObserveOpens
<1>6. CASE ~Denied(a) /\ ~done /\ ~moved /\ ValidGrant(a)
  <2> DEFINE e == ActionEvent("action_authorized", a)
  <2>1. log' = Append(log, e) /\ pc' = "reserve" /\ job' = job
    BY <1>6 DEF AuthorizeSideEffect
  <2>2. e.action = job.action /\ e.type = "action_authorized"
    BY EventFields
  <2>3. pc' \in Executes /\ pc' # "ask"
    BY <2>1 DEF Executes
  <2> HIDE DEF e
  <2> QED BY <1>1, <2>1, <2>2, <2>3, ExecuteOpens
<1>7. CASE ~Denied(a) /\ ~done /\ ~moved /\ ~ValidGrant(a)
  <2> DEFINE e == [Result("approval_required", a, Plain("approval_required"))
                     EXCEPT !.checkpoint = Checkpoint(a),
                            !.baseline = Baseline(a)]
  <2>1. log' = Append(log, e) /\ Observe(Plain("approval_required"))
    BY <1>7 DEF AuthorizeSideEffect
  <2>2. e.type = "approval_required" /\ e.action = a
    BY EventFields
  <2> HIDE DEF e
  <2>3. Unresolved(log) \subseteq {a.id}
    BY <1>1 DEF OpenInv
  <2>4. Unresolved(log') \subseteq {a.id}
    BY <1>3, <2>1, <2>2, <2>3, UnresolvedGrows
  <2>5. Asked(log') = a
    BY <1>3, <2>1, <2>2, RequestIsAsked
  <2>6. OpenLog(log')
    BY <2>4, <2>5 DEF OpenLog
  <2>7. pc' = job.then /\ job.then \in ReturnsTo
        /\ job'.obs.status = "approval_required"
    BY <1>1, <2>1, AtAnyPoint DEF Observe, Inv, TypeInv, JobOK, IsJob,
       Plain, Obs
  <2>8. job'.obs.status \in Asks
    BY <2>7 DEF Asks
  <2>9. pc' \notin {"step", "close", "wait", "gate", "ask", "diffed"}
        /\ pc' \notin Executes
    BY <1>2, <2>7 DEF Executes, ReturnsTo
  <2> QED BY <2>6, <2>8, <2>9 DEF OpenInv
<1>8. CASE Denied(a)
  <2> DEFINE e == Result("action_denied", a, Plain("policy_denied"))
  <2>1. log' = Append(log, e) /\ Observe(Plain("policy_denied"))
    BY <1>8 DEF AuthorizeSideEffect
  <2>2. e.action = a /\ e.type = "action_denied"
    BY EventFields
  <2> HIDE DEF e
  <2>3. e.type \in TerminalTypes
    BY <2>2, ResultsAreNotAsked
  <2> QED BY <1>1, <1>2, <2>1, <2>2, <2>3, ObserveOpens
<1> QED BY <1>4, <1>5, <1>6, <1>7, <1>8

LEMMA ReserveOpens == Inv /\ OpenInv /\ Reserve /\ ToldInv' => OpenInv'
<1> SUFFICES ASSUME Inv, OpenInv, Reserve, ToldInv' PROVE OpenInv'
  OBVIOUS
<1> DEFINE a == job.action
           obs == IF StoredObs(a) # NoObs THEN StoredObs(a)
                  ELSE Plain("recovery_required")
           type == IF StoredObs(a) # NoObs THEN "action_replayed"
                   ELSE "action_recovery_required"
           e == Result(type, a, obs)
<1>1. pc \in Executes /\ a # NoAction /\ StoreOK
  BY AtAnyPoint DEF Reserve, Executing, Executes
<1>2. CASE Reserved(a) = {}
  <2>1. pc' = "start" /\ UNCHANGED <<log, job>>
    BY <1>2 DEF Reserve
  <2>2. pc' \in Executes /\ pc' # "ask"
    BY <2>1 DEF Executes
  <2> QED BY <1>1, <2>1, <2>2, ExecuteOpens
<1>3. CASE Reserved(a) # {}
  <2>1. log' = Append(log, e) /\ Observe(obs)
    BY <1>3 DEF Reserve
  <2>2. e.action = a /\ e.type = type
    BY EventFields
  <2>3. type \notin {"approval_required", "approval_granted",
                     "approval_rejected"}
    OBVIOUS
  <2>4. CASE StoredObs(a) # NoObs
    <3>1. \E r \in Reserved(a) : r.obs # NoObs
      BY <1>3, <2>4 DEF StoredObs
    <3>2. obs.status \notin Asks
      BY <1>1, <2>4, <3>1, StoredIsReported, ResultsAreNotAsked
    <3>3. type \in TerminalTypes
      BY <2>4, ResultsAreNotAsked
    <3> HIDE DEF obs, type, e
    <3> QED BY <1>1, <2>1, <2>2, <2>3, <3>2, <3>3, ObserveOpens
  <2>5. CASE StoredObs(a) = NoObs
    <3>1. obs.status = "recovery_required"
      BY <2>5 DEF Plain, Obs
    <3>2. obs.status \in Asks
      BY <3>1 DEF Asks
    <3> HIDE DEF obs, type, e
    <3>3. pc' = job.then /\ job'.obs = obs
      BY <2>1, AtAnyPoint DEF Observe, IsJob
    <3>4. job.then # "diffed"
      BY <3>1, <3>3 DEF ToldInv
    <3> QED BY <1>1, <2>1, <2>2, <2>3, <3>2, <3>4, ObserveOpens
  <2> QED BY <2>4, <2>5
<1> QED BY <1>2, <1>3

LEMMA ReportOpens == Inv /\ OpenInv /\ ToldInv /\ Report => OpenInv'
<1> SUFFICES ASSUME Inv, OpenInv, ToldInv, Report PROVE OpenInv'
  OBVIOUS
<1> DEFINE e == Result(ReportType, job.action, job.obs)
<1>1. /\ pc = "report" /\ pc \in Executes /\ log' = Append(log, e)
      /\ job.action # NoAction /\ Observe(job.obs)
  BY DEF Report, Executing, Executes
<1>2. e.action = job.action /\ e.type = ReportType
  BY EventFields
<1>3. ReportType \in {"action_recovered", "action_completed",
                      "action_conflict", "action_failed"}
  BY DEF ReportType
<1> HIDE DEF e
<1>4. e.type \in TerminalTypes
  BY <1>2, <1>3, ResultsAreNotAsked
<1>5. job.obs.status \notin Asks
  BY <1>1, ResultsAreNotAsked DEF ToldInv
<1> QED BY <1>1, <1>2, <1>4, <1>5, ResultsAreNotAsked, ObserveOpens

LEMMA ExecuteStepOpens ==
  Inv /\ OpenInv /\ ToldInv /\ Execute /\ ToldInv' => OpenInv'
<1> SUFFICES ASSUME Inv, OpenInv, ToldInv, Execute, ToldInv' PROVE OpenInv'
  OBVIOUS
<1>1. CASE Start
  <2> DEFINE type == IF job.retry THEN "action_recovery_started"
                     ELSE "action_started"
             e == ActionEvent(type, job.action)
  <2>1. /\ pc \in Executes /\ pc' \in Executes /\ pc' # "ask" /\ job' = job
        /\ log' = Append(log, e) /\ job.action # NoAction
    BY <1>1 DEF Start, Executing, Executes
  <2>2. e.action = job.action /\ e.type = type
    BY EventFields
  <2>3. type \notin {"approval_required", "approval_granted",
                     "approval_rejected"}
    OBVIOUS
  <2> HIDE DEF e, type
  <2> QED BY <2>1, <2>2, <2>3, ExecuteOpens
<1>2. CASE Tool \/ Complete
  <2>1. pc \in Executes /\ pc' \in Executes /\ pc' # "ask" /\ log' = log
    BY <1>2 DEF Tool, Complete, Executing, Executes
  <2>2. job'.action = job.action /\ job'.then = job.then
    <3>1. CASE Tool
      BY <3>1, ToolReports, AtAnyPoint DEF IsJob
    <3>2. CASE Complete
      BY <3>2 DEF Complete
    <3> QED BY <1>2, <3>1, <3>2
  <2> QED BY <2>1, <2>2, ExecuteOpens
<1> QED BY <1>1, <1>2, AuthorizeReadOpens, AskOpens, AuthorizeSideEffectOpens,
        ReserveOpens, ReportOpens DEF Execute

(* An event about an action that the log knows.                            *)
LEMMA EventRests ==
  ASSUME Inv, OpenInv, NEW e, log' = Append(log, e),
         e.action \in Recorded(log),
         e.type \notin {"approval_required", "approval_granted",
                        "approval_rejected"},
         pc' \notin Executes \union ReturnsTo \union
                      {"gate", "wait", "step", "close"}
  PROVE  OpenInv'
<1>1. LogsEvents(log)
  BY AtAnyPoint
<1>2. Unresolved(log') \subseteq Unresolved(log)
  BY <1>1, UnresolvedGrows
<1>3. /\ PendingApproval(log') = PendingApproval(log)
      /\ PendingApproval(log) # 0 => Asked(log') = Asked(log)
  BY <1>1, PendingApprovalKept
<1>4. OpenLog(log')
  BY <1>2, <1>3 DEF OpenInv, OpenLog
<1>5. pc' \notin Executes /\ pc' \notin ReturnsTo
      /\ pc' \notin {"gate", "wait", "ask", "diffed", "step", "close"}
  BY DEF Executes, ReturnsTo
<1> QED BY <1>4, <1>5 DEF OpenInv

LEMMA ReconcileOpens == Inv /\ OpenInv /\ Reconcile => OpenInv'
<1> SUFFICES ASSUME Inv, OpenInv, Reconcile PROVE OpenInv'
  OBVIOUS
<1> DEFINE a == ActionOf(log, Pending(log))
           e == Result("action_recovered", a, StoredObs(a))
<1>1. /\ log' = Append(log, e) /\ pc' = "recover"
      /\ Unresolved(log) # {}
  BY DEF Reconcile, Settled, PendingClass
<1>2. e.action = a /\ e.type = "action_recovered"
  BY EventFields
<1>3. a \in Recorded(log)
  BY <1>1, AtAnyPoint, PendingInLog DEF Recorded
<1>4. pc' \notin Executes \union ReturnsTo \union
                   {"gate", "wait", "step", "close"}
  BY <1>1 DEF Executes, ReturnsTo
<1> HIDE DEF e, a
<1> QED BY <1>1, <1>2, <1>3, <1>4, EventRests

LEMMA ResumePendingOpens == Inv /\ OpenInv /\ ResumePending => OpenInv'
<1> SUFFICES ASSUME Inv, OpenInv, ResumePending PROVE OpenInv'
  OBVIOUS
<1> DEFINE a == ActionOf(log, Pending(log))
           may == NextStep(log) \in {"execute_pending", "retry_read_only"}
<1>1. log' = log /\ OpenLog(log)
  BY DEF ResumePending, OpenInv
<1>2. CASE may
  <2>1. Unresolved(log) # {}
    BY <1>2, NextStepOfPending
  <2>2. Pending(log) \in Unresolved(log) /\ a.id = Pending(log)
    BY <2>1, AtAnyPoint, PendingInLog
  <2>3. job'.action = a /\ job'.then = "resumed" /\ pc' \in {"execute", "start"}
    BY <1>2, AtAnyPoint DEF ResumePending, IsJob
  <2>4. Unresolved(log) \subseteq {a.id}
    BY <1>1, <2>2 DEF OpenLog
  <2>5. PendingApproval(log) # 0 => Asked(log).id = a.id
    BY <1>1, <2>2 DEF OpenLog
  <2>6. pc' \in Executes /\ pc' \notin ReturnsTo
        /\ pc' \notin {"gate", "wait", "ask", "diffed", "step", "close"}
    BY <2>3 DEF Executes, ReturnsTo
  <2> HIDE DEF a
  <2> QED BY <1>1, <2>3, <2>4, <2>5, <2>6 DEF OpenInv
<1>3. CASE ~may
  <2>1. pc' = "wait" /\ job' = job
    BY <1>3 DEF ResumePending
  <2>2. pc' \notin Executes /\ pc' \notin ReturnsTo
    BY <2>1 DEF Executes, ReturnsTo
  <2> QED BY <1>1, <1>3, <2>1, <2>2 DEF OpenInv
<1> QED BY <1>2, <1>3

LEMMA ResumedOpens == Inv /\ OpenInv /\ Resumed => OpenInv'
<1> SUFFICES ASSUME Inv, OpenInv, Resumed PROVE OpenInv'
  OBVIOUS
<1>1. log' \in {log, Append(log, Snapshot(Rebuilt(log)))}
  BY DEF Resumed, PersistRebuilt
<1>2. CASE job.obs.status \in StoppingStatuses
  <2>1. pc' = "idle"
    BY <1>2 DEF Resumed, Return, Reset
  <2>2. pc' \notin Executes \union ReturnsTo \union {"gate", "wait"}
    BY <2>1 DEF Executes, ReturnsTo
  <2> QED BY <1>1, <2>1, <2>2, RestOpens
<1>3. CASE job.obs.status \notin StoppingStatuses
  <2>1. pc = "resumed" /\ pc \in ReturnsTo /\ pc' = "wait"
    BY <1>3 DEF Resumed, ReturnsTo
  <2>2. Unresolved(log) = {} /\ OpenLog(log)
    BY <1>3, <2>1 DEF OpenInv, Asks, StoppingStatuses
  <2>3. /\ Unresolved(log') = Unresolved(log)
        /\ PendingApproval(log') = PendingApproval(log)
        /\ PendingApproval(log) # 0 => Asked(log') = Asked(log)
    BY <1>1, SnapshotOpens
  <2>4. OpenLog(log')
    BY <2>2, <2>3 DEF OpenLog
  <2>5. pc' \notin Executes /\ pc' \notin ReturnsTo
    BY <2>1 DEF Executes, ReturnsTo
  <2> QED BY <2>1, <2>2, <2>3, <2>4, <2>5 DEF OpenInv
<1> QED BY <1>2, <1>3

LEMMA EnterLoopOpens == Inv /\ OpenInv /\ EnterLoop => OpenInv'
<1> SUFFICES ASSUME Inv, OpenInv, EnterLoop PROVE OpenInv'
  OBVIOUS
<1> DEFINE waits == \/ NextStep(log) \in {"await_approval", "await_input",
                                          "confirm_side_effect", "stopped"}
                    \/ PendingApproval(log) # 0
<1>1. log' = log /\ pc' = (IF waits THEN "idle" ELSE "step")
  BY DEF EnterLoop, Return, Reset
<1>2. ASSUME ~waits PROVE NothingOpen(log)
  <2>1. Unresolved(log) = {}
        \/ NextStep(log) \notin {"execute_pending", "retry_read_only"}
    BY DEF EnterLoop, OpenInv
  <2> QED BY <1>2, <2>1, NextStepOfUnresolved DEF NothingOpen
<1>3. pc' \notin Executes \union ReturnsTo \union {"gate", "wait"}
  BY <1>1 DEF Executes, ReturnsTo
<1>4. pc' \in {"step", "close"} => NothingOpen(log)
  BY <1>1, <1>2
<1> QED BY <1>1, <1>3, <1>4, RestOpens

LEMMA DecideOpens == Inv /\ IdInv /\ OpenInv /\ Decide => OpenInv'
<1> SUFFICES ASSUME Inv, IdInv, OpenInv, Decide PROVE OpenInv'
  OBVIOUS
<1>1. PICK a \in DecidedActions, u \in Offered :
        /\ log' = Append(log, [ActionEvent("decision_recorded", a)
                                 EXCEPT !.update = u])
        /\ job' = [job EXCEPT !.action = a, !.update = u]
  BY DEF Decide
<1> DEFINE e == [ActionEvent("decision_recorded", a) EXCEPT !.update = u]
<1>2. e.action = a /\ e.type = "decision_recorded" /\ log' = Append(log, e)
  BY <1>1, EventFields
<1>3. pc = "step" /\ pc' = "gate" /\ LogsEvents(log)
  BY AtAnyPoint DEF Decide
<1>4. job'.action = a
  BY <1>1, AtAnyPoint DEF IsJob
<1> HIDE DEF e
<1>5. Unresolved(log) = {} /\ PendingApproval(log) = 0
  BY <1>3 DEF OpenInv, NothingOpen
<1>6. Unresolved(log') \subseteq {a.id}
  BY <1>2, <1>3, <1>5, UnresolvedGrows
<1>7. PendingApproval(log') = 0
  BY <1>2, <1>3, <1>5, PendingApprovalKept
<1>8. OpenLog(log')
  BY <1>6, <1>7 DEF OpenLog
<1>9. pc' \notin Executes /\ pc' \notin ReturnsTo
  BY <1>3 DEF Executes, ReturnsTo
<1> QED BY <1>3, <1>4, <1>6, <1>7, <1>8, <1>9 DEF OpenInv

LEMMA GateOpens == Inv /\ IdInv /\ KnowInv /\ OpenInv /\ Gate => OpenInv'
<1> SUFFICES ASSUME Inv, IdInv, KnowInv, OpenInv, Gate PROVE OpenInv'
  OBVIOUS
<1> DEFINE a == job.action
           blocked == FinishBlocked(a)
           refused == a.kind \in WriteKinds
                        /\ (WriteConflict(a) \/ RepeatedRepair(a))
           obs == Plain(IF blocked THEN "acceptance_incomplete" ELSE "conflict")
           type == IF blocked THEN "finish_blocked" ELSE "action_conflict"
           e == Result(type, a, obs)
<1>1. pc = "gate" /\ a \in Recorded(log) /\ a # NoAction
  BY DEF Gate, KnowInv, KnowsActions, Recorded
<1>2. CASE blocked \/ refused
  <2>1. log' = Append(log, e) /\ pc' = "advance" /\ job'.obs = obs
    BY <1>2, AtAnyPoint DEF Gate, IsJob
  <2>2. e.action = a /\ e.type = type
    BY EventFields
  <2>3. type \in TerminalTypes
    BY ResultsAreNotAsked
  <2>4. obs.status \notin Asks
    BY ResultsAreNotAsked DEF Plain, Obs
  <2> HIDE DEF obs, type, e
  <2>5. OpenLog(log') /\ Unresolved(log') = {} /\ PendingApproval(log') = 0
    BY <1>1, <2>1, <2>2, <2>3, ActionOpens, ResultsAreNotAsked
  <2>6. pc' \notin Executes /\ pc' \in ReturnsTo
    BY <2>1 DEF Executes, ReturnsTo
  <2> QED BY <2>1, <2>4, <2>5, <2>6 DEF OpenInv
<1>3. CASE ~(blocked \/ refused)
  <2>1. log' = log /\ pc' = "execute" /\ job'.action = a /\ job'.then = "advance"
    BY <1>3, AtAnyPoint DEF Gate, IsJob
  <2>2. Unresolved(log) \subseteq {a.id} /\ PendingApproval(log) = 0
        /\ OpenLog(log)
    BY <1>1 DEF OpenInv
  <2>3. pc' \notin ReturnsTo
    BY <2>1 DEF Executes, ReturnsTo
  <2> QED BY <2>1, <2>2, <2>3 DEF OpenInv
<1> QED BY <1>2, <1>3

LEMMA AdvanceStateOpens == Inv /\ OpenInv /\ AdvanceState => OpenInv'
<1> SUFFICES ASSUME Inv, OpenInv, AdvanceState PROVE OpenInv'
  OBVIOUS
<1>1. PICK s : log' = Append(log, Snapshot(s))
  BY DEF AdvanceState
<1>2. pc = "advance" /\ pc \in ReturnsTo /\ pc' \in {"step", "end"}
  BY DEF AdvanceState, ReturnsTo
<1>3. pc' = "step" => job.obs.status \notin StoppingStatuses
  <2> DEFINE repeated == RepeatedRepair(job.action)
             reason == CASE repeated -> "repeated_proposal"
                         [] ~repeated /\ job.obs.status \in StoppingStatuses ->
                              job.obs.status
                         [] ~repeated /\ job.action.kind = "finish" /\
                            job.obs.status = "completed" -> "finished"
                         [] OTHER -> "none"
  <2>1. pc' = "step" => reason = "none"
    BY DEF AdvanceState
  <2>2. "none" \notin StoppingStatuses
    BY DEF StoppingStatuses
  <2> QED BY <2>1, <2>2
<1>4. pc' = "step" => NothingOpen(log)
  BY <1>2, <1>3 DEF OpenInv, NothingOpen, Asks, StoppingStatuses
<1>5. pc' \notin Executes \union ReturnsTo \union {"gate", "wait"}
      /\ pc' # "close"
  BY <1>2 DEF Executes, ReturnsTo
<1> QED BY <1>1, <1>4, <1>5, RestOpens

LEMMA StartLoopOpens == Inv /\ IdInv /\ OpenInv /\ StartLoop => OpenInv'
<1> SUFFICES ASSUME Inv, IdInv, OpenInv, StartLoop PROVE OpenInv'
  OBVIOUS
<1> DEFINE s == CreateState
<1>1. log = <<>> /\ log' = Append(log, Snapshot(s)) /\ pc' = "step"
  <2>1. log = <<>> /\ log' = <<Snapshot(s)>> /\ pc' = "step"
    BY DEF StartLoop
  <2> HIDE DEF s
  <2> QED BY <2>1
<1>2. Unresolved(log) = {}
  BY <1>1 DEF Unresolved, Tracked
<1>3. PendingApproval(log) = 0
  BY <1>1 DEF PendingApproval, Events
<1>4. pc' \notin Executes \union ReturnsTo \union {"gate", "wait"}
  BY <1>1 DEF Executes, ReturnsTo
<1> HIDE DEF s
<1> QED BY <1>1, <1>2, <1>3, <1>4, RestOpens DEF NothingOpen

(* Steps that record a state, or nothing, and neither execute nor decide   *)
(* next.                                                                   *)
LEMMA RecordingOpens ==
  ASSUME Inv, OpenInv,
         \/ ResumeLoop \/ Recover \/ DecisionFails \/ LimitReached \/ EndLoop
         \/ Answered \/ RejectedState \/ Requested \/ Observed \/ Crash
  PROVE  OpenInv'
<1> DEFINE Rests == pc' \in {"idle", "recover", "resume", "end"}
           Records == \E s : log' \in {log, Append(log, Snapshot(s))}
<1>1. /\ Reset => Rests
      /\ \A l : Return(l) => Rests
      /\ Fail => Rests
      /\ \A l, c : Resume(l, c) => Rests
  BY DEF Return, Fail, Reset, Resume
<1>2. SUFFICES Rests /\ Records
  <2>1. SUFFICES ASSUME Rests, Records PROVE OpenInv'
    OBVIOUS
  <2>2. pc' \notin Executes \union ReturnsTo \union {"gate", "wait"}
        /\ pc' \notin {"step", "close"}
    BY <2>1 DEF Executes, ReturnsTo
  <2> QED BY <2>1, <2>2, RestOpens
<1>3. CASE ResumeLoop \/ Crash
  BY <1>1, <1>3 DEF ResumeLoop, Crash
<1>4. CASE Recover
  BY <1>4 DEF Recover, PersistRebuilt
<1>5. CASE LimitReached
  BY <1>5 DEF LimitReached, stored
<1>6. CASE DecisionFails \/ EndLoop
  <2>1. Rests
        /\ (log' = log \/ log' = Append(log, Snapshot(Stop(job.state, "failed")))
            \/ log' = Append(log, Snapshot(Stop(job.state, job.reason))))
    BY <1>1, <1>6 DEF DecisionFails, EndLoop
  <2> QED BY <2>1
<1>7. CASE Answered
  <2>1. /\ \E l, c : Resume(l, c)
        /\ log' = log \/ \E s : log' = Append(log, Snapshot(s))
    BY <1>7 DEF Answered
  <2> QED BY <1>1, <2>1
<1>8. CASE RejectedState \/ Requested \/ Observed
  <2>1. /\ (\E l, c : Resume(l, c)) \/ Fail \/ (\E l : Return(l))
        /\ log' = log \/ \E s : log' = Append(log, Snapshot(s))
    BY <1>8 DEF RejectedState, Requested, Observed
  <2> QED BY <1>1, <2>1
<1> QED BY <1>3, <1>4, <1>5, <1>6, <1>7, <1>8

LEMMA AnswerOpens == Inv /\ OpenInv /\ Answer => OpenInv'
<1> SUFFICES ASSUME Inv, OpenInv, Answer PROVE OpenInv'
  OBVIOUS
<1> DEFINE q == run.question
<1>1. PICK answer \in Answers :
        \/ log' = log
        \/ /\ q = PendingInput(log)
           /\ log' = Append(log, [ActionEvent("input_received", q)
                                    EXCEPT !.answer = answer])
  BY DEF Answer
<1> DEFINE e == [ActionEvent("input_received", q) EXCEPT !.answer = answer]
<1>2. q # NoAction /\ Call("answer", "answered", q, "idle")
  BY DEF Answer
<1>3. pc' = "answered"
  BY <1>2, CallFields
<1>4. pc' \notin Executes \union ReturnsTo \union
                   {"gate", "wait", "step", "close"}
  BY <1>3 DEF Executes, ReturnsTo
<1>5. CASE log' = log
  BY <1>4, <1>5, RestOpens
<1>6. CASE q = PendingInput(log) /\ log' = Append(log, e)
  <2>1. q \in Recorded(log)
    BY <1>2, <1>6, AtAnyPoint, PendingInputWaits
  <2>2. e.type = "input_received" /\ e.action = q
    BY EventFields
  <2> HIDE DEF e, q
  <2> QED BY <1>4, <1>6, <2>1, <2>2, EventRests
<1> QED BY <1>1, <1>5, <1>6

(* What a grant or a rejection leaves open: the action that was asked for. *)
LEMMA SettlementOpens ==
  ASSUME Inv, IdInv, OpenInv, OfferedPending,
         NEW e, e.type \in Settling, e.action = PendingApprovalAction,
         e.checkpoint = run.checkpoint, log' = Append(log, e)
  PROVE  /\ OpenLog(log') /\ PendingApproval(log') = 0
         /\ Unresolved(log') \subseteq {PendingApprovalAction.id}
<1>1. LogsEvents(log) /\ PendingApproval(log) # 0
      /\ e.checkpoint = PendingApproval(log)
  BY AtAnyPoint DEF OfferedPending
<1>2. PendingApprovalAction = Asked(log)
  BY DEF PendingApprovalAction, Requests, Asked
<1>3. Unresolved(log) \subseteq {Asked(log).id}
  BY <1>1 DEF OpenInv, OpenLog
<1>4. Unresolved(log') \subseteq {Asked(log).id}
  BY <1>1, <1>2, <1>3, UnresolvedGrows
<1>5. PendingApproval(log') = 0
  BY <1>1, PendingIsSettled
<1> QED BY <1>2, <1>4, <1>5 DEF OpenLog

LEMMA ApproveOpens == Inv /\ IdInv /\ OpenInv /\ Approve => OpenInv'
<1> SUFFICES ASSUME Inv, IdInv, OpenInv, Approve PROVE OpenInv'
  OBVIOUS
<1> DEFINE a == PendingApprovalAction
           e == [ActionEvent("approval_granted", a)
                   EXCEPT !.checkpoint = run.checkpoint]
           then == IF a.kind = "validate" THEN "validated" ELSE "written"
<1>1. /\ OfferedPending /\ Call("approve", "execute", a, then)
      /\ log' = Append(log, e)
  BY DEF Approve
<1>2. e.type = "approval_granted" /\ e.action = a
      /\ e.checkpoint = run.checkpoint
  BY EventFields
<1>3. then # "diffed"
  OBVIOUS
<1> HIDE DEF e, then
<1>4. /\ OpenLog(log') /\ PendingApproval(log') = 0
      /\ Unresolved(log') \subseteq {a.id}
  BY <1>1, <1>2, SettlementOpens DEF Settling
<1> HIDE DEF a
<1>5. pc' = "execute" /\ job'.action = a /\ job'.then = then
  BY <1>1, CallFields
<1>6. pc' \notin ReturnsTo
  BY <1>5 DEF ReturnsTo
<1> QED BY <1>3, <1>4, <1>5, <1>6 DEF OpenInv

LEMMA RejectOpens == Inv /\ IdInv /\ OpenInv /\ Reject => OpenInv'
<1> SUFFICES ASSUME Inv, IdInv, OpenInv, Reject PROVE OpenInv'
  OBVIOUS
<1> DEFINE a == PendingApprovalAction
           e == [ActionEvent("approval_rejected", a)
                   EXCEPT !.checkpoint = run.checkpoint]
<1>1. /\ OfferedPending /\ Call("reject", "rejected", NoAction, "idle")
      /\ log' = Append(log, e)
  BY DEF Reject
<1>2. e.type = "approval_rejected" /\ e.action = a
      /\ e.checkpoint = run.checkpoint
  BY EventFields
<1> HIDE DEF e
<1>3. OpenLog(log')
  BY <1>1, <1>2, SettlementOpens DEF Settling
<1>4. pc' = "rejected"
  BY <1>1, CallFields
<1>5. pc' \notin Executes /\ pc' \notin ReturnsTo
  BY <1>4 DEF Executes, ReturnsTo
<1> QED BY <1>3, <1>4, <1>5 DEF OpenInv

(* The execution begins with nothing open.                                 *)
LEMMA BeginOpens ==
  ASSUME Inv, OpenInv, NothingOpen(log), NEW s,
         log' = Append(log, Snapshot(s)), pc' = "execute",
         job'.then = "diffed" => job'.action.kind = "inspect_diff"
  PROVE  OpenInv'
<1>1. NothingOpen(log')
  BY SnapshotOpens DEF NothingOpen
<1>2. pc' \notin ReturnsTo
  BY DEF ReturnsTo
<1> QED BY <1>1, <1>2 DEF OpenInv, OpenLog, NothingOpen

LEMMA RequestNextOpens ==
  ASSUME Inv, OpenInv, NothingOpen(log), NEW s,
         log' = Append(log, Snapshot(s)), NEW cycle, RequestNext(cycle)
  PROVE  OpenInv'
<1>1. pc' = "execute" /\ job'.then = "requested"
  BY AtAnyPoint DEF RequestNext, IsJob
<1> QED BY <1>1, BeginOpens

LEMMA WrittenOpens == Inv /\ OpenInv /\ Written => OpenInv'
<1> SUFFICES ASSUME Inv, OpenInv, Written PROVE OpenInv'
  OBVIOUS
<1> DEFINE a == job.action
           state == Advance(LatestState(log), a, job.obs, NoUpdate)
           after == PostWrite(state, a.id, job.obs.changed, Commands)
           stopped == Stop(state, "approval_required")
           diff == Read(Append(a.id, "diff"), "inspect_diff", 1)
<1>1. pc = "written"
  BY DEF Written
<1>2. CASE job.obs.status \notin SuccessStatuses
  <2>1. pc' = "idle" /\ log' \in {log, Append(log, Snapshot(stopped))}
    BY <1>2 DEF Written, Return, Reset
  <2> HIDE DEF stopped
  <2>2. pc' \notin Executes \union ReturnsTo \union {"gate", "wait"}
    BY <2>1 DEF Executes, ReturnsTo
  <2> QED BY <2>1, <2>2, RestOpens
<1>3. CASE job.obs.status \in SuccessStatuses
  <2>1. /\ log' = Append(log, Snapshot(after)) /\ pc' = "execute"
        /\ job' = [job EXCEPT !.action = diff, !.then = "diffed",
                              !.state = after]
    BY <1>3 DEF Written, SuccessStatuses
  <2>2. diff.kind = "inspect_diff"
    BY DEF Read, Action
  <2> HIDE DEF after, diff
  <2>3. job'.action = diff
    BY <2>1, AtAnyPoint DEF IsJob
  <2>4. NothingOpen(log)
    BY <1>1, <1>3 DEF OpenInv, NothingOpen, ReturnsTo, Asks, SuccessStatuses
  <2> QED BY <2>1, <2>2, <2>3, <2>4, BeginOpens
<1> QED BY <1>2, <1>3

LEMMA DiffedOpens == Inv /\ OpenInv /\ Diffed => OpenInv'
<1> SUFFICES ASSUME Inv, OpenInv, Diffed PROVE OpenInv'
  OBVIOUS
<1>1. PICK s : log' = Append(log, Snapshot(s))
  BY DEF Diffed
<1>2. pc = "diffed" /\ pc' = "close"
  BY DEF Diffed
<1>3. NothingOpen(log)
  BY <1>2 DEF OpenInv, NothingOpen, ReturnsTo
<1>4. pc' \notin Executes \union ReturnsTo \union {"gate", "wait"}
  BY <1>2 DEF Executes, ReturnsTo
<1> QED BY <1>1, <1>3, <1>4, RestOpens

LEMMA CloseWriteOpens == Inv /\ OpenInv /\ CloseWrite => OpenInv'
<1> SUFFICES ASSUME Inv, OpenInv, CloseWrite PROVE OpenInv'
  OBVIOUS
<1> DEFINE s == Stop(job.state, "write_complete")
           cycle == [write |-> job.action.id[2], next |-> 1]
<1>1. /\ pc = "close" /\ log' = Append(log, Snapshot(s))
      /\ Fail \/ RequestNext(cycle)
  BY DEF CloseWrite
<1> HIDE DEF s, cycle
<1>2. NothingOpen(log)
  BY <1>1 DEF OpenInv
<1>3. CASE Fail
  <2>1. pc' = "idle"
    BY <1>3 DEF Fail, Reset
  <2>2. pc' \notin Executes \union ReturnsTo \union {"gate", "wait"}
    BY <2>1 DEF Executes, ReturnsTo
  <2> QED BY <1>1, <2>1, <2>2, RestOpens
<1>4. CASE RequestNext(cycle)
  BY <1>1, <1>2, <1>4, RequestNextOpens
<1> QED BY <1>1, <1>3, <1>4

LEMMA ValidatedOpens == Inv /\ OpenInv /\ Validated => OpenInv'
<1> SUFFICES ASSUME Inv, OpenInv, Validated PROVE OpenInv'
  OBVIOUS
<1> DEFINE s == Advance(LatestState(log), job.action, job.obs, NoUpdate)
           cycle == [job.cycle EXCEPT !.next = @ + 1]
<1>1. /\ pc = "validated" /\ log' = Append(log, Snapshot(s))
      /\ \/ job.obs.status = "completed" /\ RequestNext(cycle)
         \/ pc' = "observed"
  BY DEF Validated
<1> HIDE DEF s, cycle
<1>2. CASE pc' = "observed"
  <2>1. pc' \notin Executes \union ReturnsTo \union {"gate", "wait"}
    BY <1>2 DEF Executes, ReturnsTo
  <2> QED BY <1>1, <1>2, <2>1, RestOpens
<1>3. CASE job.obs.status = "completed" /\ RequestNext(cycle)
  <2>1. NothingOpen(log)
    BY <1>1, <1>3 DEF OpenInv, NothingOpen, ReturnsTo, Asks
  <2> QED BY <1>1, <1>3, <2>1, RequestNextOpens
<1> QED BY <1>1, <1>2, <1>3

LEMMA SameOpens ==
  ASSUME OpenInv, UNCHANGED <<log, pc, job>>
  PROVE  OpenInv'
BY DEF OpenInv

LEMMA InitOpens == Init => OpenInv
<1> SUFFICES ASSUME Init PROVE OpenInv
  OBVIOUS
<1>1. log = <<>> /\ pc = "idle"
  BY DEF Init
<1>2. Unresolved(log) = {}
  BY <1>1 DEF Unresolved, Tracked
<1>3. PendingApproval(log) = 0
  BY <1>1 DEF PendingApproval, Events
<1>4. pc \notin Executes /\ pc \notin ReturnsTo
  BY <1>1 DEF Executes, ReturnsTo
<1> QED BY <1>1, <1>2, <1>3, <1>4 DEF OpenInv, OpenLog

LEMMA NextOpens ==
  Inv /\ IdInv /\ KnowInv /\ OutcomeInv /\ OpenInv /\ OutcomeInv' /\ [Next]_vars
    => OpenInv'
<1> SUFFICES ASSUME Inv, IdInv, KnowInv, ToldInv, OpenInv, ToldInv',
                    [Next]_vars
             PROVE  OpenInv'
  BY DEF OutcomeInv
<1>1. CASE Execute
  BY <1>1, ExecuteStepOpens
<1>2. CASE Loop
  BY <1>2, ReconcileOpens, RecordingOpens, ResumePendingOpens, ResumedOpens,
     EnterLoopOpens, DecideOpens, GateOpens, AdvanceStateOpens DEF Loop
<1>3. CASE Continue
  BY <1>3, RecordingOpens, WrittenOpens, DiffedOpens, CloseWriteOpens,
     ValidatedOpens DEF Continue
<1>4. CASE UserCall
  BY <1>4, AnswerOpens, ApproveOpens, RejectOpens, SameOpens
  DEF UserCall, RestoreQuestion, Cancel
<1>5. CASE StartLoop \/ ResumeLoop \/ Crash
  BY <1>5, StartLoopOpens, RecordingOpens
<1>6. CASE OutsideEdit \/ UNCHANGED vars
  BY <1>6, SameOpens DEF OutsideEdit, vars
<1> QED BY <1>1, <1>2, <1>3, <1>4, <1>5, <1>6 DEF Next, Progress

LEMMA OpenInvHolds ==
  Spec => [](Inv /\ IdInv /\ KnowInv /\ ConsentInv /\ OutcomeInv /\ OpenInv)
<1> DEFINE I == Inv /\ IdInv /\ KnowInv /\ ConsentInv /\ OutcomeInv
<1>1. Init => OpenInv
  BY InitOpens
<1>2. I /\ I' /\ OpenInv /\ [Next]_vars => OpenInv'
  BY NextOpens
<1>3. Spec => []I
  BY OutcomeInvHolds
<1> QED BY <1>1, <1>2, <1>3, PTL DEF Spec

-----------------------------------------------------------------------------
(* Theorems.                                                               *)

(* At most one action is unresolved, and none while the loop asks for a    *)
(* decision, so the newest one that recovery looks at is all there is      *)
(* (analyze_runtime_recovery).                                             *)
THEOREM OneActionStaysOpen == Spec => []OneActionIsOpen
<1>1. OpenInv => OneActionIsOpen
  BY DEF OpenInv, OpenLog, NothingOpen, OneActionIsOpen
<1> QED BY <1>1, OpenInvHolds, PTL
=============================================================================
