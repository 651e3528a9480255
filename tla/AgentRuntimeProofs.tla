------------------------- MODULE AgentRuntimeProofs -------------------------
(* Theorems about AgentRuntime, for any threads, actions, keys and bounds. *)
EXTENDS AgentRuntime, SequenceTheorems, WellFoundedInduction, TLAPS

-----------------------------------------------------------------------------
(* The log.                                                                *)

\* A nonempty set of positions of a sequence has a last one, the one that
\* Latest returns.
LEMMA LatestIsLast ==
  ASSUME NEW n \in Nat, NEW S, S \subseteq 1 .. n, S # {}
  PROVE  /\ Latest(S) \in S
         /\ \A j \in S : j <= Latest(S)
<1> DEFINE T == {n - i : i \in S}
<1>1. T \subseteq Nat /\ T # {}
  <2>1. \A i \in S : i \in 1 .. n
    OBVIOUS
  <2>2. \A i \in 1 .. n : n - i \in Nat
    OBVIOUS
  <2> QED  BY <2>1, <2>2
<1>2. PICK x \in T : \A y \in T : ~ (<<y, x>> \in OpToRel(<, Nat))
  <2> HIDE DEF T
  <2> QED  BY <1>1, NatLessThanWellFounded, WFMin
<1>3. PICK i \in S : x = n - i
  OBVIOUS
<1>4. ASSUME NEW j \in S  PROVE j <= i
  <2>1. n - j \in T /\ n - j \in Nat /\ n - i \in Nat
    OBVIOUS
  <2>2. ~ (<<n - j, n - i>> \in OpToRel(<, Nat))
    BY <1>2, <1>3, <2>1
  <2>3. ~ (n - j < n - i)
    BY <2>1, <2>2 DEF OpToRel
  <2> QED  BY <2>1, <2>3
<1> QED  BY <1>4 DEF Latest

\* Appending an event keeps the log a log and every event in its place.
LEMMA RecordAppends ==
  ASSUME log \in Seq(Event), NEW e \in Event, Record(e)
  PROVE  /\ log' \in Seq(Event)
         /\ DOMAIN log' = 1 .. (Len(log) + 1)
         /\ DOMAIN log = 1 .. Len(log)
         /\ \A i \in DOMAIN log : log'[i] = log[i]
         /\ log'[Len(log) + 1] = e
         /\ Len(log) \in Nat
  BY AppendProperties, LenProperties DEF Record

\* The events the steps append are events.
LEMMA EventsAreTyped ==
  ASSUME NEW a \in Actions, NEW type \in EventTypes
  PROVE  /\ EventOf(type, a) \in Event
         /\ \A status \in Statuses \union {""} :
              Outcome(type, a, status) \in Event
         /\ \A checkpoint \in Nat, baseline \in Contents \union {NoContent},
               expires \in Nat :
              About(type, a, checkpoint, baseline, expires) \in Event
  BY DEF EventOf, About, Outcome, Event

\* The last event of some set of events is an event of the set.
LEMMA LatestIsEvent ==
  ASSUME log \in Seq(Event), NEW S, S \subseteq DOMAIN log, S # {}
  PROVE  Latest(S) \in S /\ log[Latest(S)] \in Event
  BY LatestIsLast, LenProperties, ElementOfSeq

-----------------------------------------------------------------------------
(* Types.  A caller past the choice of its action has one, and a caller    *)
(* about to grant a checkpoint has seen the request.                       *)

ActionPoints == Points \ {"idle", "recover", "decide", "confirming"}

FramesHoldActions ==
  \A c \in Callers : pc[c] \in ActionPoints => frame[c].action \in Actions

GrantsAnswerRequests ==
  \A c \in Callers :
    pc[c] = "grant" =>
      \E i \in DOMAIN log : /\ log[i].type = "approval_required"
                            /\ log[i].checkpoint = frame[c].checkpoint

CallersTyped ==
  /\ pc \in [Callers -> Points]
  /\ frame \in [Callers -> Frame]
  /\ FramesHoldActions
  /\ GrantsAnswerRequests

TypeInv == TypeOK /\ CallersTyped

LogGrows ==
  DOMAIN log \subseteq DOMAIN log' /\ \A i \in DOMAIN log : log'[i] = log[i]

LEMMA RecordGrows ==
  ASSUME TypeInv, NEW e \in Event, Record(e)
  PROVE  log' \in Seq(Event) /\ LogGrows
<1>1. log \in Seq(Event)
  BY DEF TypeInv, TypeOK
<1>2. 1 .. Len(log) \subseteq 1 .. (Len(log) + 1)
  BY <1>1, LenProperties
<1> QED  BY <1>1, <1>2, RecordAppends DEF LogGrows

LEMMA SameLogGrows ==
  ASSUME TypeInv, UNCHANGED log
  PROVE  log' \in Seq(Event) /\ LogGrows
  BY DEF TypeInv, TypeOK, LogGrows

\* What a caller that moves must show: an action once it has chosen one, and
\* the request once it is about to grant.
LEMMA MoveTyped ==
  ASSUME TypeInv, LogGrows, NEW c \in Callers,
         NEW point \in Points, NEW locals \in Frame,
         GotoWith(c, point, locals),
         point \in ActionPoints => locals.action \in Actions,
         point = "grant" =>
           \E i \in DOMAIN log : /\ log[i].type = "approval_required"
                                 /\ log[i].checkpoint = locals.checkpoint
  PROVE  CallersTyped'
<1>1. pc' \in [Callers -> Points] /\ frame' \in [Callers -> Frame]
  BY DEF GotoWith, TypeInv, CallersTyped
<1>2. FramesHoldActions'
  BY DEF GotoWith, TypeInv, CallersTyped, FramesHoldActions
<1>3. GrantsAnswerRequests'
  <2> SUFFICES ASSUME NEW d \in Callers, pc'[d] = "grant"
               PROVE  \E i \in DOMAIN log' :
                         /\ log'[i].type = "approval_required"
                         /\ log'[i].checkpoint = frame'[d].checkpoint
    BY DEF GrantsAnswerRequests
  <2>1. \E i \in DOMAIN log : /\ log[i].type = "approval_required"
                              /\ log[i].checkpoint = frame'[d].checkpoint
    BY DEF GotoWith, TypeInv, CallersTyped, GrantsAnswerRequests
  <2> QED  BY <2>1 DEF LogGrows
<1> QED  BY <1>1, <1>2, <1>3 DEF CallersTyped

LEMMA AdvanceTyped ==
  ASSUME TypeInv, LogGrows, NEW c \in Callers, NEW point \in Points \ {"grant"},
         NEW a \in Actions, NEW n \in Nat, NEW b \in Contents \union {NoContent},
         NEW m \in Nat, NEW s \in Statuses \union {""},
         GotoWith(c, point, Locals(a, n, b, m, s))
  PROVE  CallersTyped'
<1>1. Locals(a, n, b, m, s) \in Frame /\ Locals(a, n, b, m, s).action \in Actions
  BY DEF Locals, Frame
<1> QED  BY <1>1, MoveTyped

LEMMA GotoTyped ==
  ASSUME TypeInv, LogGrows, NEW c \in Callers, NEW point \in Points \ {"grant"},
         Goto(c, point), point \in ActionPoints => pc[c] \in ActionPoints
  PROVE  CallersTyped'
<1>1. frame[c] \in Frame
  BY DEF TypeInv, CallersTyped
<1>2. GotoWith(c, point, frame[c])
  BY DEF Goto, GotoWith, TypeInv, CallersTyped
<1>3. point \in ActionPoints => frame[c].action \in Actions
  BY DEF TypeInv, CallersTyped, FramesHoldActions
<1> QED  BY <1>1, <1>2, <1>3, MoveTyped

LEMMA ReturnTyped ==
  ASSUME TypeInv, LogGrows, NEW c \in Callers, Return(c)
  PROVE  CallersTyped'
<1>1. EmptyFrame \in Frame
  BY DEF EmptyFrame, Locals, Frame
<1> QED  BY <1>1, MoveTyped DEF Return, Points, ActionPoints

LEMMA InitTyped == Init => TypeInv
<1>1. EmptyFrame \in Frame /\ Missing \in Reservation
  BY DEF EmptyFrame, Locals, Frame, Missing, Reservation
<1> QED
  BY <1>1, ConstantsAssumption
  DEF Init, TypeInv, TypeOK, CallersTyped, FramesHoldActions,
      GrantsAnswerRequests, Contents, Points, ActionPoints

\* The observation stored for an action is a reservation.
LEMMA StoredTyped ==
  ASSUME TypeInv, NEW a \in Actions
  PROVE  /\ StoredStatus(a) \in Statuses \union {""}
         /\ \A status \in Statuses \union {""} :
              StoreObservation(a, status) => reservations' \in [Keys -> Reservation]
<1>1. Key[a] \in Keys /\ reservations \in [Keys -> Reservation]
  BY ConstantsAssumption DEF TypeInv, TypeOK
<1>2. reservations[Key[a]] \in Reservation
  BY <1>1
<1>3. StoredStatus(a) \in Statuses \union {""}
  BY <1>2 DEF StoredStatus, Reservation
<1>4. ASSUME NEW status \in Statuses \union {""}, StoreObservation(a, status)
      PROVE  reservations' \in [Keys -> Reservation]
  <2> DEFINE entry == [action |-> a, state |-> "completed", status |-> status]
  <2>1. entry \in Reservation
    BY DEF Reservation
  <2>2. [reservations EXCEPT ![Key[a]] = entry] \in [Keys -> Reservation]
    BY <1>1, <2>1
  <2> QED  BY <1>1, <1>4, <2>2 DEF StoreObservation
<1> QED  BY <1>3, <1>4

LEMMA ReplayTyped ==
  ASSUME TypeInv, NEW c \in Callers, frame[c].action \in Actions, Replay(c)
  PROVE  log' \in Seq(Event) /\ CallersTyped'
<1>1. Outcome("action_replayed", frame[c].action, StoredStatus(frame[c].action))
        \in Event
  BY EventsAreTyped, StoredTyped DEF EventTypes, TerminalTypes
<1> QED  BY <1>1, RecordGrows, ReturnTyped DEF Replay

LEMMA KeyConflictsTyped ==
  ASSUME TypeInv, NEW c \in Callers, frame[c].action \in Actions, KeyConflicts(c)
  PROVE  log' \in Seq(Event) /\ CallersTyped'
<1>1. Outcome("action_conflict", frame[c].action, "failed") \in Event
  BY EventsAreTyped DEF EventTypes, TerminalTypes, Statuses
<1> QED  BY <1>1, RecordGrows, ReturnTyped DEF KeyConflicts

LEMMA LookupTyped ==
  ASSUME TypeInv, NEW c \in Callers, Lookup(c)
  PROVE  TypeInv'
<1> DEFINE a == frame[c].action
<1>1. pc[c] \in ActionPoints /\ a \in Actions
  BY DEF Lookup, ActionPoints, Points, TypeInv, CallersTyped, FramesHoldActions
<1>2. log' \in Seq(Event) /\ CallersTyped'
  <2>1. CASE Record(Outcome("action_denied", a, "policy_denied")) /\ Return(c)
    BY <1>1, <2>1, EventsAreTyped, RecordGrows, ReturnTyped
    DEF EventTypes, TerminalTypes, Statuses
  <2>2. CASE Replay(c)
    BY <1>1, <2>2, ReplayTyped
  <2>3. CASE KeyConflicts(c)
    BY <1>1, <2>3, KeyConflictsTyped
  <2>4. CASE Goto(c, "preview") /\ UNCHANGED log
    BY <1>1, <2>4, SameLogGrows, GotoTyped DEF Points
  <2> QED  BY <2>1, <2>2, <2>3, <2>4 DEF Lookup
<1> QED  BY <1>2 DEF Lookup, TypeInv, TypeOK, CallersTyped, world, bounds

LEMMA PreviewTyped ==
  ASSUME TypeInv, NEW c \in Callers, Preview(c)
  PROVE  TypeInv'
<1> DEFINE a == frame[c].action
<1>1. pc[c] \in ActionPoints /\ a \in Actions /\ frame[c] \in Frame
  BY DEF Preview, ActionPoints, Points, TypeInv, CallersTyped, FramesHoldActions
<1>2. log' \in Seq(Event) /\ CallersTyped'
  <2>1. CASE /\ Record(IF disk = Absent
                       THEN Outcome("action_failed", a, "failed")
                       ELSE Outcome("action_conflict", a, "conflict"))
             /\ Return(c)
    BY <1>1, <2>1, EventsAreTyped, RecordGrows, ReturnTyped
    DEF EventTypes, TerminalTypes, Statuses
  <2>2. CASE /\ GotoWith(c, "check",
                  Locals(a, 0, IF Kind[a] = "run_command" THEN NoContent ELSE disk,
                         0, ""))
             /\ UNCHANGED log
    <3> DEFINE b == IF Kind[a] = "run_command" THEN NoContent ELSE disk
    <3>1. b \in Contents \union {NoContent} /\ 0 \in Nat /\ "" \in Statuses \union {""}
      BY DEF TypeInv, TypeOK
    <3>2. log' \in Seq(Event) /\ LogGrows
      BY <2>2, SameLogGrows
    <3>3. "check" \in Points \ {"grant"}
      BY DEF Points
    <3> HIDE DEF b
    <3> QED  BY <1>1, <2>2, <3>1, <3>2, <3>3, AdvanceTyped DEF b
  <2> QED  BY <2>1, <2>2 DEF Preview
<1> QED  BY <1>2 DEF Preview, TypeInv, TypeOK, CallersTyped, world, bounds

\* What the readers of the log find for an action are events.
LEMMA FoundTyped ==
  ASSUME TypeInv, NEW a \in Actions
  PROVE  /\ \A b : HasValidGrant(a, b) => GrantedCheckpoint(a) \in Nat
         /\ \A b : ReusableRequest(a, b) =>
              log[LatestRequest(a)].checkpoint \in Nat
<1>1. log \in Seq(Event)
  BY DEF TypeInv, TypeOK
<1>2. \A types : EventsOf(a, types) \subseteq DOMAIN log
  BY DEF EventsOf
<1>3. \A e \in Event : e.checkpoint \in Nat
  BY DEF Event
<1>4. \A types : EventsOf(a, types) # {} =>
        log[Latest(EventsOf(a, types))] \in Event
  BY <1>1, <1>2, LatestIsEvent
<1> QED  BY <1>3, <1>4 DEF HasValidGrant, ReusableRequest, GrantedCheckpoint, LatestRequest

LEMMA CheckGrantTyped ==
  ASSUME TypeInv, NEW c \in Callers, CheckGrant(c)
  PROVE  TypeInv'
<1> DEFINE a == frame[c].action
           baseline == frame[c].baseline
<1>1. pc[c] \in ActionPoints /\ a \in Actions /\ frame[c] \in Frame
  BY DEF CheckGrant, ActionPoints, Points, TypeInv, CallersTyped, FramesHoldActions
<1>2. log' \in Seq(Event) /\ LogGrows
  BY SameLogGrows DEF CheckGrant, store
<1>3. clock \in Nat /\ nextCheckpoint \in Nat
  BY DEF TypeInv, TypeOK
<1>4. /\ baseline \in Contents \union {NoContent}
      /\ 0 \in Nat /\ "" \in Statuses \union {""}
      /\ {"authorize", "request"} \subseteq Points \ {"grant"}
  BY <1>1 DEF Frame, Points
<1>5. CallersTyped' /\ nextCheckpoint' \in Nat
  <2>1. CASE /\ HasValidGrant(a, baseline)
             /\ GotoWith(c, "authorize",
                  Locals(a, GrantedCheckpoint(a), baseline, clock, ""))
             /\ UNCHANGED nextCheckpoint
    BY <1>1, <1>2, <1>3, <1>4, <2>1, FoundTyped, AdvanceTyped
  <2>2. CASE /\ ReusableRequest(a, baseline)
             /\ GotoWith(c, "request",
                  Locals(a, log[LatestRequest(a)].checkpoint, baseline, 0, ""))
             /\ UNCHANGED nextCheckpoint
    BY <1>1, <1>2, <1>3, <1>4, <2>2, FoundTyped, AdvanceTyped
  <2>3. CASE /\ GotoWith(c, "request",
                  Locals(a, nextCheckpoint, baseline, 0, ""))
             /\ nextCheckpoint' = nextCheckpoint + 1
    <3>1. CallersTyped'
      BY <1>1, <1>2, <1>3, <1>4, <2>3, AdvanceTyped
    <3>2. nextCheckpoint' \in Nat
      <4>1. nextCheckpoint' = nextCheckpoint + 1
        BY <2>3
      <4> QED  BY <1>3, <4>1
    <3> QED  BY <3>1, <3>2
  <2> QED  BY <2>1, <2>2, <2>3 DEF CheckGrant
<1> QED  BY <1>2, <1>5
         DEF CheckGrant, TypeInv, TypeOK, CallersTyped, store, world, bounds

\* The locals of a caller that has chosen its action.
LEMMA LocalsAtAction ==
  ASSUME TypeInv, NEW c \in Callers, pc[c] \in ActionPoints
  PROVE  /\ frame[c].action \in Actions
         /\ frame[c].checkpoint \in Nat
         /\ frame[c].baseline \in Contents \union {NoContent}
         /\ frame[c].checkedAt \in Nat
         /\ frame[c].status \in Statuses \union {""}
<1>1. frame[c] \in Frame
  BY DEF TypeInv, CallersTyped
<1> QED  BY <1>1 DEF TypeInv, CallersTyped, FramesHoldActions, Frame

LEMMA ObservedTyped ==
  ASSUME TypeInv, LogGrows, NEW c \in Callers, pc[c] \in ActionPoints,
         NEW point \in {"complete", "report"},
         NEW status \in Statuses \union {""},
         GotoWith(c, point, Observed(c, status))
  PROVE  CallersTyped'
<1>1. point \in Points \ {"grant"}
  BY DEF Points
<1> QED  BY <1>1, LocalsAtAction, AdvanceTyped DEF Observed

\* An event about an action and its approval, and the step after it.
LEMMA RecordAboutTyped ==
  ASSUME TypeInv, NEW c \in Callers, pc[c] \in ActionPoints,
         NEW type \in EventTypes, NEW b \in Contents \union {NoContent},
         NEW t \in Nat,
         Record(About(type, frame[c].action, frame[c].checkpoint, b, t))
  PROVE  log' \in Seq(Event) /\ LogGrows
  BY LocalsAtAction, EventsAreTyped, RecordGrows

LEMMA RecordTyped ==
  ASSUME TypeInv, NEW a \in Actions, NEW type \in EventTypes,
         Record(EventOf(type, a))
  PROVE  log' \in Seq(Event) /\ LogGrows
  BY EventsAreTyped, RecordGrows

LEMMA RecordOutcomeTyped ==
  ASSUME TypeInv, NEW a \in Actions, NEW type \in EventTypes,
         NEW status \in Statuses \union {""}, Record(Outcome(type, a, status))
  PROVE  log' \in Seq(Event) /\ LogGrows
  BY EventsAreTyped, RecordGrows

LEMMA ApprovalTyped ==
  ASSUME TypeInv, NEW c \in Callers,
         RequestApproval(c) \/ Authorize(c) \/ ConsumeApproval(c)
  PROVE  TypeInv'
<1> USE DEF Points, ActionPoints
<1>1. pc[c] \in ActionPoints
  BY DEF RequestApproval, Authorize, ConsumeApproval
<1>2. frame[c].baseline \in Contents \union {NoContent} /\ 0 \in Nat
  BY <1>1, LocalsAtAction
<1>3. {"approval_required", "action_authorized", "approval_consumed"}
        \subseteq EventTypes
  BY DEF EventTypes
<1>4. log' \in Seq(Event) /\ LogGrows
  BY <1>1, <1>2, <1>3, RecordAboutTyped DEF RequestApproval, Authorize, ConsumeApproval
<1>5. CallersTyped'
  BY <1>1, <1>4, GotoTyped, ReturnTyped DEF RequestApproval, Authorize, ConsumeApproval
<1> QED  BY <1>4, <1>5 DEF RequestApproval, Authorize, ConsumeApproval, TypeInv,
                            TypeOK, CallersTyped, world, bounds

LEMMA ReserveTyped ==
  ASSUME TypeInv, NEW c \in Callers, Reserve(c)
  PROVE  TypeInv'
<1> DEFINE a == frame[c].action
           entry == [action |-> a, state |-> "in_progress", status |-> ""]
<1>1. pc[c] \in ActionPoints /\ a \in Actions
  BY LocalsAtAction DEF Reserve, Points, ActionPoints
<1>2. Key[a] \in Keys /\ reservations \in [Keys -> Reservation]
  BY <1>1, ConstantsAssumption DEF TypeInv, TypeOK
<1>3. entry \in Reservation
  BY <1>1 DEF Reservation
<1>4. log' \in Seq(Event) /\ CallersTyped' /\ reservations' \in [Keys -> Reservation]
  <2>1. CASE /\ reservations' = [reservations EXCEPT ![Key[a]] = entry]
             /\ Goto(c, "start") /\ UNCHANGED log
    <3>1. reservations' \in [Keys -> Reservation]
      BY <1>2, <1>3, <2>1
    <3>2. log' \in Seq(Event) /\ CallersTyped'
      BY <1>1, <2>1, SameLogGrows, GotoTyped DEF Points
    <3> QED  BY <3>1, <3>2
  <2>2. CASE (Replay(c) \/ KeyConflicts(c)) /\ UNCHANGED reservations
    BY <1>1, <1>2, <2>2, ReplayTyped, KeyConflictsTyped
  <2>3. CASE /\ Record(EventOf("action_recovery_required", a)) /\ Return(c)
             /\ UNCHANGED reservations
    <3>1. "action_recovery_required" \in EventTypes
      BY DEF EventTypes
    <3> QED  BY <1>1, <1>2, <2>3, <3>1, RecordTyped, ReturnTyped
  <2> QED  BY <2>1, <2>2, <2>3 DEF Reserve
<1> QED  BY <1>4 DEF Reserve, TypeInv, TypeOK, CallersTyped, world, bounds

LEMMA StartTyped ==
  ASSUME TypeInv, NEW c \in Callers, Start(c)
  PROVE  TypeInv'
<1>1. pc[c] \in ActionPoints /\ frame[c].action \in Actions
  BY LocalsAtAction DEF Start, Points, ActionPoints
<1>2. log' \in Seq(Event) /\ LogGrows
  BY <1>1, RecordTyped DEF Start, EventTypes
<1>3. CallersTyped'
  BY <1>1, <1>2, GotoTyped DEF Start, Points
<1> QED  BY <1>2, <1>3 DEF Start, TypeInv, TypeOK, CallersTyped, world, bounds

\* A performed operation is an effect.
LEMMA PerformTyped ==
  ASSUME TypeInv, NEW c \in Callers, pc[c] \in ActionPoints, Perform(c)
  PROVE  effects' \in Seq(Effect)
<1> DEFINE e == [action |-> frame[c].action, checkpoint |-> frame[c].checkpoint,
                 baseline |-> frame[c].baseline, checkedAt |-> frame[c].checkedAt,
                 onto |-> disk]
<1>1. e \in Effect
  BY LocalsAtAction DEF Effect, TypeInv, TypeOK
<1>2. effects \in Seq(Effect)
  BY DEF TypeInv, TypeOK
<1> HIDE DEF e
<1> QED  BY <1>1, <1>2, AppendProperties DEF Perform, e

LEMMA ToolTyped ==
  ASSUME TypeInv, NEW c \in Callers,
         RunCommand(c) \/ EditFile(c) \/ BeginPatch(c) \/ VerifyPatch(c)
           \/ WritePatch(c) \/ ReadBackPatch(c) \/ ToolRaises(c)
  PROVE  TypeInv'
<1> USE DEF store, world, bounds
<1>1. pc[c] \in ActionPoints
  BY DEF RunCommand, EditFile, BeginPatch, VerifyPatch, WritePatch, ReadBackPatch,
      ToolRaises,
         Points, ActionPoints
<1>2. frame[c].action \in Actions /\ frame[c].action \in Contents
  BY <1>1, LocalsAtAction DEF Contents
<1>3. log' \in Seq(Event) /\ LogGrows
  BY SameLogGrows
  DEF RunCommand, EditFile, BeginPatch, VerifyPatch, WritePatch, ReadBackPatch,
      ToolRaises
<1>4. effects' \in Seq(Effect)
  BY <1>1, PerformTyped
  DEF RunCommand, EditFile, BeginPatch, VerifyPatch, WritePatch, ReadBackPatch,
      ToolRaises,
      TypeInv, TypeOK
<1>5. CallersTyped'
  <2>1. CASE \E status \in Statuses \union {""} : Finished(c, status)
    BY <1>1, <1>3, <2>1, ObservedTyped DEF Finished
  <2>2. CASE Goto(c, "verify") \/ Goto(c, "write") \/ Goto(c, "readback")
    BY <1>1, <1>3, <2>2, GotoTyped DEF Points
  <2>3. {"completed", "verification_failed", "applied", "failed", "conflict"}
          \subseteq Statuses \union {""}
    BY DEF Statuses, SuccessStatuses
  <2> QED  BY <2>1, <2>2, <2>3
           DEF RunCommand, EditFile, BeginPatch, VerifyPatch, WritePatch,
               ReadBackPatch, ToolRaises, PatchStops
<1>6. disk' \in Contents /\ patchLock' \in Callers \union {NoCaller}
  BY <1>2 DEF RunCommand, EditFile, BeginPatch, VerifyPatch, WritePatch,
              ReadBackPatch, ToolRaises, PatchStops, TypeInv, TypeOK
<1>7. UNCHANGED <<reservations, clock, nextCheckpoint, calls, crashes, outsideEdits>>
  BY DEF RunCommand, EditFile, BeginPatch, VerifyPatch, WritePatch, ReadBackPatch,
         ToolRaises
<1>8. raises' \in Nat
  <2>1. raises' = raises \/ raises' = raises + 1
    BY DEF RunCommand, EditFile, BeginPatch, VerifyPatch, WritePatch, ReadBackPatch,
           ToolRaises
  <2> QED  BY <2>1 DEF TypeInv, TypeOK
<1> QED  BY <1>3, <1>4, <1>5, <1>6, <1>7, <1>8 DEF TypeInv, TypeOK, CallersTyped

LEMMA CompleteTyped ==
  ASSUME TypeInv, NEW c \in Callers, Complete(c)
  PROVE  TypeInv'
<1> DEFINE a == frame[c].action
           s == IF Stored(a) THEN StoredStatus(a) ELSE frame[c].status
<1>1. pc[c] \in ActionPoints
  BY DEF Complete, Points, ActionPoints
<1>2. a \in Actions /\ frame[c].status \in Statuses \union {""}
  BY <1>1, LocalsAtAction
<1>3. s \in Statuses \union {""}
  BY <1>2, StoredTyped
<1>4. log' \in Seq(Event) /\ LogGrows
  BY SameLogGrows DEF Complete
<1>5. CallersTyped'
  <2> HIDE DEF s
  <2> QED  BY <1>1, <1>3, <1>4, ObservedTyped DEF Complete, s
<1>6. reservations' \in [Keys -> Reservation]
  BY <1>2, StoredTyped DEF Complete
<1> QED  BY <1>4, <1>5, <1>6
         DEF Complete, TypeInv, TypeOK, CallersTyped, world, bounds

LEMMA ReportTyped ==
  ASSUME TypeInv, NEW c \in Callers, Report(c)
  PROVE  TypeInv'
<1>1. frame[c].action \in Actions /\ frame[c].status \in Statuses \union {""}
  BY LocalsAtAction DEF Report, Points, ActionPoints
<1>2. OutcomeType(frame[c].status) \in EventTypes
  BY DEF OutcomeType, EventTypes, TerminalTypes
<1>3. log' \in Seq(Event) /\ LogGrows
  BY <1>1, <1>2, RecordOutcomeTyped DEF Report
<1>4. CallersTyped'
  BY <1>3, ReturnTyped DEF Report
<1> QED  BY <1>3, <1>4 DEF Report, TypeInv, TypeOK, CallersTyped, world, bounds

\* The events found at a position of the log.
LEMMA EventAt ==
  ASSUME TypeInv, NEW i \in DOMAIN log
  PROVE  /\ log[i] \in Event
         /\ log[i].action \in Actions
         /\ log[i].checkpoint \in Nat
         /\ log[i].baseline \in Contents \union {NoContent}
<1>1. log[i] \in Event
  BY ElementOfSeq, LenProperties DEF TypeInv, TypeOK
<1> QED  BY <1>1 DEF Event

LEMMA PendingApprovalInLog ==
  ASSUME TypeInv, PendingApproval # 0
  PROVE  PendingApproval \in DOMAIN log
<1> DEFINE S == {i \in DOMAIN log : log[i].type = "approval_required"}
<1>1. S # {} /\ PendingApproval = Latest(S)
  BY DEF PendingApproval
<1>2. S \subseteq DOMAIN log
  OBVIOUS
<1>3. Latest(S) \in S
  <2> HIDE DEF S
  <2> QED  BY <1>1, <1>2, LatestIsEvent DEF TypeInv, TypeOK
<1> QED  BY <1>1, <1>2, <1>3

LEMMA BeginTyped ==
  ASSUME TypeInv, NEW c \in Callers, Begin(c), CallersTyped'
  PROVE  TypeInv'
<1>1. calls' \in Nat
  <2>1. calls' = calls + 1 /\ calls \in Nat
    BY DEF Begin, TypeInv, TypeOK
  <2> QED  BY <2>1
<1> QED  BY <1>1 DEF Begin, TypeInv, TypeOK, CallersTyped, store, world

LEMMA TakeTyped ==
  ASSUME TypeInv, NEW c \in Callers, Take(c)
  PROVE  TypeInv'
<1>1. Begin(c)
  BY DEF Take, Approve, Reject, Resume, Confirm
<1>2. LogGrows
  BY <1>1, SameLogGrows DEF Begin, store
<1>3. 0 \in Nat /\ "" \in Statuses \union {""} /\ NoContent \in Contents \union {NoContent}
  OBVIOUS
<1>4. CASE Approve(c)
  <2>1. PendingApproval \in DOMAIN log
    BY <1>4, PendingApprovalInLog DEF Approve
  <2>2. "granting" \in Points \ {"grant"}
    BY DEF Points
  <2>3. CallersTyped'
    BY <1>2, <1>3, <1>4, <2>1, <2>2, EventAt, AdvanceTyped DEF Approve
  <2> QED  BY <1>1, <2>3, BeginTyped
<1>5. CASE Reject(c)
  <2>1. PICK i \in DOMAIN log :
          GotoWith(c, "rejecting",
                   Locals(log[i].action, log[i].checkpoint, NoContent, 0, ""))
    BY <1>5 DEF Reject
  <2>2. "rejecting" \in Points \ {"grant"}
    BY DEF Points
  <2>3. CallersTyped'
    BY <1>2, <1>3, <2>1, <2>2, EventAt, AdvanceTyped
  <2> QED  BY <1>1, <2>3, BeginTyped
<1>6. CASE Resume(c) \/ Confirm(c)
  <2>1. CallersTyped'
    BY <1>2, <1>6, GotoTyped DEF Resume, Confirm, Points, ActionPoints
  <2> QED  BY <1>1, <2>1, BeginTyped
<1> QED  BY <1>4, <1>5, <1>6 DEF Take

LEMMA ChooseTyped ==
  ASSUME TypeInv, LogGrows, NEW c \in Callers, NEW point \in {"lookup", "confirm"},
         NEW a \in Actions, GotoWith(c, point, FrameFor(a))
  PROVE  CallersTyped'
<1>1. /\ 0 \in Nat /\ "" \in Statuses \union {""}
      /\ NoContent \in Contents \union {NoContent}
      /\ point \in Points \ {"grant"}
  BY DEF Points
<1> QED  BY <1>1, AdvanceTyped DEF FrameFor

LEMMA RepairTrailTyped ==
  ASSUME TypeInv, NEW c \in Callers, NEW a \in Actions, RepairTrail(c, a)
  PROVE  log' \in Seq(Event) /\ CallersTyped'
<1>1. log' \in Seq(Event) /\ LogGrows
  BY RecordOutcomeTyped, StoredTyped DEF RepairTrail, EventTypes, TerminalTypes
<1>2. GrantsAnswerRequests'
  BY <1>1 DEF RepairTrail, LogGrows, TypeInv, CallersTyped, GrantsAnswerRequests
<1> QED  BY <1>1, <1>2 DEF RepairTrail, TypeInv, CallersTyped, FramesHoldActions

LEMMA CheckGrantableTyped ==
  ASSUME TypeInv, NEW c \in Callers, CheckGrantable(c)
  PROVE  TypeInv'
<1> DEFINE a == frame[c].action
           checkpoint == frame[c].checkpoint
<1>1. a \in Actions /\ frame[c] \in Frame
  BY LocalsAtAction DEF CheckGrantable, Points, ActionPoints, TypeInv, CallersTyped
<1>2. log' \in Seq(Event) /\ LogGrows
  BY SameLogGrows DEF CheckGrantable, store
<1>3. CallersTyped'
  <2>1. CASE GotoWith(c, "lookup", FrameFor(a)) \/ Return(c)
    BY <1>1, <1>2, <2>1, ChooseTyped, ReturnTyped
  <2>2. CASE IsLatestRequest(a, checkpoint) /\ Goto(c, "grant")
    <3> DEFINE S == EventsOf(a, {"approval_required"})
    <3>1. S # {} /\ S \subseteq DOMAIN log /\ log[Latest(S)].checkpoint = checkpoint
      BY <2>2 DEF IsLatestRequest, LatestRequest, EventsOf
    <3>2. Latest(S) \in S
      <4> HIDE DEF S
      <4> QED  BY <3>1, LatestIsEvent DEF TypeInv, TypeOK
    <3>3. \E i \in DOMAIN log : /\ log[i].type = "approval_required"
                                /\ log[i].checkpoint = checkpoint
      BY <3>1, <3>2 DEF EventsOf
    <3>4. GotoWith(c, "grant", frame[c])
      BY <2>2 DEF Goto, GotoWith, TypeInv, CallersTyped
    <3>5. "grant" \in Points
      BY DEF Points
    <3> QED  BY <1>1, <1>2, <3>3, <3>4, <3>5, MoveTyped
  <2> QED  BY <2>1, <2>2 DEF CheckGrantable
<1> QED  BY <1>2, <1>3
         DEF CheckGrantable, TypeInv, TypeOK, CallersTyped, store, world, bounds

LEMMA GrantApprovalTyped ==
  ASSUME TypeInv, NEW c \in Callers, GrantApproval(c)
  PROVE  TypeInv'
<1> DEFINE a == frame[c].action
           checkpoint == frame[c].checkpoint
           S == {i \in DOMAIN log : /\ log[i].type = "approval_required"
                                    /\ log[i].checkpoint = checkpoint}
<1>1. pc[c] \in ActionPoints /\ a \in Actions
  BY LocalsAtAction DEF GrantApproval, Points, ActionPoints
<1>2. S # {} /\ S \subseteq DOMAIN log
  BY DEF GrantApproval, TypeInv, CallersTyped, GrantsAnswerRequests
<1>3. RequestOf(checkpoint).baseline \in Contents \union {NoContent}
  <2>1. log[Latest(S)] \in Event
    <3> HIDE DEF S
    <3> QED  BY <1>2, LatestIsEvent DEF TypeInv, TypeOK
  <2> QED  BY <2>1 DEF RequestOf, Event
<1>4. clock + TTL \in Nat
  BY ConstantsAssumption DEF TypeInv, TypeOK
<1>5. log' \in Seq(Event) /\ LogGrows
  <2>1. "approval_granted" \in EventTypes
    BY DEF EventTypes
  <2> QED  BY <1>1, <1>3, <1>4, <2>1, RecordAboutTyped DEF GrantApproval
<1>6. CallersTyped'
  BY <1>1, <1>5, ChooseTyped DEF GrantApproval
<1> QED  BY <1>5, <1>6 DEF GrantApproval, TypeInv, TypeOK, CallersTyped, world, bounds

LEMMA RejectingTyped ==
  ASSUME TypeInv, NEW c \in Callers, CheckRejectable(c) \/ RejectApproval(c)
  PROVE  TypeInv'
<1>1. pc[c] \in ActionPoints
  BY DEF CheckRejectable, RejectApproval, Points, ActionPoints
<1>2. log' \in Seq(Event) /\ LogGrows
  <2>1. CASE CheckRejectable(c)
    BY <2>1, SameLogGrows DEF CheckRejectable, store
  <2>2. CASE RejectApproval(c)
    <3>1. /\ "approval_rejected" \in EventTypes /\ 0 \in Nat
          /\ NoContent \in Contents \union {NoContent}
      BY DEF EventTypes
    <3> QED  BY <1>1, <2>2, <3>1, RecordAboutTyped DEF RejectApproval
  <2> QED  BY <2>1, <2>2
<1>3. CallersTyped'
  BY <1>1, <1>2, GotoTyped, ReturnTyped DEF CheckRejectable, RejectApproval, Points
<1> QED  BY <1>2, <1>3 DEF CheckRejectable, RejectApproval, TypeInv, TypeOK,
                            CallersTyped, store, world, bounds

LEMMA RecoveryTyped ==
  ASSUME TypeInv, NEW c \in Callers,
         Recover(c) \/ RecordDecision(c) \/ CheckConfirmable(c)
  PROVE  TypeInv'
<1>1. log' \in Seq(Event) /\ CallersTyped'
  <2>1. CASE /\ UNCHANGED log
             /\ \/ Goto(c, "decide") \/ Return(c)
                \/ \E a \in Actions, point \in {"lookup", "confirm"} :
                     GotoWith(c, point, FrameFor(a))
    BY <2>1, SameLogGrows, GotoTyped, ReturnTyped, ChooseTyped
    DEF Points, ActionPoints
  <2>2. CASE \E a \in Actions : RepairTrail(c, a)
    BY <2>2, RepairTrailTyped
  <2>3. CASE \E a \in Actions : /\ Record(EventOf("decision_recorded", a))
                                /\ GotoWith(c, "lookup", FrameFor(a))
    BY <2>3, RecordTyped, ChooseTyped DEF EventTypes
  <2>4. CASE Recover(c)
    BY <2>1, <2>2, <2>4 DEF Recover
  <2>5. CASE RecordDecision(c)
    BY <2>1, <2>3, <2>5 DEF RecordDecision
  <2>6. CASE CheckConfirmable(c)
    BY <2>1, <2>2, <2>6 DEF CheckConfirmable
  <2> QED  BY <2>4, <2>5, <2>6
<1>2. UNCHANGED <<reservations, world, clock, nextCheckpoint, effects, bounds>>
  BY DEF Recover, RecordDecision, CheckConfirmable
<1> QED  BY <1>1, <1>2 DEF TypeInv, TypeOK, CallersTyped, world, bounds

LEMMA ConfirmTyped ==
  ASSUME TypeInv, NEW c \in Callers,
         ConfirmOutcomeUnknown(c) \/ SettleConfirmation(c)
  PROVE  TypeInv'
<1>1. pc[c] \in ActionPoints /\ frame[c].action \in Actions
  BY LocalsAtAction DEF ConfirmOutcomeUnknown, SettleConfirmation, Points, ActionPoints
<1>2. /\ "outcome_unknown" \in Statuses \union {""}
      /\ "action_recovery_confirmed" \in EventTypes
  BY DEF Statuses, EventTypes, TerminalTypes
<1>3. log' \in Seq(Event) /\ LogGrows
  BY <1>1, <1>2, RecordOutcomeTyped, SameLogGrows
  DEF ConfirmOutcomeUnknown, SettleConfirmation
<1>4. CallersTyped'
  BY <1>1, <1>3, GotoTyped, ReturnTyped
  DEF ConfirmOutcomeUnknown, SettleConfirmation, Points, ActionPoints
<1>5. reservations' \in [Keys -> Reservation]
  BY <1>1, <1>2, StoredTyped
  DEF ConfirmOutcomeUnknown, SettleConfirmation, TypeInv, TypeOK
<1> QED  BY <1>3, <1>4, <1>5
         DEF ConfirmOutcomeUnknown, SettleConfirmation, TypeInv, TypeOK,
             CallersTyped, world, bounds

LEMMA EnvironmentTyped ==
  ASSUME TypeInv, Tick \/ OutsideEdit \/ Crash
  PROVE  TypeInv'
<1> USE DEF TypeInv, TypeOK, CallersTyped, FramesHoldActions, GrantsAnswerRequests,
            store, world, bounds
<1>1. CASE Tick
  <2>1. clock' \in Nat
    BY <1>1 DEF Tick
  <2> QED  BY <1>1, <2>1 DEF Tick
<1>2. CASE OutsideEdit
  <2>1. outsideEdits' \in Nat /\ disk' \in Contents
    BY <1>2 DEF OutsideEdit, Contents
  <2> QED  BY <1>2, <2>1 DEF OutsideEdit
<1>3. CASE Crash
  <2>1. crashes' \in Nat
    BY <1>3 DEF Crash
  <2>2. EmptyFrame \in Frame
    BY DEF EmptyFrame, Locals, Frame
  <2>3. /\ pc' \in [Callers -> Points] /\ frame' \in [Callers -> Frame]
        /\ FramesHoldActions' /\ GrantsAnswerRequests'
    BY <1>3, <2>2 DEF Crash, Points, ActionPoints
  <2> QED  BY <1>3, <2>1, <2>3 DEF Crash
<1> QED  BY <1>1, <1>2, <1>3

LEMMA StepTyped == TypeInv /\ [Next]_vars => TypeInv'
<1> SUFFICES ASSUME TypeInv, [Next]_vars  PROVE TypeInv'
  OBVIOUS
<1>1. CASE UNCHANGED vars
  BY <1>1 DEF vars, TypeInv, TypeOK, CallersTyped, FramesHoldActions, GrantsAnswerRequests
<1>2. ASSUME NEW c \in Callers, Continue(c) \/ ToolRaises(c)  PROVE TypeInv'
  BY <1>2, RecoveryTyped, ConfirmTyped, CheckGrantableTyped, GrantApprovalTyped,
     RejectingTyped, LookupTyped, PreviewTyped, CheckGrantTyped, ApprovalTyped,
     ReserveTyped, StartTyped, ToolTyped, CompleteTyped, ReportTyped
  DEF Continue
<1> QED  BY <1>1, <1>2, TakeTyped, EnvironmentTyped DEF Next

\* Whatever the threads, crashes and outside edits, every variable keeps the
\* shape the store, the worktree and the calls have.
THEOREM TypesHold == Spec => []TypeOK
<1>1. Spec => []TypeInv
  BY InitTyped, StepTyped, PTL DEF Spec
<1>2. TypeInv => TypeOK
  BY DEF TypeInv
<1> QED  BY <1>1, <1>2, PTL

-----------------------------------------------------------------------------
(***************************************************************************)
(* At most one effect per idempotency key, final observations, and reports *)
(* that agree with the store.                                              *)
(* The argument: a caller past Reserve owns the reservation of its key;    *)
(* of the callers that own a key only one can still perform, and only      *)
(* while the key has no effect.                                            *)
(***************************************************************************)

Held(a) == /\ reservations[Key[a]].state # "missing"
           /\ reservations[Key[a]].action = a

WillHold(a) == /\ reservations'[Key[a]].state # "missing"
               /\ reservations'[Key[a]].action = a

\* Points at which the action's key is reserved for it; at the performers'
\* points the operation is still to come.
Performers == {"start", "tool", "verify", "write"}
Holders == Performers \union {"readback", "complete", "report", "confirm", "settle"}

OwnersHold == \A c \in Callers : pc[c] \in Holders => Held(frame[c].action)

StartedHold ==
  \A i \in DOMAIN log : log[i].type = "action_started" => Held(log[i].action)

ReservationInv == OwnersHold /\ StartedHold

\* A reservation is made once, completed once, and changes in no other way.
Evolves(k) ==
  \/ reservations'[k] = reservations[k]
  \/ /\ reservations[k].state = "missing"
     /\ reservations'[k].state = "in_progress"
  \/ /\ reservations[k].state = "in_progress"
     /\ reservations'[k].state = "completed"
     /\ reservations'[k].action = reservations[k].action

\* Steps that neither reserve nor perform nor start.
Quiet(c) ==
  /\ UNCHANGED <<reservations, effects>>
  /\ \A d \in Callers \ {c} : pc'[d] = pc[d] /\ frame'[d] = frame[d]
  /\ pc'[c] \in Points \ Holders
  /\ \A i \in DOMAIN log' \ DOMAIN log : log'[i].type # "action_started"
  /\ LogGrows

LEMMA MoveShape ==
  ASSUME TypeInv, NEW c \in Callers, NEW point, NEW locals,
         GotoWith(c, point, locals)
  PROVE  /\ \A d \in Callers \ {c} : pc'[d] = pc[d] /\ frame'[d] = frame[d]
         /\ pc'[c] = point /\ frame'[c] = locals
  BY DEF GotoWith, TypeInv, CallersTyped

LEMMA GotoShape ==
  ASSUME TypeInv, NEW c \in Callers, NEW point, Goto(c, point)
  PROVE  /\ \A d \in Callers \ {c} : pc'[d] = pc[d] /\ frame'[d] = frame[d]
         /\ pc'[c] = point /\ frame'[c] = frame[c]
  BY DEF Goto, TypeInv, CallersTyped

LEMMA ReturnShape ==
  ASSUME TypeInv, NEW c \in Callers, Return(c)
  PROVE  /\ \A d \in Callers \ {c} : pc'[d] = pc[d] /\ frame'[d] = frame[d]
         /\ pc'[c] = "idle"
  BY MoveShape DEF Return

\* The one new event of a step that records one.
LEMMA RecordedAtEnd ==
  ASSUME TypeInv, NEW e, Record(e)
  PROVE  \A i \in DOMAIN log' \ DOMAIN log : log'[i] = e
<1>1. log \in Seq(Event)
  BY DEF TypeInv, TypeOK
<1> QED  BY <1>1, SMT DEF Record

LEMMA RecordedAbout ==
  ASSUME TypeInv, NEW type, NEW a, NEW n, NEW b, NEW t,
         Record(About(type, a, n, b, t))
  PROVE  /\ \A i \in DOMAIN log' \ DOMAIN log : log'[i].type = type
         /\ LogGrows
<1> DEFINE e == About(type, a, n, b, t)
<1>1. e.type = type
  BY DEF About
<1>2. LogGrows
  <2> HIDE DEF e
  <2> QED  BY SMT DEF Record, LogGrows, TypeInv, TypeOK
<1>3. \A i \in DOMAIN log' \ DOMAIN log : log'[i] = e
  BY RecordedAtEnd
<1> QED  BY <1>1, <1>2, <1>3

\* A step is quiet if it records no start and leaves its caller at a point
\* that holds no reservation.
LEMMA QuietRecord ==
  ASSUME TypeInv, NEW c \in Callers, NEW e \in Event, Record(e),
         e.type # "action_started",
         UNCHANGED <<reservations, effects>>,
         \A d \in Callers \ {c} : pc'[d] = pc[d] /\ frame'[d] = frame[d],
         pc'[c] \in Points \ Holders
  PROVE  Quiet(c)
  BY RecordGrows, RecordedAtEnd DEF Quiet

LEMMA QuietMove ==
  ASSUME TypeInv, NEW c \in Callers, UNCHANGED log,
         UNCHANGED <<reservations, effects>>,
         \A d \in Callers \ {c} : pc'[d] = pc[d] /\ frame'[d] = frame[d],
         pc'[c] \in Points \ Holders
  PROVE  Quiet(c)
  BY SameLogGrows DEF Quiet

LEMMA QuietReturn ==
  ASSUME TypeInv, NEW c \in Callers, Return(c),
         UNCHANGED <<reservations, effects>>,
         \/ UNCHANGED log
         \/ \E e \in Event : Record(e) /\ e.type # "action_started"
  PROVE  Quiet(c)
<1>1. "idle" \in Points \ Holders
  BY DEF Points, Holders, Performers
<1> QED  BY <1>1, ReturnShape, QuietRecord, QuietMove

LEMMA ReplayQuiet ==
  ASSUME TypeInv, NEW c \in Callers, frame[c].action \in Actions,
         Replay(c) \/ KeyConflicts(c), UNCHANGED <<reservations, effects>>
  PROVE  Quiet(c)
<1> DEFINE a == frame[c].action
<1>1. \E e \in Event : Record(e) /\ e.type # "action_started"
  <2>1. CASE Replay(c)
    <3>1. Outcome("action_replayed", a, StoredStatus(a)) \in Event
      BY EventsAreTyped, StoredTyped DEF EventTypes, TerminalTypes
    <3> QED  BY <2>1, <3>1 DEF Replay, Outcome
  <2>2. CASE KeyConflicts(c)
    <3>1. Outcome("action_conflict", a, "failed") \in Event
      BY EventsAreTyped DEF EventTypes, TerminalTypes, Statuses
    <3> QED  BY <2>2, <3>1 DEF KeyConflicts, Outcome
  <2> QED  BY <2>1, <2>2
<1> QED  BY <1>1, QuietReturn DEF Replay, KeyConflicts

LEMMA ExecuteQuiet ==
  ASSUME TypeInv, NEW c \in Callers,
         Lookup(c) \/ Preview(c) \/ CheckGrant(c) \/ RequestApproval(c)
           \/ Authorize(c) \/ ConsumeApproval(c) \/ Report(c)
  PROVE  Quiet(c)
<1> DEFINE a == frame[c].action
<1>1. /\ pc[c] \in ActionPoints
      /\ UNCHANGED <<reservations, effects>>
  BY DEF Lookup, Preview, CheckGrant, RequestApproval, Authorize, ConsumeApproval,
         Report, Points, ActionPoints, store
<1>2. a \in Actions /\ frame[c].status \in Statuses \union {""}
  BY <1>1, LocalsAtAction
<1>3. {"preview", "check", "authorize", "request", "consume", "reserve"}
        \subseteq Points \ Holders
  BY DEF Points, Holders, Performers
<1>4. \A type \in EventTypes : \A status \in Statuses \union {""} :
        /\ Outcome(type, a, status) \in Event
        /\ Outcome(type, a, status).type = type
  BY <1>2, EventsAreTyped DEF Outcome
<1>5. CASE Lookup(c)
  <2>1. CASE Record(Outcome("action_denied", a, "policy_denied")) /\ Return(c)
    <3>1. "action_denied" \in EventTypes /\ "policy_denied" \in Statuses \union {""}
      BY DEF EventTypes, TerminalTypes, Statuses
    <3> QED  BY <1>1, <1>4, <2>1, <3>1, QuietReturn
  <2>2. CASE Replay(c) \/ KeyConflicts(c)
    BY <1>1, <1>2, <2>2, ReplayQuiet
  <2>3. CASE Goto(c, "preview") /\ UNCHANGED log
    BY <1>1, <1>3, <2>3, GotoShape, QuietMove
  <2> QED  BY <1>5, <2>1, <2>2, <2>3 DEF Lookup
<1>6. CASE Preview(c)
  <2>1. CASE /\ Record(IF disk = Absent
                       THEN Outcome("action_failed", a, "failed")
                       ELSE Outcome("action_conflict", a, "conflict"))
             /\ Return(c)
    <3>1. /\ {"action_failed", "action_conflict"} \subseteq EventTypes
          /\ {"failed", "conflict"} \subseteq Statuses \union {""}
      BY DEF EventTypes, TerminalTypes, Statuses
    <3>2. \E e \in Event : Record(e) /\ e.type # "action_started"
      <4>1. CASE disk = Absent
        BY <1>4, <2>1, <3>1, <4>1
      <4>2. CASE disk # Absent
        BY <1>4, <2>1, <3>1, <4>2
      <4> QED  BY <4>1, <4>2
    <3> QED  BY <1>1, <2>1, <3>2, QuietReturn
  <2>2. CASE /\ \E locals : GotoWith(c, "check", locals)
             /\ UNCHANGED log
    BY <1>1, <1>3, <2>2, MoveShape, QuietMove
  <2> QED  BY <1>6, <2>1, <2>2 DEF Preview
<1>7. CASE CheckGrant(c)
  <2>1. \E locals, point : /\ point \in {"authorize", "request"}
                           /\ GotoWith(c, point, locals)
    BY <1>7 DEF CheckGrant
  <2> QED  BY <1>1, <1>3, <1>7, <2>1, MoveShape, QuietMove DEF CheckGrant, store
<1>8. CASE RequestApproval(c) \/ Authorize(c) \/ ConsumeApproval(c)
  <2>1. /\ frame[c].baseline \in Contents \union {NoContent}
        /\ frame[c].checkpoint \in Nat /\ 0 \in Nat
    BY <1>1, LocalsAtAction
  <2>2. \A type \in EventTypes :
          /\ About(type, a, frame[c].checkpoint, frame[c].baseline, 0) \in Event
          /\ About(type, a, frame[c].checkpoint, frame[c].baseline, 0).type = type
    BY <1>2, <2>1, EventsAreTyped DEF About
  <2>3. \E e \in Event : Record(e) /\ e.type # "action_started"
    BY <1>8, <2>2 DEF RequestApproval, Authorize, ConsumeApproval, EventTypes
  <2> QED  BY <1>1, <1>3, <1>8, <2>3, GotoShape, QuietRecord, QuietReturn
           DEF RequestApproval, Authorize, ConsumeApproval
<1>9. CASE Report(c)
  <2>1. /\ OutcomeType(frame[c].status) \in EventTypes
        /\ OutcomeType(frame[c].status) # "action_started"
    BY DEF OutcomeType, EventTypes, TerminalTypes
  <2> QED  BY <1>1, <1>2, <1>4, <1>9, <2>1, QuietReturn DEF Report
<1> QED  BY <1>5, <1>6, <1>7, <1>8, <1>9

LEMMA UserQuiet ==
  ASSUME TypeInv, NEW c \in Callers,
         CheckGrantable(c) \/ GrantApproval(c) \/ CheckRejectable(c)
           \/ RejectApproval(c) \/ Take(c)
  PROVE  Quiet(c)
<1> DEFINE a == frame[c].action
<1>1. UNCHANGED <<reservations, effects>>
  BY DEF CheckGrantable, GrantApproval, CheckRejectable, RejectApproval, Take,
         Approve, Reject, Resume, Confirm, Begin, store
<1>2. {"lookup", "grant", "reject", "granting", "rejecting", "recover",
       "confirming", "idle"} \subseteq Points \ Holders
  BY DEF Points, Holders, Performers
<1>3. CASE CheckGrantable(c)
  BY <1>1, <1>2, <1>3, MoveShape, GotoShape, ReturnShape, QuietMove
  DEF CheckGrantable, store
<1>4. CASE GrantApproval(c)
  <2>1. /\ LogGrows
        /\ \A i \in DOMAIN log' \ DOMAIN log : log'[i].type = "approval_granted"
    BY <1>4, RecordedAbout DEF GrantApproval
  <2> QED  BY <1>1, <1>2, <1>4, <2>1, MoveShape DEF GrantApproval, Quiet
<1>5. CASE CheckRejectable(c)
  BY <1>1, <1>2, <1>5, GotoShape, ReturnShape, QuietMove DEF CheckRejectable, store
<1>6. CASE RejectApproval(c)
  <2>1. /\ LogGrows
        /\ \A i \in DOMAIN log' \ DOMAIN log : log'[i].type = "approval_rejected"
    BY <1>6, RecordedAbout DEF RejectApproval
  <2> QED  BY <1>1, <1>2, <1>6, <2>1, ReturnShape DEF RejectApproval, Quiet
<1>7. CASE Take(c)
  <2>1. UNCHANGED log
    BY <1>7 DEF Take, Approve, Reject, Resume, Confirm, Begin, store
  <2>2. \/ \E point \in {"granting", "rejecting"} : \E locals : GotoWith(c, point, locals)
        \/ \E point \in {"recover", "confirming"} : Goto(c, point)
    BY <1>7 DEF Take, Approve, Reject, Resume, Confirm
  <2> QED  BY <1>1, <1>2, <2>1, <2>2, MoveShape, GotoShape, QuietMove
<1> QED  BY <1>3, <1>4, <1>5, <1>6, <1>7

LEMMA RepairQuiet ==
  ASSUME TypeInv, NEW c \in Callers, pc[c] \in {"recover", "confirming"},
         NEW a \in Actions, RepairTrail(c, a), UNCHANGED <<reservations, effects>>
  PROVE  Quiet(c)
<1>1. /\ Outcome("action_recovered", a, StoredStatus(a)) \in Event
      /\ Outcome("action_recovered", a, StoredStatus(a)).type # "action_started"
  BY EventsAreTyped, StoredTyped DEF EventTypes, TerminalTypes, Outcome
<1>2. pc[c] \in Points \ Holders
  BY DEF Points, Holders, Performers
<1> QED  BY <1>1, <1>2, QuietRecord DEF RepairTrail

LEMMA LoopQuiet ==
  ASSUME TypeInv, NEW c \in Callers, Recover(c) \/ RecordDecision(c)
  PROVE  Quiet(c)
<1>1. {"lookup", "decide"} \subseteq Points \ Holders
  BY DEF Points, Holders, Performers
<1>2. CASE /\ UNCHANGED log
           /\ \/ Goto(c, "decide") \/ Return(c)
              \/ \E locals : GotoWith(c, "lookup", locals)
  BY <1>1, <1>2, GotoShape, MoveShape, QuietMove, QuietReturn
  DEF Recover, RecordDecision
<1>3. CASE \E a \in Actions : /\ Record(EventOf("decision_recorded", a))
                              /\ \E locals : GotoWith(c, "lookup", locals)
  <2>1. PICK a \in Actions : /\ Record(EventOf("decision_recorded", a))
                             /\ \E locals : GotoWith(c, "lookup", locals)
    BY <1>3
  <2>2. /\ EventOf("decision_recorded", a) \in Event
        /\ EventOf("decision_recorded", a).type # "action_started"
    BY EventsAreTyped DEF EventTypes, EventOf, About
  <2> QED  BY <1>1, <2>1, <2>2, MoveShape, QuietRecord DEF Recover, RecordDecision
<1>4. CASE Recover(c)
  BY <1>2, <1>4, RepairQuiet DEF Recover
<1> QED  BY <1>2, <1>3, <1>4 DEF RecordDecision

-----------------------------------------------------------------------------
(* Reservations.                                                           *)

LEMMA HeldStays ==
  ASSUME TypeInv, NEW a \in Actions, Evolves(Key[a])
  PROVE  /\ Held(a) => WillHold(a)
         /\ Stored(a) => Stored(a)' /\ StoredStatus(a)' = StoredStatus(a)
         /\ reservations[Key[a]].state # "missing" =>
              reservations'[Key[a]].state # "missing"
<1>1. CASE reservations'[Key[a]] = reservations[Key[a]]
  BY <1>1 DEF Held, WillHold, Stored, StoredStatus
<1>2. CASE reservations'[Key[a]] # reservations[Key[a]]
  BY <1>2 DEF Evolves, Held, WillHold, Stored, StoredStatus
<1> QED  BY <1>1, <1>2

\* The first observation stored for a held key completes it, a later one
\* changes nothing.
LEMMA StoreObservationEvolves ==
  ASSUME TypeInv, NEW a \in Actions, NEW status \in Statuses \union {""}, Held(a),
         StoreObservation(a, status)
  PROVE  /\ \A k \in Keys : Evolves(k)
         /\ Stored(a)'
         /\ StoredStatus(a)' = IF Stored(a) THEN StoredStatus(a) ELSE status
         /\ \A k \in Keys : reservations[k].state = "completed" =>
                              reservations'[k] = reservations[k]
<1>1. Key[a] \in Keys /\ reservations \in [Keys -> Reservation]
  BY ConstantsAssumption DEF TypeInv, TypeOK
<1>2. CASE Stored(a)
  BY <1>2 DEF StoreObservation, Stored, StoredStatus, Evolves
<1>3. CASE ~ Stored(a)
  <2>1. reservations[Key[a]].state = "in_progress" /\ reservations[Key[a]].action = a
    <3>1. reservations[Key[a]] \in Reservation
      BY <1>1
    <3> QED  BY <1>3, <3>1 DEF Held, Stored, Reservation
  <2>2. reservations' = [reservations EXCEPT ![Key[a]] =
          [action |-> a, state |-> "completed", status |-> status]]
    BY <1>3 DEF StoreObservation
  <2> DEFINE entry == [action |-> a, state |-> "completed", status |-> status]
  <2>3. /\ reservations'[Key[a]].state = "completed"
        /\ reservations'[Key[a]].action = a
        /\ reservations'[Key[a]].status = status
        /\ \A k \in Keys \ {Key[a]} : reservations'[k] = reservations[k]
    <3>1. /\ entry.state = "completed" /\ entry.action = a
          /\ entry.status = status
      OBVIOUS
    <3> HIDE DEF entry
    <3>2. /\ reservations'[Key[a]] = entry
          /\ \A k \in Keys \ {Key[a]} : reservations'[k] = reservations[k]
      BY <1>1, <2>2 DEF entry
    <3> QED  BY <3>1, <3>2
  <2>4. \A k \in Keys : Evolves(k)
    BY <2>1, <2>3 DEF Evolves
  <2>5. Stored(a)' /\ StoredStatus(a)' = status
    BY <2>3 DEF Stored, StoredStatus
  <2>6. \A k \in Keys : reservations[k].state = "completed" =>
                          reservations'[k] = reservations[k]
    BY <2>1, <2>3
  <2> QED  BY <1>3, <2>4, <2>5, <2>6
<1> QED  BY <1>2, <1>3

\* What is left to show of a step: the callers and the starts that are new
\* in it hold their keys.
LEMMA ReservationStep ==
  ASSUME TypeInv, TypeInv', ReservationInv,
         \A k \in Keys : Evolves(k),
         \A d \in Callers : pc'[d] \in Holders =>
           \/ pc[d] \in Holders /\ frame'[d].action = frame[d].action
           \/ WillHold(frame'[d].action),
         LogGrows,
         \A i \in DOMAIN log' \ DOMAIN log :
           log'[i].type = "action_started" => WillHold(log'[i].action)
  PROVE  ReservationInv'
<1>1. \A a \in Actions : Held(a) => WillHold(a)
  BY HeldStays, ConstantsAssumption
<1>2. OwnersHold'
  <2> SUFFICES ASSUME NEW d \in Callers, pc'[d] \in Holders
               PROVE  WillHold(frame'[d].action)
    BY DEF OwnersHold, Held, WillHold
  <2>1. CASE pc[d] \in Holders /\ frame'[d].action = frame[d].action
    <3>1. pc[d] \in ActionPoints
      BY <2>1 DEF Holders, Performers, ActionPoints, Points
    <3>2. frame[d].action \in Actions /\ Held(frame[d].action)
      BY <2>1, <3>1, LocalsAtAction DEF ReservationInv, OwnersHold
    <3> QED  BY <1>1, <2>1, <3>2
  <2> QED  BY <2>1
<1>3. StartedHold'
  <2> SUFFICES ASSUME NEW i \in DOMAIN log', log'[i].type = "action_started"
               PROVE  WillHold(log'[i].action)
    BY DEF StartedHold, Held, WillHold
  <2>1. CASE i \in DOMAIN log
    <3>1. log'[i] = log[i] /\ log[i].action \in Actions
      BY <2>1, EventAt DEF LogGrows
    <3>2. Held(log[i].action)
      BY <2>1, <3>1 DEF ReservationInv, StartedHold
    <3> QED  BY <1>1, <3>1, <3>2
  <2> QED  BY <2>1
<1> QED  BY <1>2, <1>3 DEF ReservationInv

\* What a step does to the reservations.
ReservationsKeep ==
  /\ \A k \in Keys : Evolves(k)
  /\ \A k \in Keys : reservations[k].state = "completed" =>
                       reservations'[k] = reservations[k]

LEMMA SameReservationsKeep ==
  ASSUME UNCHANGED reservations  PROVE ReservationsKeep
  BY DEF ReservationsKeep, Evolves

LEMMA QuietReservations ==
  ASSUME TypeInv, TypeInv', ReservationInv, NEW c \in Callers, Quiet(c)
  PROVE  ReservationInv' /\ ReservationsKeep
<1>1. ReservationsKeep
  BY SameReservationsKeep DEF Quiet
<1>2. \A d \in Callers : pc'[d] \in Holders =>
        pc[d] \in Holders /\ frame'[d].action = frame[d].action
  BY DEF Quiet
<1> QED  BY <1>1, <1>2, ReservationStep DEF Quiet, ReservationsKeep

LEMMA ReserveReservations ==
  ASSUME TypeInv, TypeInv', ReservationInv, NEW c \in Callers, Reserve(c)
  PROVE  ReservationInv' /\ ReservationsKeep
<1> DEFINE a == frame[c].action
           entry == [action |-> a, state |-> "in_progress", status |-> ""]
<1>1. pc[c] \in ActionPoints /\ a \in Actions
  BY LocalsAtAction DEF Reserve, Points, ActionPoints
<1>2. CASE /\ reservations[Key[a]].state = "missing"
           /\ reservations' = [reservations EXCEPT ![Key[a]] = entry]
           /\ Goto(c, "start") /\ UNCHANGED log
  <2>1. Key[a] \in Keys /\ reservations \in [Keys -> Reservation]
    BY <1>1, ConstantsAssumption DEF TypeInv, TypeOK
  <2>2. /\ reservations'[Key[a]].state = "in_progress"
        /\ reservations'[Key[a]].action = a
        /\ \A k \in Keys \ {Key[a]} : reservations'[k] = reservations[k]
    <3>1. entry.state = "in_progress" /\ entry.action = a
      OBVIOUS
    <3> HIDE DEF entry
    <3>2. /\ reservations'[Key[a]] = entry
          /\ \A k \in Keys \ {Key[a]} : reservations'[k] = reservations[k]
      BY <1>2, <2>1
    <3> QED  BY <3>1, <3>2
  <2>3. ReservationsKeep
    BY <1>2, <2>2 DEF ReservationsKeep, Evolves
  <2>4. WillHold(frame'[c].action)
    BY <1>2, <2>2, GotoShape DEF WillHold
  <2>5. LogGrows /\ DOMAIN log' = DOMAIN log
    BY <1>2, SameLogGrows
  <2>6. \A d \in Callers \ {c} : pc'[d] = pc[d] /\ frame'[d] = frame[d]
    BY <1>2, GotoShape
  <2> QED  BY <2>3, <2>4, <2>5, <2>6, ReservationStep DEF ReservationsKeep
<1>3. CASE ~ (reservations[Key[a]].state = "missing") /\ UNCHANGED reservations
  <2>1. UNCHANGED effects
    BY DEF Reserve
  <2>2. CASE Replay(c) \/ KeyConflicts(c)
    BY <1>1, <1>3, <2>1, <2>2, ReplayQuiet, QuietReservations
  <2>3. CASE Record(EventOf("action_recovery_required", a)) /\ Return(c)
    <3>1. /\ EventOf("action_recovery_required", a) \in Event
          /\ EventOf("action_recovery_required", a).type # "action_started"
      BY <1>1, EventsAreTyped DEF EventTypes, EventOf, About
    <3> QED  BY <1>3, <2>1, <2>3, <3>1, QuietReturn, QuietReservations
  <2> QED  BY <1>3, <2>2, <2>3 DEF Reserve
<1>4. \/ reservations[Key[a]].state = "missing" /\ Goto(c, "start")
      \/ ~ (reservations[Key[a]].state = "missing") /\ UNCHANGED reservations
  BY DEF Reserve, Replay, KeyConflicts, Stored, KeyConflict
<1>5. Goto(c, "start") => pc'[c] = "start"
  BY GotoShape
<1>6. CASE reservations[Key[a]].state = "missing"
  BY <1>2, <1>6 DEF Reserve, Replay, KeyConflicts, Stored, KeyConflict
<1> QED  BY <1>3, <1>4, <1>6

LEMMA StartReservations ==
  ASSUME TypeInv, TypeInv', ReservationInv, NEW c \in Callers, Start(c)
  PROVE  ReservationInv' /\ ReservationsKeep
<1> DEFINE a == frame[c].action
<1>1. Held(a) /\ pc[c] \in Holders
  BY DEF Start, ReservationInv, OwnersHold, Holders, Performers
<1>2. WillHold(a)
  BY <1>1 DEF Start, Held, WillHold
<1>3. \A i \in DOMAIN log' \ DOMAIN log : log'[i].action = a
  <2>1. EventOf("action_started", a).action = a
    BY DEF EventOf, About
  <2>2. \A i \in DOMAIN log' \ DOMAIN log :
          log'[i] = EventOf("action_started", a)
    BY RecordedAtEnd DEF Start
  <2> QED  BY <2>1, <2>2
<1>4. LogGrows
  BY RecordedAbout DEF Start, EventOf
<1>5. \A d \in Callers : pc'[d] \in Holders =>
        pc[d] \in Holders /\ frame'[d].action = frame[d].action
  BY <1>1, GotoShape DEF Start
<1>6. ReservationsKeep
  BY SameReservationsKeep DEF Start
<1> QED  BY <1>2, <1>3, <1>4, <1>5, <1>6, ReservationStep DEF ReservationsKeep

\* Steps between points that hold reservations, for the same action.
LEMMA HolderMoves ==
  ASSUME TypeInv, TypeInv', ReservationInv, NEW c \in Callers,
         pc[c] \in Holders, UNCHANGED <<log, reservations>>,
         \E point, status : GotoWith(c, point, Observed(c, status)) \/ Goto(c, point)
  PROVE  ReservationInv' /\ ReservationsKeep
<1>1. \A status : Observed(c, status).action = frame[c].action
  BY DEF Observed, Locals
<1>2. \A d \in Callers : pc'[d] \in Holders =>
        pc[d] \in Holders /\ frame'[d].action = frame[d].action
  BY <1>1, MoveShape, GotoShape
<1>3. ReservationsKeep
  BY SameReservationsKeep
<1>4. LogGrows /\ DOMAIN log' = DOMAIN log
  BY SameLogGrows
<1> QED  BY <1>2, <1>3, <1>4, ReservationStep DEF ReservationsKeep

LEMMA ToolReservations ==
  ASSUME TypeInv, TypeInv', ReservationInv, NEW c \in Callers,
         RunCommand(c) \/ EditFile(c) \/ BeginPatch(c) \/ VerifyPatch(c)
           \/ WritePatch(c)
             \/ ReadBackPatch(c) \/ ToolRaises(c)
  PROVE  ReservationInv' /\ ReservationsKeep
<1> USE DEF RunCommand, EditFile, BeginPatch, VerifyPatch, WritePatch, ReadBackPatch,
           ToolRaises
<1>1. \/ pc[c] = "tool" \/ pc[c] = "verify" \/ pc[c] = "write" \/ pc[c] = "readback"
  OBVIOUS
<1>2. UNCHANGED <<log, reservations>>
  BY DEF store
<1>3. \E point, status : GotoWith(c, point, Observed(c, status)) \/ Goto(c, point)
  BY DEF Finished, PatchStops
<1> QED  BY <1>1, <1>2, <1>3, HolderMoves DEF Holders, Performers

LEMMA CompleteReservations ==
  ASSUME TypeInv, TypeInv', ReservationInv, NEW c \in Callers, Complete(c)
  PROVE  ReservationInv' /\ ReservationsKeep
<1> DEFINE a == frame[c].action
<1>1. /\ pc[c] \in ActionPoints /\ pc[c] \in Holders
  BY DEF Complete, Points, ActionPoints, Holders, Performers
<1>2. Held(a) /\ a \in Actions /\ frame[c].status \in Statuses \union {""}
  BY <1>1, LocalsAtAction DEF ReservationInv, OwnersHold
<1>3. StoreObservation(a, frame[c].status)
  BY DEF Complete
<1>4. ReservationsKeep
  BY <1>2, <1>3, StoreObservationEvolves DEF ReservationsKeep
<1>5. \A status : Observed(c, status).action = a
  BY DEF Observed, Locals
<1>6. \A d \in Callers : pc'[d] \in Holders =>
        pc[d] \in Holders /\ frame'[d].action = frame[d].action
  BY <1>1, <1>5, MoveShape DEF Complete
<1>7. LogGrows /\ DOMAIN log' = DOMAIN log
  BY SameLogGrows DEF Complete
<1> QED  BY <1>4, <1>6, <1>7, ReservationStep DEF ReservationsKeep

\* An action recovery calls ambiguous has started, so it holds its key.
LEMMA AmbiguousIsHeld ==
  ASSUME ReservationInv, NEW a \in Actions,
         Classification(a) = "ambiguous_side_effect"
  PROVE  Held(a)
<1>1. EventsOf(a, {"action_started"}) # {}
  BY DEF Classification
<1> QED  BY <1>1 DEF EventsOf, ReservationInv, StartedHold

LEMMA CheckConfirmableReservations ==
  ASSUME TypeInv, TypeInv', ReservationInv, NEW c \in Callers, CheckConfirmable(c)
  PROVE  ReservationInv' /\ ReservationsKeep
<1>1. pc[c] = "confirming" /\ UNCHANGED <<reservations, effects>>
  BY DEF CheckConfirmable
<1>2. CASE \E a \in Actions : RepairTrail(c, a)
  BY <1>1, <1>2, RepairQuiet, QuietReservations
<1>3. CASE Return(c) /\ UNCHANGED log
  BY <1>1, <1>3, QuietReturn, QuietReservations
<1>4. CASE \E a \in Actions : /\ Classification(a) = "ambiguous_side_effect"
                              /\ GotoWith(c, "confirm", FrameFor(a))
                              /\ UNCHANGED log
  <2>1. PICK a \in Actions : /\ Classification(a) = "ambiguous_side_effect"
                             /\ GotoWith(c, "confirm", FrameFor(a))
                             /\ UNCHANGED log
    BY <1>4
  <2>2. WillHold(a)
    BY <1>1, <2>1, AmbiguousIsHeld DEF Held, WillHold
  <2>3. FrameFor(a).action = a
    BY DEF FrameFor, Locals
  <2>4. WillHold(frame'[c].action)
    BY <2>1, <2>2, <2>3, MoveShape
  <2>5. \A d \in Callers \ {c} : pc'[d] = pc[d] /\ frame'[d] = frame[d]
    BY <2>1, MoveShape
  <2>6. ReservationsKeep
    BY <1>1, SameReservationsKeep
  <2>7. LogGrows /\ DOMAIN log' = DOMAIN log
    BY <2>1, SameLogGrows
  <2> QED  BY <2>4, <2>5, <2>6, <2>7, ReservationStep DEF ReservationsKeep
<1> QED  BY <1>2, <1>3, <1>4 DEF CheckConfirmable

LEMMA ConfirmReservations ==
  ASSUME TypeInv, TypeInv', ReservationInv, NEW c \in Callers,
         ConfirmOutcomeUnknown(c) \/ SettleConfirmation(c)
  PROVE  ReservationInv' /\ ReservationsKeep
<1> DEFINE a == frame[c].action
<1>1. pc[c] \in ActionPoints /\ pc[c] \in Holders
  BY DEF ConfirmOutcomeUnknown, SettleConfirmation, Points, ActionPoints, Holders
<1>2. Held(a) /\ a \in Actions
  BY <1>1, LocalsAtAction DEF ReservationInv, OwnersHold
<1>3. CASE ConfirmOutcomeUnknown(c)
  <2>1. ReservationsKeep
    BY <1>3, SameReservationsKeep DEF ConfirmOutcomeUnknown
  <2>2. Outcome("action_recovery_confirmed", a, "outcome_unknown").type
          # "action_started"
    BY DEF Outcome
  <2>3. \A i \in DOMAIN log' \ DOMAIN log : log'[i].type # "action_started"
    BY <1>3, <2>2, RecordedAtEnd DEF ConfirmOutcomeUnknown
  <2>4. LogGrows
    <3> DEFINE e == Outcome("action_recovery_confirmed", a, "outcome_unknown")
    <3>1. e \in Event
      BY <1>2, EventsAreTyped DEF EventTypes, TerminalTypes, Statuses
    <3> QED  BY <1>3, <3>1, RecordGrows DEF ConfirmOutcomeUnknown
  <2>5. \A d \in Callers : pc'[d] \in Holders =>
          pc[d] \in Holders /\ frame'[d].action = frame[d].action
    BY <1>1, <1>3, GotoShape DEF ConfirmOutcomeUnknown
  <2> QED  BY <2>1, <2>3, <2>4, <2>5, ReservationStep DEF ReservationsKeep
<1>4. CASE SettleConfirmation(c)
  <2>1. "outcome_unknown" \in Statuses \union {""}
    BY DEF Statuses
  <2>2. ReservationsKeep
    BY <1>2, <1>4, <2>1, StoreObservationEvolves
    DEF SettleConfirmation, ReservationsKeep
  <2>3. LogGrows /\ DOMAIN log' = DOMAIN log
    BY <1>4, SameLogGrows DEF SettleConfirmation
  <2>4. \A d \in Callers : pc'[d] \in Holders =>
          pc[d] \in Holders /\ frame'[d].action = frame[d].action
    BY <1>4, ReturnShape DEF SettleConfirmation, Holders, Performers
  <2> QED  BY <2>2, <2>3, <2>4, ReservationStep DEF ReservationsKeep
<1> QED  BY <1>3, <1>4

LEMMA EnvironmentReservations ==
  ASSUME TypeInv, TypeInv', ReservationInv,
         Tick \/ OutsideEdit \/ Crash \/ UNCHANGED vars
  PROVE  ReservationInv' /\ ReservationsKeep
<1>1. UNCHANGED <<log, reservations>>
  BY DEF Tick, OutsideEdit, Crash, vars, store
<1>2. ReservationsKeep
  BY <1>1, SameReservationsKeep
<1>3. \A d \in Callers : pc'[d] \in Holders =>
        pc[d] \in Holders /\ frame'[d].action = frame[d].action
  BY DEF Tick, OutsideEdit, Crash, vars, Holders, Performers
<1>4. LogGrows /\ DOMAIN log' = DOMAIN log
  BY <1>1, SameLogGrows
<1> QED  BY <1>2, <1>3, <1>4, ReservationStep DEF ReservationsKeep

LEMMA ReservationsStep ==
  ASSUME TypeInv, ReservationInv, [Next]_vars
  PROVE  ReservationInv' /\ ReservationsKeep
<1>1. TypeInv'
  BY StepTyped
<1>2. ASSUME NEW c \in Callers, Take(c) \/ Continue(c) \/ ToolRaises(c)
      PROVE  ReservationInv' /\ ReservationsKeep
  BY <1>1, <1>2, ExecuteQuiet, UserQuiet, LoopQuiet, QuietReservations,
     ReserveReservations, StartReservations, ToolReservations,
     CompleteReservations, CheckConfirmableReservations, ConfirmReservations
  DEF Continue
<1> QED  BY <1>1, <1>2, EnvironmentReservations DEF Next

LEMMA InitReservations == Init => ReservationInv
  BY DEF Init, ReservationInv, OwnersHold, StartedHold, Holders, Performers

LEMMA ReservationsHold == Spec => [](TypeInv /\ ReservationInv)
<1>1. TypeInv /\ ReservationInv /\ [Next]_vars => (TypeInv /\ ReservationInv)'
  BY StepTyped, ReservationsStep
<1> QED  BY <1>1, InitTyped, InitReservations, PTL DEF Spec

\* An observation stored for a key is never replaced, whichever threads
\* execute, recover or confirm the action (memory.py, complete_agent_runtime_action).
THEOREM CompletionIsFinal == Spec => CompletedIsFinal
<1>1. TypeInv /\ ReservationInv /\ [Next]_vars =>
        [\A k \in Keys : reservations[k].state = "completed" =>
                           reservations'[k] = reservations[k]]_reservations
  BY ReservationsStep DEF ReservationsKeep
<1> QED  BY <1>1, ReservationsHold, PTL DEF Spec, CompletedIsFinal

-----------------------------------------------------------------------------
(* One effect per key.                                                     *)

OnePerformer ==
  \A c, d \in Callers :
    /\ pc[c] \in Performers /\ pc[d] \in Performers
    /\ Key[frame[c].action] = Key[frame[d].action]
    => c = d

EffectsToCome ==
  \A c \in Callers, e \in DOMAIN effects :
    pc[c] \in Performers => Key[effects[e].action] # Key[frame[c].action]

EffectsReserved ==
  \A e \in DOMAIN effects : reservations[Key[effects[e].action]].state # "missing"

ExclusionInv ==
  OnePerformer /\ EffectsToCome /\ EffectsReserved /\ AtMostOncePerKey

LEMMA EffectAt ==
  ASSUME TypeInv, NEW e \in DOMAIN effects
  PROVE  /\ effects[e] \in Effect
         /\ effects[e].action \in Actions
         /\ Key[effects[e].action] \in Keys
<1>1. effects[e] \in Effect
  BY ElementOfSeq, LenProperties DEF TypeInv, TypeOK
<1>2. effects[e].action \in Actions
  BY <1>1 DEF Effect
<1> QED  BY <1>1, <1>2, ConstantsAssumption

\* A reserved key stays reserved.
LEMMA ReservedStays ==
  ASSUME NEW k \in Keys, ReservationsKeep, reservations[k].state # "missing"
  PROVE  reservations'[k].state # "missing"
  BY DEF ReservationsKeep, Evolves

LEMMA NoNewPerformer ==
  ASSUME TypeInv, ExclusionInv, ReservationsKeep, UNCHANGED effects,
         \A d \in Callers : pc'[d] \in Performers =>
           pc[d] \in Performers /\ frame'[d].action = frame[d].action
  PROVE  ExclusionInv'
<1>1. OnePerformer'
  BY DEF ExclusionInv, OnePerformer
<1>2. EffectsToCome'
  BY DEF ExclusionInv, EffectsToCome
<1>3. EffectsReserved'
  BY EffectAt, ReservedStays DEF ExclusionInv, EffectsReserved
<1>4. AtMostOncePerKey'
  BY DEF ExclusionInv, AtMostOncePerKey
<1> QED  BY <1>1, <1>2, <1>3, <1>4 DEF ExclusionInv

\* Reserve lets a caller perform only if nobody has the key, so nobody else
\* can perform under it and nothing has been performed under it.
LEMMA ReserveExcludes ==
  ASSUME TypeInv, ReservationInv, ReservationsKeep, ExclusionInv,
         NEW c \in Callers, Reserve(c)
  PROVE  ExclusionInv'
<1> DEFINE a == frame[c].action
<1>1. UNCHANGED effects
  BY DEF Reserve
<1>2. CASE reservations[Key[a]].state = "missing" /\ Goto(c, "start")
  <2>1. /\ \A d \in Callers \ {c} : pc'[d] = pc[d] /\ frame'[d] = frame[d]
        /\ pc'[c] = "start" /\ frame'[c] = frame[c]
    BY <1>2, GotoShape
  <2>2. \A d \in Callers : pc[d] \in Performers => Key[frame[d].action] # Key[a]
    BY <1>2 DEF ReservationInv, OwnersHold, Held, Holders
  <2>3. \A e \in DOMAIN effects : Key[effects[e].action] # Key[a]
    BY <1>2 DEF ExclusionInv, EffectsReserved
  <2>4. OnePerformer'
    BY <2>1, <2>2 DEF ExclusionInv, OnePerformer
  <2>5. EffectsToCome'
    BY <1>1, <2>1, <2>3 DEF ExclusionInv, EffectsToCome
  <2>6. EffectsReserved'
    BY <1>1, EffectAt, ReservedStays DEF ExclusionInv, EffectsReserved
  <2>7. AtMostOncePerKey'
    BY <1>1 DEF ExclusionInv, AtMostOncePerKey
  <2> QED  BY <2>4, <2>5, <2>6, <2>7 DEF ExclusionInv
<1>3. CASE Return(c)
  BY <1>1, <1>3, ReturnShape, NoNewPerformer DEF Performers
<1> QED  BY <1>2, <1>3 DEF Reserve, Replay, KeyConflicts

\* The caller that performs was the only one of its key, and stops being one.
LEMMA PerformOnce ==
  ASSUME TypeInv, ReservationInv, ReservationsKeep, ExclusionInv,
         NEW c \in Callers, pc[c] \in Performers, Perform(c),
         \A d \in Callers \ {c} : pc'[d] = pc[d] /\ frame'[d] = frame[d],
         pc'[c] \notin Performers
  PROVE  ExclusionInv'
<1> DEFINE a == frame[c].action
           n == Len(effects)
<1>1. /\ n \in Nat
      /\ DOMAIN effects = 1 .. n
      /\ DOMAIN effects' = 1 .. (n + 1)
      /\ \A e \in 1 .. n : effects'[e] = effects[e]
      /\ effects'[n + 1].action = a
  <2> DEFINE new == [action |-> frame[c].action, checkpoint |-> frame[c].checkpoint,
                     baseline |-> frame[c].baseline,
                     checkedAt |-> frame[c].checkedAt, onto |-> disk]
  <2>1. new.action = a
    OBVIOUS
  <2>2. effects' = Append(effects, new)
    BY DEF Perform
  <2>3. effects \in Seq(Effect)
    BY DEF TypeInv, TypeOK
  <2> HIDE DEF new
  <2>4. DOMAIN effects = 1 .. n /\ n \in Nat
    BY <2>3, LenProperties
  <2>5. /\ DOMAIN effects' = 1 .. (n + 1)
        /\ \A e \in 1 .. n : effects'[e] = effects[e]
        /\ effects'[n + 1] = new
    BY <2>2, <2>3, SMT
  <2> QED  BY <2>1, <2>4, <2>5
<1>2. a \in Actions /\ Key[a] \in Keys /\ reservations[Key[a]].state # "missing"
  <2>1. pc[c] \in ActionPoints
    BY DEF Performers, ActionPoints, Points
  <2>2. a \in Actions
    BY <2>1, LocalsAtAction
  <2> QED  BY <2>2, ConstantsAssumption DEF ReservationInv, OwnersHold, Held, Holders
<1>3. \A e \in 1 .. n : Key[effects[e].action] # Key[a]
  BY <1>1 DEF ExclusionInv, EffectsToCome
<1>4. \A d \in Callers : pc'[d] \in Performers =>
        /\ pc[d] \in Performers /\ frame'[d].action = frame[d].action
        /\ Key[frame[d].action] # Key[a]
  BY DEF ExclusionInv, OnePerformer
<1>5. OnePerformer'
  BY <1>4 DEF ExclusionInv, OnePerformer
<1>6. EffectsToCome'
  <2> SUFFICES ASSUME NEW d \in Callers, NEW e \in 1 .. (n + 1), pc'[d] \in Performers
               PROVE  Key[effects'[e].action] # Key[frame'[d].action]
    BY <1>1 DEF EffectsToCome
  <2>1. CASE e \in 1 .. n
    BY <1>1, <1>4, <2>1 DEF ExclusionInv, EffectsToCome
  <2>2. CASE e = n + 1
    BY <1>1, <1>4, <2>2
  <2> QED  BY <1>1, <2>1, <2>2
<1>7. EffectsReserved'
  <2> SUFFICES ASSUME NEW e \in 1 .. (n + 1)
               PROVE  reservations'[Key[effects'[e].action]].state # "missing"
    BY <1>1 DEF EffectsReserved
  <2>1. CASE e \in 1 .. n
    BY <1>1, <2>1, EffectAt, ReservedStays DEF ExclusionInv, EffectsReserved
  <2>2. CASE e = n + 1
    BY <1>1, <1>2, <2>2, ReservedStays
  <2> QED  BY <1>1, <2>1, <2>2
<1>8. AtMostOncePerKey'
  <2> SUFFICES ASSUME NEW i \in 1 .. (n + 1), NEW j \in 1 .. (n + 1),
                      Key[effects'[i].action] = Key[effects'[j].action]
               PROVE  i = j
    BY <1>1 DEF AtMostOncePerKey
  <2>1. CASE i \in 1 .. n /\ j \in 1 .. n
    BY <1>1, <2>1 DEF ExclusionInv, AtMostOncePerKey
  <2>2. CASE i = n + 1 \/ j = n + 1
    BY <1>1, <1>3, <2>2
  <2> QED  BY <1>1, <2>1, <2>2
<1> QED  BY <1>5, <1>6, <1>7, <1>8 DEF ExclusionInv

LEMMA ExclusionStep ==
  ASSUME TypeInv, ReservationInv, ExclusionInv, [Next]_vars
  PROVE  ExclusionInv'
<1>1. ReservationsKeep
  BY ReservationsStep
<1>2. ASSUME NEW c \in Callers, Quiet(c)  PROVE ExclusionInv'
  BY <1>1, <1>2, NoNewPerformer DEF Quiet, Holders
<1>3. ASSUME NEW c \in Callers, RunCommand(c) \/ EditFile(c) \/ WritePatch(c)
      PROVE  ExclusionInv'
  <2>1. Perform(c) /\ pc[c] \in Performers
    BY <1>3 DEF RunCommand, EditFile, WritePatch, Performers
  <2>2. /\ \A d \in Callers \ {c} : pc'[d] = pc[d] /\ frame'[d] = frame[d]
        /\ pc'[c] \in {"complete", "readback"}
    BY <1>3, MoveShape, GotoShape DEF RunCommand, EditFile, WritePatch, Finished
  <2> QED  BY <1>1, <2>1, <2>2, PerformOnce DEF Performers
<1>4. ASSUME NEW c \in Callers,
             Start(c) \/ BeginPatch(c) \/ VerifyPatch(c) \/ ReadBackPatch(c)
               \/ ToolRaises(c)
      PROVE  ExclusionInv'
  <2>1. UNCHANGED effects /\ pc[c] \in Holders
    BY <1>4 DEF Start, BeginPatch, VerifyPatch, ReadBackPatch, ToolRaises,
                Holders, Performers
  <2>2. \/ \E point : Goto(c, point) /\ pc[c] \in Performers
        \/ \E locals : GotoWith(c, "complete", locals)
    BY <1>4 DEF Start, BeginPatch, VerifyPatch, ReadBackPatch, ToolRaises, PatchStops,
                Finished, Performers
  <2>3. \A d \in Callers : pc'[d] \in Performers =>
          pc[d] \in Performers /\ frame'[d].action = frame[d].action
    BY <2>2, MoveShape, GotoShape DEF Performers
  <2> QED  BY <1>1, <2>1, <2>3, NoNewPerformer
<1>5. ASSUME NEW c \in Callers,
             Complete(c) \/ ConfirmOutcomeUnknown(c) \/ SettleConfirmation(c)
               \/ CheckConfirmable(c)
      PROVE  ExclusionInv'
  <2>1. UNCHANGED effects
    BY <1>5 DEF Complete, ConfirmOutcomeUnknown, SettleConfirmation, CheckConfirmable
  <2>2. \/ \E point \in {"report", "confirm"} : \E locals : GotoWith(c, point, locals)
        \/ Goto(c, "settle") \/ Return(c) \/ UNCHANGED <<pc, frame>>
    BY <1>5 DEF Complete, ConfirmOutcomeUnknown, SettleConfirmation,
                CheckConfirmable, RepairTrail
  <2>3. \A d \in Callers : pc'[d] \in Performers =>
          pc[d] \in Performers /\ frame'[d].action = frame[d].action
    BY <2>2, MoveShape, GotoShape, ReturnShape DEF Performers
  <2> QED  BY <1>1, <2>1, <2>3, NoNewPerformer
<1>6. CASE Tick \/ OutsideEdit \/ Crash \/ UNCHANGED vars
  <2>1. UNCHANGED effects
    BY <1>6 DEF Tick, OutsideEdit, Crash, vars
  <2>2. \A d \in Callers : pc'[d] \in Performers =>
          pc[d] \in Performers /\ frame'[d].action = frame[d].action
    BY <1>6 DEF Tick, OutsideEdit, Crash, vars, Performers
  <2> QED  BY <1>1, <2>1, <2>2, NoNewPerformer
<1>7. ASSUME NEW c \in Callers, Take(c) \/ Continue(c) \/ ToolRaises(c)
      PROVE  ExclusionInv'
  BY <1>1, <1>2, <1>3, <1>4, <1>5, <1>7, ExecuteQuiet, UserQuiet, LoopQuiet,
     ReserveExcludes DEF Continue
<1> QED  BY <1>6, <1>7 DEF Next

LEMMA InitExclusion == Init => ExclusionInv
  BY DEF Init, ExclusionInv, OnePerformer, EffectsToCome, EffectsReserved,
         AtMostOncePerKey, Performers

LEMMA ExclusionHolds == Spec => [](TypeInv /\ ReservationInv /\ ExclusionInv)
<1>1. TypeInv /\ ReservationInv /\ ExclusionInv /\ [Next]_vars
        => (TypeInv /\ ReservationInv /\ ExclusionInv)'
  BY StepTyped, ReservationsStep, ExclusionStep
<1> QED  BY <1>1, InitTyped, InitReservations, InitExclusion, PTL DEF Spec

\* No write or command is performed twice under one idempotency key, however
\* many threads execute it and wherever the process dies (store.reserve).
THEOREM PerformedAtMostOnce == Spec => []AtMostOncePerKey
<1>1. ExclusionInv => AtMostOncePerKey
  BY DEF ExclusionInv
<1> QED  BY <1>1, ExclusionHolds, PTL

-----------------------------------------------------------------------------
(* Reports.                                                                *)

ResultTypes == {"action_completed", "action_replayed", "action_recovered"}

Truthful(event) ==
  event.type \in ResultTypes =>
    Stored(event.action) /\ event.status = StoredStatus(event.action)

ReportersAgree ==
  \A c \in Callers :
    pc[c] = "report" => /\ Stored(frame[c].action)
                        /\ frame[c].status = StoredStatus(frame[c].action)

LEMMA TruthfulIsReportsAgree == ReportsAgree <=> \A i \in DOMAIN log : Truthful(log[i])
  BY DEF ReportsAgree, Truthful, ResultTypes

LEMMA RecordedResult ==
  ASSUME TypeInv, NEW type, NEW a, NEW s, Record(Outcome(type, a, s))
  PROVE  \A i \in DOMAIN log' \ DOMAIN log :
           log'[i].type = type /\ log'[i].action = a /\ log'[i].status = s
<1> DEFINE e == Outcome(type, a, s)
<1>1. e.type = type /\ e.action = a /\ e.status = s
  BY DEF Outcome
<1>2. \A i \in DOMAIN log' \ DOMAIN log : log'[i] = e
  BY RecordedAtEnd
<1> QED  BY <1>1, <1>2

\* Every event a step appends is true of the store.
LEMMA NewEventsTruthful ==
  ASSUME TypeInv, ReportersAgree, NEW c \in Callers,
         Take(c) \/ Continue(c) \/ ToolRaises(c)
  PROVE  \A i \in DOMAIN log' \ DOMAIN log : Truthful(log'[i])
<1>1. CASE UNCHANGED log
  BY <1>1
<1>2. CASE \E type, a, n, b, t : /\ type \notin ResultTypes
                                 /\ Record(About(type, a, n, b, t))
  BY <1>2, RecordedAbout DEF Truthful
<1>3. CASE \E type, a, s : /\ Record(Outcome(type, a, s))
                           /\ type \in ResultTypes =>
                                Stored(a) /\ s = StoredStatus(a)
  <2>1. PICK type, a, s : /\ Record(Outcome(type, a, s))
                          /\ type \in ResultTypes => Stored(a) /\ s = StoredStatus(a)
    BY <1>3
  <2> QED  BY <2>1, RecordedResult DEF Truthful
<1> USE DEF ResultTypes
<1>4. CASE Take(c)
  BY <1>1, <1>4 DEF Take, Approve, Reject, Resume, Confirm, Begin, store
<1>5. CASE Recover(c) \/ RecordDecision(c) \/ CheckConfirmable(c)
  BY <1>1, <1>2, <1>3, <1>5
  DEF Recover, RecordDecision, CheckConfirmable, RepairTrail, EventOf
<1>6. CASE \/ ConfirmOutcomeUnknown(c) \/ SettleConfirmation(c)
           \/ CheckGrantable(c) \/ GrantApproval(c)
           \/ CheckRejectable(c) \/ RejectApproval(c)
  BY <1>1, <1>2, <1>3, <1>6
  DEF ConfirmOutcomeUnknown, SettleConfirmation, CheckGrantable, GrantApproval,
      CheckRejectable, RejectApproval, store
<1>7. CASE Lookup(c) \/ Reserve(c)
  <2>1. CASE Replay(c) \/ KeyConflicts(c)
    BY <1>3, <2>1 DEF Replay, KeyConflicts
  <2>2. CASE Lookup(c)
    <3>1. \/ Record(Outcome("action_denied", frame[c].action, "policy_denied"))
          \/ Replay(c) \/ KeyConflicts(c) \/ UNCHANGED log
      BY <2>2 DEF Lookup
    <3> QED  BY <1>1, <1>3, <2>1, <3>1
  <2>3. CASE Reserve(c)
    <3>1. \/ Record(About("action_recovery_required", frame[c].action,
                          0, NoContent, 0))
          \/ Replay(c) \/ KeyConflicts(c) \/ UNCHANGED log
      BY <2>3 DEF Reserve, EventOf
    <3> QED  BY <1>1, <1>2, <2>1, <3>1
  <2> QED  BY <1>7, <2>2, <2>3
<1>8. CASE Preview(c)
  <2>1. CASE \/ Record(Outcome("action_failed", frame[c].action, "failed"))
             \/ Record(Outcome("action_conflict", frame[c].action, "conflict"))
    BY <1>3, <2>1
  <2>2. CASE Record(IF disk = Absent
                    THEN Outcome("action_failed", frame[c].action, "failed")
                    ELSE Outcome("action_conflict", frame[c].action, "conflict"))
    <3>1. CASE disk = Absent
      BY <2>1, <2>2, <3>1
    <3>2. CASE disk # Absent
      BY <2>1, <2>2, <3>2
    <3> QED  BY <3>1, <3>2
  <2> QED  BY <1>1, <1>8, <2>2 DEF Preview
<1>9. CASE CheckGrant(c) \/ RequestApproval(c) \/ Authorize(c)
             \/ ConsumeApproval(c) \/ Start(c)
  BY <1>1, <1>2, <1>9
  DEF CheckGrant, RequestApproval, Authorize, ConsumeApproval, Start, EventOf, store
<1>10. CASE RunCommand(c) \/ EditFile(c) \/ BeginPatch(c) \/ VerifyPatch(c)
              \/ WritePatch(c)
             \/ ReadBackPatch(c) \/ ToolRaises(c) \/ Complete(c)
  BY <1>1, <1>10
  DEF RunCommand, EditFile, BeginPatch, VerifyPatch, WritePatch, ReadBackPatch,
           ToolRaises,
      Complete, store
<1>11. CASE Report(c)
  BY <1>3, <1>11 DEF Report, ReportersAgree
<1> QED  BY <1>4, <1>5, <1>6, <1>7, <1>8, <1>9, <1>10, <1>11 DEF Continue

ReportInv == ReportsAgree /\ ReportersAgree

\* No step takes an event out of the log, or changes one.
LEMMA LogOnlyGrows ==
  ASSUME TypeInv, [Next]_vars
  PROVE  LogGrows
<1>1. CASE UNCHANGED log
  BY <1>1, SameLogGrows
<1>2. CASE \E e : Record(e)
  BY <1>2, SMT DEF Record, LogGrows, TypeInv, TypeOK
<1>3. CASE Tick \/ OutsideEdit \/ Crash \/ UNCHANGED vars
  BY <1>1, <1>3 DEF Tick, OutsideEdit, Crash, vars, store
<1>4. ASSUME NEW c \in Callers, Quiet(c)  PROVE LogGrows
  BY <1>4 DEF Quiet
<1>5. ASSUME NEW c \in Callers,
             \/ Reserve(c) \/ Start(c) \/ RunCommand(c) \/ EditFile(c)
             \/ BeginPatch(c) \/ VerifyPatch(c) \/ WritePatch(c)
             \/ ReadBackPatch(c) \/ ToolRaises(c)
             \/ CheckConfirmable(c) \/ ConfirmOutcomeUnknown(c)
             \/ SettleConfirmation(c) \/ Complete(c)
      PROVE  LogGrows
  <2>1. UNCHANGED log \/ \E e : Record(e)
    BY <1>5 DEF Reserve, Start, RunCommand, EditFile, BeginPatch, VerifyPatch,
                WritePatch, ReadBackPatch, ToolRaises, CheckConfirmable, RepairTrail,
                Complete,
                ConfirmOutcomeUnknown, SettleConfirmation, Replay, KeyConflicts, store
  <2> QED  BY <1>1, <1>2, <2>1
<1> QED  BY <1>3, <1>4, <1>5, ExecuteQuiet, UserQuiet, LoopQuiet DEF Next, Continue

LEMMA ReportersStep ==
  ASSUME TypeInv, ReservationInv, ReportInv, [Next]_vars
  PROVE  ReportersAgree'
<1>1. ReservationsKeep
  BY ReservationsStep
<1>2. \A a \in Actions : Stored(a) => Stored(a)' /\ StoredStatus(a)' = StoredStatus(a)
  <2> SUFFICES ASSUME NEW a \in Actions, Stored(a)
               PROVE  Stored(a)' /\ StoredStatus(a)' = StoredStatus(a)
    OBVIOUS
  <2>1. reservations'[Key[a]] = reservations[Key[a]]
    BY <1>1, ConstantsAssumption DEF ReservationsKeep, Stored
  <2> QED  BY <2>1 DEF Stored, StoredStatus
<1>3. ASSUME \A d \in Callers : pc'[d] = "report" =>
               pc[d] = "report" /\ frame'[d] = frame[d]
      PROVE  ReportersAgree'
  <2> SUFFICES ASSUME NEW d \in Callers, pc'[d] = "report"
               PROVE  /\ reservations'[Key[frame'[d].action]].state = "completed"
                      /\ reservations'[Key[frame'[d].action]].action = frame'[d].action
                      /\ frame'[d].status = reservations'[Key[frame'[d].action]].status
    BY DEF ReportersAgree, Stored, StoredStatus
  <2>1. pc[d] = "report" /\ frame'[d] = frame[d]
    BY <1>3
  <2>2. frame[d].action \in Actions
    BY <2>1, LocalsAtAction DEF ActionPoints, Points
  <2>3. /\ Stored(frame[d].action)
        /\ frame[d].status = StoredStatus(frame[d].action)
    BY <2>1 DEF ReportInv, ReportersAgree
  <2> QED  BY <1>2, <2>1, <2>2, <2>3 DEF Stored, StoredStatus
<1>4. ASSUME NEW c \in Callers, Complete(c)  PROVE ReportersAgree'
  <2>1. /\ pc[c] \in ActionPoints /\ pc[c] \in Holders
    BY <1>4 DEF Complete, Points, ActionPoints, Holders
  <2>2. /\ Held(frame[c].action) /\ frame[c].action \in Actions
        /\ frame[c].status \in Statuses \union {""}
    BY <2>1, LocalsAtAction DEF ReservationInv, OwnersHold
  <2>3. PICK a \in Actions : a = frame[c].action
    BY <2>2
  <2>4. PICK own \in Statuses \union {""} : own = frame[c].status
    BY <2>2
  <2>5. PICK s : s = IF Stored(a) THEN StoredStatus(a) ELSE own
    OBVIOUS
  <2>6. StoreObservation(a, own) /\ Held(a)
    BY <1>4, <2>2, <2>3, <2>4 DEF Complete
  <2>7. Stored(a)' /\ StoredStatus(a)' = s
    BY <2>5, <2>6, StoreObservationEvolves
  <2>8. /\ \A d \in Callers \ {c} : pc'[d] = pc[d] /\ frame'[d] = frame[d]
        /\ frame'[c] = Observed(c, s)
    BY <1>4, <2>3, <2>4, <2>5, MoveShape DEF Complete
  <2>9. Observed(c, s).action = a /\ Observed(c, s).status = s
    BY <2>3 DEF Observed, Locals
  <2> SUFFICES ASSUME NEW d \in Callers, pc'[d] = "report"
               PROVE  /\ reservations'[Key[frame'[d].action]].state = "completed"
                      /\ reservations'[Key[frame'[d].action]].action = frame'[d].action
                      /\ frame'[d].status = reservations'[Key[frame'[d].action]].status
    BY DEF ReportersAgree, Stored, StoredStatus
  <2>10. CASE d = c
    BY <2>7, <2>8, <2>9, <2>10 DEF Stored, StoredStatus
  <2>11. CASE d # c
    <3>1. pc[d] = "report" /\ frame'[d] = frame[d]
      BY <2>8, <2>11
    <3>2. frame[d].action \in Actions
      BY <3>1, LocalsAtAction DEF ActionPoints, Points
    <3>3. /\ Stored(frame[d].action)
          /\ frame[d].status = StoredStatus(frame[d].action)
      BY <3>1 DEF ReportInv, ReportersAgree
    <3> QED  BY <1>2, <3>1, <3>2, <3>3 DEF Stored, StoredStatus
  <2> QED  BY <2>10, <2>11
<1>5. CASE Tick \/ OutsideEdit \/ Crash \/ UNCHANGED vars
  BY <1>3, <1>5 DEF Tick, OutsideEdit, Crash, vars
<1>6. ASSUME NEW c \in Callers, Quiet(c)  PROVE ReportersAgree'
  BY <1>3, <1>6 DEF Quiet, Holders
<1>7. ASSUME NEW c \in Callers,
             \/ Reserve(c) \/ Start(c) \/ RunCommand(c) \/ EditFile(c)
             \/ BeginPatch(c) \/ VerifyPatch(c) \/ WritePatch(c)
             \/ ReadBackPatch(c) \/ ToolRaises(c)
             \/ CheckConfirmable(c) \/ ConfirmOutcomeUnknown(c) \/ SettleConfirmation(c)
      PROVE  ReportersAgree'
  <2>1. \/ \E point \in {"start", "tool", "verify", "write", "readback", "settle"} :
             Goto(c, point)
        \/ \E point \in {"complete", "confirm"} : \E locals : GotoWith(c, point, locals)
        \/ Return(c) \/ UNCHANGED <<pc, frame>>
    BY <1>7 DEF Reserve, Start, RunCommand, EditFile, BeginPatch, VerifyPatch,
                WritePatch, ReadBackPatch, ToolRaises, PatchStops, Finished,
                CheckConfirmable,
                RepairTrail, ConfirmOutcomeUnknown, SettleConfirmation, Replay,
                KeyConflicts
  <2> QED  BY <1>3, <2>1, GotoShape, MoveShape, ReturnShape
<1> QED  BY <1>4, <1>5, <1>6, <1>7, ExecuteQuiet, UserQuiet, LoopQuiet DEF Next, Continue

LEMMA ReportsStep ==
  ASSUME TypeInv, ReservationInv, ReportInv, [Next]_vars
  PROVE  ReportInv'
<1>1. ReportersAgree' /\ ReservationsKeep /\ TypeInv'
  BY ReportersStep, ReservationsStep, StepTyped
<1>2. \A i \in DOMAIN log' \ DOMAIN log : Truthful(log'[i])
  <2>1. ASSUME NEW c \in Callers, Take(c) \/ Continue(c) \/ ToolRaises(c)
        PROVE  \A i \in DOMAIN log' \ DOMAIN log : Truthful(log'[i])
    BY <2>1, NewEventsTruthful DEF ReportInv
  <2>2. CASE Tick \/ OutsideEdit \/ Crash \/ UNCHANGED vars
    BY <2>2 DEF Tick, OutsideEdit, Crash, vars, store
  <2> QED  BY <2>1, <2>2 DEF Next
<1>3. \A i \in DOMAIN log : log'[i] = log[i] /\ Truthful(log[i])
  BY LogOnlyGrows, TruthfulIsReportsAgree DEF ReportInv, LogGrows
<1>4. ReportsAgree'
  <2> SUFFICES ASSUME NEW i \in DOMAIN log', log'[i].type \in ResultTypes
               PROVE  /\ reservations'[Key[log'[i].action]].state = "completed"
                      /\ reservations'[Key[log'[i].action]].action = log'[i].action
                      /\ log'[i].status = reservations'[Key[log'[i].action]].status
    BY DEF ReportsAgree, ResultTypes, Stored, StoredStatus
  <2>1. Truthful(log'[i])
    BY <1>2, <1>3
  <2>2. Key[log'[i].action] \in Keys
    <3>1. log' \in Seq(Event)
      BY <1>1 DEF TypeInv, TypeOK
    <3>2. log'[i] \in Event
      BY <3>1, ElementOfSeq, LenProperties
    <3> QED  BY <3>2, ConstantsAssumption DEF Event
  <2>3. reservations'[Key[log'[i].action]] = reservations[Key[log'[i].action]]
    BY <1>1, <2>1, <2>2 DEF Truthful, Stored, ReservationsKeep
  <2> QED  BY <2>1, <2>3 DEF Truthful, Stored, StoredStatus
<1> QED  BY <1>1, <1>4 DEF ReportInv

\* Every success, replay and recovered result in the log is the result stored
\* for the action (execute reports what store.complete returns).
THEOREM ReportsAlwaysAgree == Spec => []ReportsAgree
<1>1. Init => ReportInv
  BY DEF Init, ReportInv, ReportsAgree, ReportersAgree
<1>2. TypeInv /\ ReservationInv /\ ReportInv /\ [Next]_vars => ReportInv'
  BY ReportsStep
<1>3. ReportInv => ReportsAgree
  BY DEF ReportInv
<1> QED  BY <1>1, <1>2, <1>3, ReservationsHold, PTL DEF Spec
=============================================================================
