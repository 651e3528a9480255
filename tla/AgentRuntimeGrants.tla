------------------------- MODULE AgentRuntimeGrants -------------------------
(***************************************************************************)
(* Every effect was granted, patches do not clobber each other, and the    *)
(* runtime implements the approved-once promise; with one thread, a        *)
(* rejection holds and recovery sees what waits and what was performed.    *)
(* The argument: what the log must show before a caller may go on is only  *)
(* ever added to, so each point of execute keeps what the points before it *)
(* established; at the tool the whole trail is there.  What recovery needs *)
(* besides, RecoveryInv, comes with its theorems at the end.               *)
(***************************************************************************)
EXTENDS AgentRuntimeProofs, AgentRuntimeRefinement

-----------------------------------------------------------------------------
(* The trail of a granted effect in a log l.  f is an effect, or the       *)
(* locals of the caller that is about to make it one.                      *)

Granting(l, g, f) ==
  /\ g \in DOMAIN l
  /\ l[g].type = "approval_granted"
  /\ l[g].action = f.action
  /\ l[g].checkpoint = f.checkpoint
  /\ l[g].baseline = f.baseline
  /\ f.checkedAt < l[g].expires

EventIn(l, i, type, f) ==
  i \in DOMAIN l /\ l[i].type = type /\ l[i].action = f.action

GrantedIn(l, f) == \E g \in DOMAIN l : Granting(l, g, f)

AuthorizedIn(l, f) ==
  \E g, u \in DOMAIN l :
    Granting(l, g, f) /\ EventIn(l, u, "action_authorized", f) /\ g < u

ConsumedIn(l, f) ==
  \E g, u, v \in DOMAIN l :
    /\ Granting(l, g, f) /\ EventIn(l, u, "action_authorized", f)
    /\ EventIn(l, v, "approval_consumed", f)
    /\ g < u /\ u < v

StartedIn(l, f) ==
  \E g, u, v, w \in DOMAIN l :
    /\ Granting(l, g, f) /\ EventIn(l, u, "action_authorized", f)
    /\ EventIn(l, v, "approval_consumed", f)
    /\ EventIn(l, w, "action_started", f)
    /\ g < u /\ u < v /\ v < w

\* What the policy and the log have shown when a caller is at a point.
PermittedPoints == {"preview", "check", "request", "authorize", "consume",
                    "reserve", "start", "tool", "verify", "write"}

Entitled(l, point, f) ==
  /\ point \in PermittedPoints => f.action \in Permitted
  /\ point = "authorize" => GrantedIn(l, f)
  /\ point = "consume" => AuthorizedIn(l, f)
  /\ point \in {"reserve", "start"} => ConsumedIn(l, f)
  /\ point \in {"tool", "verify", "write"} => StartedIn(l, f)

CallersEntitled == \A c \in Callers : Entitled(log, pc[c], frame[c])

EffectsEntitled ==
  \A e \in DOMAIN effects :
    effects[e].action \in Permitted /\ StartedIn(log, effects[e])

GrantInv == CallersEntitled /\ EffectsEntitled

\* A log that grows keeps every trail.
LEMMA TrailStays ==
  ASSUME NEW l, NEW m, DOMAIN l \subseteq DOMAIN m, \A i \in DOMAIN l : m[i] = l[i],
         NEW f
  PROVE  /\ GrantedIn(l, f) => GrantedIn(m, f)
         /\ AuthorizedIn(l, f) => AuthorizedIn(m, f)
         /\ ConsumedIn(l, f) => ConsumedIn(m, f)
         /\ StartedIn(l, f) => StartedIn(m, f)
         /\ \A point : Entitled(l, point, f) => Entitled(m, point, f)
<1>1. \A g \in DOMAIN l : Granting(l, g, f) => g \in DOMAIN m /\ Granting(m, g, f)
  BY DEF Granting
<1>2. \A i \in DOMAIN l : \A type :
        EventIn(l, i, type, f) => i \in DOMAIN m /\ EventIn(m, i, type, f)
  BY DEF EventIn
<1>3. GrantedIn(l, f) => GrantedIn(m, f)
  BY <1>1 DEF GrantedIn
<1>4. AuthorizedIn(l, f) => AuthorizedIn(m, f)
  BY <1>1, <1>2 DEF AuthorizedIn
<1>5. ConsumedIn(l, f) => ConsumedIn(m, f)
  BY <1>1, <1>2 DEF ConsumedIn
<1>6. StartedIn(l, f) => StartedIn(m, f)
  BY <1>1, <1>2 DEF StartedIn
<1> QED  BY <1>3, <1>4, <1>5, <1>6 DEF Entitled

\* Points at which nothing has to be shown.
LEMMA FreePoint ==
  ASSUME NEW l, NEW f, NEW point \in Points \ PermittedPoints
  PROVE  Entitled(l, point, f)
  BY DEF Entitled, PermittedPoints

\* An effect carries what it needs in the same fields as the locals.
LEMMA SameTrail ==
  ASSUME NEW l, NEW f, NEW h, h.action = f.action, h.checkpoint = f.checkpoint,
         h.baseline = f.baseline, h.checkedAt = f.checkedAt
  PROVE  StartedIn(l, f) => StartedIn(l, h)
  BY DEF StartedIn, Granting, EventIn

\* A caller that moves must show what its new point asks for; the others keep
\* what they have.
LEMMA MoverEntitled ==
  ASSUME TypeInv, GrantInv, LogGrows, NEW c \in Callers,
         \A d \in Callers \ {c} : pc'[d] = pc[d] /\ frame'[d] = frame[d],
         Entitled(log', pc'[c], frame'[c])
  PROVE  CallersEntitled'
<1> SUFFICES ASSUME NEW d \in Callers
             PROVE  Entitled(log', pc'[d], frame'[d])
  BY DEF CallersEntitled
<1>1. CASE d # c
  <2>1. Entitled(log, pc[d], frame[d])
    BY DEF GrantInv, CallersEntitled
  <2>2. Entitled(log', pc[d], frame[d])
    BY <2>1, TrailStays DEF LogGrows
  <2> QED  BY <1>1, <2>2
<1> QED  BY <1>1

LEMMA SameEffectsEntitled ==
  ASSUME GrantInv, LogGrows, UNCHANGED effects
  PROVE  EffectsEntitled'
<1> SUFFICES ASSUME NEW e \in DOMAIN effects
             PROVE  effects[e].action \in Permitted /\ StartedIn(log', effects[e])
  BY DEF EffectsEntitled
<1> QED  BY TrailStays DEF GrantInv, EffectsEntitled, LogGrows

\* A step that only moves its caller to a point that asks for nothing.
LEMMA FreeMove ==
  ASSUME TypeInv, GrantInv, LogGrows, UNCHANGED effects, NEW c \in Callers,
         \A d \in Callers \ {c} : pc'[d] = pc[d] /\ frame'[d] = frame[d],
         pc'[c] \in Points \ PermittedPoints
  PROVE  GrantInv'
<1>1. Entitled(log', pc'[c], frame'[c])
  BY FreePoint
<1> QED  BY <1>1, MoverEntitled, SameEffectsEntitled DEF GrantInv

\* The event a step about its caller's action appends, at the end of the log.
LEMMA AppendedAbout ==
  ASSUME TypeInv, NEW type, NEW a, NEW n, NEW b, NEW t,
         Record(About(type, a, n, b, t))
  PROVE  /\ Len(log) + 1 \in DOMAIN log'
         /\ log'[Len(log) + 1].type = type
         /\ log'[Len(log) + 1].action = a
         /\ \A i \in DOMAIN log : i < Len(log) + 1
<1> DEFINE e == About(type, a, n, b, t)
<1>1. e.type = type /\ e.action = a
  BY DEF About
<1>2. log \in Seq(Event) /\ log' = Append(log, e)
  BY DEF TypeInv, TypeOK, Record
<1> HIDE DEF e
<1> QED  BY <1>1, <1>2, SMT

\* execute up to the check of the grant.
LEMMA PermitStep ==
  ASSUME TypeInv, GrantInv, NEW c \in Callers, Lookup(c) \/ Preview(c)
  PROVE  GrantInv'
<1>1. LogGrows /\ UNCHANGED effects
  BY LogOnlyGrows DEF Lookup, Preview, Next, Continue
<1>2. CASE Return(c)
  BY <1>1, <1>2, ReturnShape, FreeMove DEF Points, PermittedPoints
<1>3. CASE Lookup(c) /\ ~ Return(c)
  <2>1. frame[c].action \in Permitted /\ Goto(c, "preview")
    BY <1>3 DEF Lookup, Replay, KeyConflicts
  <2>2. /\ \A d \in Callers \ {c} : pc'[d] = pc[d] /\ frame'[d] = frame[d]
        /\ pc'[c] = "preview" /\ frame'[c] = frame[c]
    BY <2>1, GotoShape
  <2>3. Entitled(log', pc'[c], frame'[c])
    BY <2>1, <2>2 DEF Entitled
  <2> QED  BY <1>1, <2>2, <2>3, MoverEntitled, SameEffectsEntitled DEF GrantInv
<1>4. CASE Preview(c) /\ ~ Return(c)
  <2>0. GotoWith(c, "check",
          Locals(frame[c].action, 0,
                 IF Kind[frame[c].action] = "run_command" THEN NoContent ELSE disk,
                 0, ""))
    BY <1>4 DEF Preview
  <2>1. PICK b : GotoWith(c, "check", Locals(frame[c].action, 0, b, 0, ""))
    BY <2>0
  <2>2. frame[c].action \in Permitted
    BY <1>4 DEF Preview, GrantInv, CallersEntitled, Entitled, PermittedPoints
  <2>3. /\ \A d \in Callers \ {c} : pc'[d] = pc[d] /\ frame'[d] = frame[d]
        /\ pc'[c] = "check" /\ frame'[c].action = frame[c].action
    <3>1. Locals(frame[c].action, 0, b, 0, "").action = frame[c].action
      BY DEF Locals
    <3> QED  BY <2>1, <3>1, MoveShape
  <2>4. Entitled(log', pc'[c], frame'[c])
    BY <2>2, <2>3 DEF Entitled
  <2> QED  BY <1>1, <2>3, <2>4, MoverEntitled, SameEffectsEntitled DEF GrantInv
<1> QED  BY <1>2, <1>3, <1>4

\* The grant that HasValidGrant finds is one for the payload, unexpired.
LEMMA ValidGrantIsInLog ==
  ASSUME TypeInv, NEW a \in Actions, NEW b, HasValidGrant(a, b)
  PROVE  GrantedIn(log, Locals(a, GrantedCheckpoint(a), b, clock, ""))
<1> DEFINE S == EventsOf(a, {"approval_granted"})
           g == Latest(S)
           f == Locals(a, GrantedCheckpoint(a), b, clock, "")
<1>1. S # {} /\ S \subseteq DOMAIN log /\ ~ Expired(log[g]) /\ log[g].baseline = b
  BY DEF HasValidGrant, EventsOf
<1>2. g \in S /\ log[g] \in Event
  <2> HIDE DEF S
  <2> QED  BY <1>1, LatestIsEvent DEF TypeInv, TypeOK
<1>3. clock < log[g].expires
  <2>1. log[g].expires \in Nat /\ clock \in Nat
    BY <1>2 DEF Event, TypeInv, TypeOK
  <2>2. ~ (clock >= log[g].expires)
    BY <1>1 DEF Expired
  <2> HIDE DEF g
  <2> QED  BY <2>1, <2>2
<1>4. g \in DOMAIN log /\ log[g].type = "approval_granted" /\ log[g].action = a
  BY <1>2 DEF EventsOf
<1>5. /\ f.action = a /\ f.checkpoint = log[g].checkpoint
      /\ f.baseline = b /\ f.checkedAt = clock
  BY DEF Locals, GrantedCheckpoint
<1>6. Granting(log, g, f)
  BY <1>1, <1>3, <1>4, <1>5 DEF Granting
<1> QED  BY <1>4, <1>6 DEF GrantedIn

LEMMA CheckGrantStep ==
  ASSUME TypeInv, GrantInv, NEW c \in Callers, CheckGrant(c)
  PROVE  GrantInv'
<1> DEFINE a == frame[c].action
           b == frame[c].baseline
<1>1. UNCHANGED log /\ UNCHANGED effects /\ LogGrows
  BY SameLogGrows DEF CheckGrant, store
<1>2. a \in Actions /\ a \in Permitted
  BY LocalsAtAction
  DEF CheckGrant, GrantInv, CallersEntitled, Entitled, PermittedPoints, ActionPoints,
      Points
<1>3. CASE /\ HasValidGrant(a, b)
           /\ GotoWith(c, "authorize", Locals(a, GrantedCheckpoint(a), b, clock, ""))
  <2>1. PICK f : f = Locals(a, GrantedCheckpoint(a), b, clock, "")
    OBVIOUS
  <2>2. GrantedIn(log, f) /\ f.action = a
    BY <1>2, <1>3, <2>1, ValidGrantIsInLog DEF Locals
  <2>3. /\ \A d \in Callers \ {c} : pc'[d] = pc[d] /\ frame'[d] = frame[d]
        /\ pc'[c] = "authorize" /\ frame'[c] = f
    BY <1>3, <2>1, MoveShape
  <2>4. Entitled(log', pc'[c], frame'[c])
    BY <1>1, <1>2, <2>2, <2>3 DEF Entitled
  <2> QED  BY <1>1, <2>3, <2>4, MoverEntitled, SameEffectsEntitled DEF GrantInv
<1>4. CASE \E n : GotoWith(c, "request", Locals(a, n, b, 0, ""))
  <2>0. PICK n : GotoWith(c, "request", Locals(a, n, b, 0, ""))
    BY <1>4
  <2>1. /\ \A d \in Callers \ {c} : pc'[d] = pc[d] /\ frame'[d] = frame[d]
        /\ pc'[c] = "request" /\ frame'[c].action = a
    <3>1. Locals(a, n, b, 0, "").action = a
      BY DEF Locals
    <3> QED  BY <2>0, <3>1, MoveShape
  <2>2. Entitled(log', pc'[c], frame'[c])
    BY <1>2, <2>1 DEF Entitled
  <2> QED  BY <1>1, <2>1, <2>2, MoverEntitled, SameEffectsEntitled DEF GrantInv
<1> QED  BY <1>3, <1>4 DEF CheckGrant

\* Each event that execute appends between the check and the tool is the next
\* one of the trail, after all that is in the log already.
LEMMA TrailStep ==
  ASSUME TypeInv, GrantInv, NEW c \in Callers,
         Authorize(c) \/ ConsumeApproval(c) \/ Start(c)
  PROVE  GrantInv'
<1> DEFINE n == Len(log) + 1
<1>1. LogGrows /\ UNCHANGED effects
  BY LogOnlyGrows DEF Authorize, ConsumeApproval, Start, Next, Continue
<1>2. PICK f : f = frame[c]
  OBVIOUS
<1>3. Entitled(log, pc[c], f)
  BY <1>2 DEF GrantInv, CallersEntitled
<1>4. \A i \in DOMAIN log : i < n
  BY LenProperties DEF TypeInv, TypeOK
<1>5. /\ \A g \in DOMAIN log : Granting(log, g, f) =>
            g \in DOMAIN log' /\ Granting(log', g, f)
      /\ \A i \in DOMAIN log : \A type : EventIn(log, i, type, f) =>
            i \in DOMAIN log' /\ EventIn(log', i, type, f)
  BY <1>1 DEF LogGrows, Granting, EventIn
<1>6. CASE Authorize(c)
  <2>1. /\ \A d \in Callers \ {c} : pc'[d] = pc[d] /\ frame'[d] = frame[d]
        /\ pc'[c] = "consume" /\ frame'[c] = f
    BY <1>2, <1>6, GotoShape DEF Authorize
  <2>2. n \in DOMAIN log' /\ EventIn(log', n, "action_authorized", f)
    BY <1>2, <1>6, AppendedAbout DEF Authorize, EventIn
  <2>3. PICK g \in DOMAIN log : Granting(log, g, f)
    BY <1>3, <1>6 DEF Authorize, Entitled, GrantedIn
  <2>4. AuthorizedIn(log', f)
    BY <1>4, <1>5, <2>2, <2>3 DEF AuthorizedIn
  <2>5. Entitled(log', pc'[c], frame'[c])
    BY <1>3, <1>6, <2>1, <2>4 DEF Authorize, Entitled, PermittedPoints
  <2> QED  BY <1>1, <2>1, <2>5, MoverEntitled, SameEffectsEntitled DEF GrantInv
<1>7. CASE ConsumeApproval(c)
  <2>1. /\ \A d \in Callers \ {c} : pc'[d] = pc[d] /\ frame'[d] = frame[d]
        /\ pc'[c] = "reserve" /\ frame'[c] = f
    BY <1>2, <1>7, GotoShape DEF ConsumeApproval
  <2>2. n \in DOMAIN log' /\ EventIn(log', n, "approval_consumed", f)
    BY <1>2, <1>7, AppendedAbout DEF ConsumeApproval, EventIn
  <2>3. PICK g \in DOMAIN log, u \in DOMAIN log :
          Granting(log, g, f) /\ EventIn(log, u, "action_authorized", f) /\ g < u
    BY <1>3, <1>7 DEF ConsumeApproval, Entitled, AuthorizedIn
  <2>4. ConsumedIn(log', f)
    BY <1>4, <1>5, <2>2, <2>3 DEF ConsumedIn
  <2>5. Entitled(log', pc'[c], frame'[c])
    BY <1>3, <1>7, <2>1, <2>4 DEF ConsumeApproval, Entitled, PermittedPoints
  <2> QED  BY <1>1, <2>1, <2>5, MoverEntitled, SameEffectsEntitled DEF GrantInv
<1>8. CASE Start(c)
  <2>1. /\ \A d \in Callers \ {c} : pc'[d] = pc[d] /\ frame'[d] = frame[d]
        /\ pc'[c] = "tool" /\ frame'[c] = f
    BY <1>2, <1>8, GotoShape DEF Start
  <2>2. n \in DOMAIN log' /\ EventIn(log', n, "action_started", f)
    BY <1>2, <1>8, AppendedAbout DEF Start, EventOf, EventIn
  <2>3. PICK g \in DOMAIN log, u \in DOMAIN log, v \in DOMAIN log :
          /\ Granting(log, g, f) /\ EventIn(log, u, "action_authorized", f)
          /\ EventIn(log, v, "approval_consumed", f)
          /\ g < u /\ u < v
    BY <1>3, <1>8 DEF Start, Entitled, ConsumedIn
  <2>4. StartedIn(log', f)
    BY <1>4, <1>5, <2>2, <2>3 DEF StartedIn
  <2>5. Entitled(log', pc'[c], frame'[c])
    BY <1>3, <1>8, <2>1, <2>4 DEF Start, Entitled, PermittedPoints
  <2> QED  BY <1>1, <2>1, <2>5, MoverEntitled, SameEffectsEntitled DEF GrantInv
<1> QED  BY <1>6, <1>7, <1>8

\* The one new effect of a step that performs one.
LEMMA PerformedAtEnd ==
  ASSUME TypeInv, NEW c \in Callers, Perform(c)
  PROVE  /\ \A e \in DOMAIN effects : effects'[e] = effects[e]
         /\ \A e \in DOMAIN effects' \ DOMAIN effects :
              /\ effects'[e].action = frame[c].action
              /\ effects'[e].checkpoint = frame[c].checkpoint
              /\ effects'[e].baseline = frame[c].baseline
              /\ effects'[e].checkedAt = frame[c].checkedAt
              /\ effects'[e].onto = disk
<1> DEFINE new == [action |-> frame[c].action, checkpoint |-> frame[c].checkpoint,
                   baseline |-> frame[c].baseline,
                   checkedAt |-> frame[c].checkedAt, onto |-> disk]
<1>1. /\ new.action = frame[c].action /\ new.checkpoint = frame[c].checkpoint
      /\ new.baseline = frame[c].baseline /\ new.checkedAt = frame[c].checkedAt
      /\ new.onto = disk
  OBVIOUS
<1>2. effects \in Seq(Effect) /\ effects' = Append(effects, new)
  BY DEF TypeInv, TypeOK, Perform
<1> HIDE DEF new
<1>3. /\ \A e \in DOMAIN effects : effects'[e] = effects[e]
      /\ \A e \in DOMAIN effects' \ DOMAIN effects : effects'[e] = new
  BY <1>2, SMT
<1> QED  BY <1>1, <1>3

\* A tool performs for a caller whose trail is complete.
LEMMA PerformStep ==
  ASSUME TypeInv, GrantInv, NEW c \in Callers,
         RunCommand(c) \/ EditFile(c) \/ WritePatch(c)
  PROVE  GrantInv'
<1>1. Perform(c) /\ UNCHANGED log /\ pc[c] \in {"tool", "write"}
  BY DEF RunCommand, EditFile, WritePatch, store
<1>2. /\ \A d \in Callers \ {c} : pc'[d] = pc[d] /\ frame'[d] = frame[d]
      /\ pc'[c] \in {"complete", "readback"}
  BY MoveShape, GotoShape DEF RunCommand, EditFile, WritePatch, Finished
<1>3. CallersEntitled'
  <2>1. LogGrows
    BY <1>1, SameLogGrows
  <2>2. Entitled(log', pc'[c], frame'[c])
    BY <1>2, FreePoint DEF Points, PermittedPoints
  <2> QED  BY <1>2, <2>1, <2>2, MoverEntitled
<1>4. EffectsEntitled'
  <2>1. PICK f : f = frame[c]
    OBVIOUS
  <2>2. f.action \in Permitted /\ StartedIn(log, f)
    BY <1>1, <2>1 DEF GrantInv, CallersEntitled, Entitled, PermittedPoints
  <2>3. ASSUME NEW e \in DOMAIN effects'
        PROVE  effects'[e].action \in Permitted /\ StartedIn(log', effects'[e])
    <3>1. PICK h : h = effects'[e]
      OBVIOUS
    <3>2. CASE e \in DOMAIN effects
      <4>1. h = effects[e]
        BY <1>1, <3>1, <3>2, PerformedAtEnd
      <4> QED  BY <1>1, <3>1, <3>2, <4>1 DEF GrantInv, EffectsEntitled
    <3>3. CASE e \notin DOMAIN effects
      <4>1. /\ h.action = f.action /\ h.checkpoint = f.checkpoint
            /\ h.baseline = f.baseline /\ h.checkedAt = f.checkedAt
        BY <1>1, <2>1, <3>1, <3>3, PerformedAtEnd
      <4>2. StartedIn(log, h)
        BY <2>2, <4>1, SameTrail
      <4> QED  BY <1>1, <2>2, <3>1, <4>1, <4>2
    <3> QED  BY <3>2, <3>3
  <2> QED  BY <2>3 DEF EffectsEntitled
<1> QED  BY <1>3, <1>4 DEF GrantInv

\* A caller that goes on with the same locals to a point that asks for no more.
LEMMA SamePointsStep ==
  ASSUME TypeInv, GrantInv, NEW c \in Callers,
         Reserve(c) \/ BeginPatch(c) \/ VerifyPatch(c)
  PROVE  GrantInv'
<1>1. LogGrows /\ UNCHANGED effects
  BY LogOnlyGrows DEF Reserve, BeginPatch, VerifyPatch, Next, Continue
<1>2. CASE Return(c) \/ PatchStops(c)
  <2>1. /\ \A d \in Callers \ {c} : pc'[d] = pc[d] /\ frame'[d] = frame[d]
        /\ pc'[c] \in {"idle", "complete"}
    BY <1>2, ReturnShape, MoveShape DEF PatchStops, Finished
  <2> QED  BY <1>1, <2>1, FreeMove DEF Points, PermittedPoints
<1>3. CASE \/ pc[c] = "reserve" /\ Goto(c, "start")
           \/ pc[c] = "tool" /\ Goto(c, "verify")
           \/ pc[c] = "verify" /\ Goto(c, "write")
  <2>1. /\ \A d \in Callers \ {c} : pc'[d] = pc[d] /\ frame'[d] = frame[d]
        /\ frame'[c] = frame[c]
        /\ <<pc[c], pc'[c]>> \in {<<"reserve", "start">>, <<"tool", "verify">>,
                                  <<"verify", "write">>}
    BY <1>3, GotoShape
  <2>2. Entitled(log, pc[c], frame[c])
    BY DEF GrantInv, CallersEntitled
  <2>3. Entitled(log, pc'[c], frame'[c])
    BY <2>1, <2>2 DEF Entitled, PermittedPoints
  <2>4. Entitled(log', pc'[c], frame'[c])
    BY <1>1, <2>3, TrailStays DEF LogGrows
  <2> QED  BY <1>1, <2>1, <2>4, MoverEntitled, SameEffectsEntitled DEF GrantInv
<1> QED  BY <1>2, <1>3 DEF Reserve, Replay, KeyConflicts, BeginPatch, VerifyPatch

LEMMA GrantsStep ==
  ASSUME TypeInv, GrantInv, [Next]_vars
  PROVE  GrantInv'
<1>1. LogGrows
  BY LogOnlyGrows
<1>2. CASE UNCHANGED vars \/ Tick \/ OutsideEdit
  <2>1. UNCHANGED <<log, pc, frame, effects>>
    BY <1>2 DEF vars, Tick, OutsideEdit, store
  <2> QED  BY <2>1 DEF GrantInv, CallersEntitled, EffectsEntitled
<1>3. CASE Crash
  <2>1. UNCHANGED <<log, effects>> /\ \A c \in Callers : pc'[c] = "idle"
    BY <1>3 DEF Crash, store
  <2>2. CallersEntitled'
    BY <2>1, FreePoint DEF CallersEntitled, Points, PermittedPoints
  <2> QED  BY <1>1, <2>1, <2>2, SameEffectsEntitled DEF GrantInv
<1>4. ASSUME NEW c \in Callers, Quiet(c), pc'[c] \in Points \ PermittedPoints
      PROVE  GrantInv'
  BY <1>1, <1>4, FreeMove DEF Quiet
<1>5. ASSUME NEW c \in Callers,
             \/ CheckGrantable(c) \/ GrantApproval(c) \/ CheckRejectable(c)
             \/ RejectApproval(c) \/ Take(c) \/ Recover(c) \/ RecordDecision(c)
             \/ RequestApproval(c) \/ Report(c)
      PROVE  GrantInv'
  <2>1. Quiet(c)
    BY <1>5, UserQuiet, LoopQuiet, ExecuteQuiet
  <2>2. \/ \E point \in Points \ PermittedPoints : \E locals : GotoWith(c, point, locals)
        \/ \E point \in Points \ PermittedPoints : Goto(c, point)
        \/ Return(c)
        \/ pc[c] = "recover" /\ UNCHANGED <<pc, frame>>
    BY <1>5 DEF CheckGrantable, GrantApproval, CheckRejectable, RejectApproval, Take,
       Approve, Reject, Resume, Confirm, Recover, RepairTrail, RecordDecision,
       RequestApproval, Report, Points, PermittedPoints
  <2>3. pc'[c] \in Points \ PermittedPoints
    BY <2>2, MoveShape, GotoShape, ReturnShape DEF Points, PermittedPoints
  <2> QED  BY <1>4, <2>1, <2>3
<1>6. ASSUME NEW c \in Callers,
             \/ ReadBackPatch(c) \/ ToolRaises(c) \/ Complete(c)
             \/ CheckConfirmable(c) \/ ConfirmOutcomeUnknown(c) \/ SettleConfirmation(c)
      PROVE  GrantInv'
  <2>1. UNCHANGED effects
    BY <1>6 DEF ReadBackPatch, ToolRaises, Complete, CheckConfirmable,
                ConfirmOutcomeUnknown, SettleConfirmation
  <2>2. \/ \E point \in {"complete", "report", "confirm"} : \E locals : GotoWith(c, point, locals)
        \/ Goto(c, "settle") \/ Return(c)
        \/ pc[c] = "confirming" /\ UNCHANGED <<pc, frame>>
    BY <1>6 DEF ReadBackPatch, ToolRaises, Complete, Finished, CheckConfirmable,
                RepairTrail, ConfirmOutcomeUnknown, SettleConfirmation
  <2>3. /\ \A d \in Callers \ {c} : pc'[d] = pc[d] /\ frame'[d] = frame[d]
        /\ pc'[c] \in Points \ PermittedPoints
    BY <2>2, MoveShape, GotoShape, ReturnShape DEF Points, PermittedPoints
  <2> QED  BY <1>1, <2>1, <2>3, FreeMove
<1> QED  BY <1>2, <1>3, <1>5, <1>6, PermitStep, CheckGrantStep, TrailStep, PerformStep,
            SamePointsStep DEF Next, Continue

LEMMA GrantsHold == Spec => [](TypeInv /\ GrantInv)
<1>1. Init => GrantInv
  BY FreePoint DEF Init, GrantInv, CallersEntitled, EffectsEntitled, Points,
                   PermittedPoints
<1>2. TypeInv /\ GrantInv /\ [Next]_vars => (TypeInv /\ GrantInv)'
  BY GrantsStep, StepTyped
<1> QED  BY <1>1, <1>2, InitTyped, PTL DEF Spec

\* Whatever is performed was permitted by the policy and granted by the user
\* for the payload previewed, by a grant unexpired when it was checked, and the
\* log shows authorization, consumption and start after it, for any number of
\* threads and crashes (_valid_approval_grant, execute).
THEOREM EffectsAreGranted == Spec => []EffectsWereGranted
<1>1. GrantInv => EffectsWereGranted
  <2> SUFFICES ASSUME GrantInv, NEW e \in DOMAIN effects
               PROVE  /\ effects[e].action \in Permitted
                      /\ \E g \in GrantOf(effects[e]) :
                           \E u \in EventsOf(effects[e].action, {"action_authorized"}) :
                           \E v \in EventsOf(effects[e].action, {"approval_consumed"}) :
                           \E w \in EventsOf(effects[e].action, {"action_started"}) :
                             g < u /\ u < v /\ v < w
    BY DEF EffectsWereGranted
  <2>1. effects[e].action \in Permitted /\ StartedIn(log, effects[e])
    BY DEF GrantInv, EffectsEntitled
  <2> QED  BY <2>1 DEF StartedIn, Granting, EventIn, GrantOf, EventsOf
<1> QED  BY <1>1, GrantsHold, PTL

-----------------------------------------------------------------------------
(* Patches.  A caller between BeginPatch and ReadBackPatch has the lock;   *)
(* once it has verified the file nobody else can put a patch there.        *)

PatchPoints == {"verify", "write", "readback"}
IsPatch(a) == Kind[a] = "apply_patch"
Patches == {a \in Actions : IsPatch(a)}

PatchersHaveLock ==
  \A c \in Callers :
    pc[c] \in PatchPoints => patchLock = c /\ IsPatch(frame[c].action)

WritersVerified ==
  \A c \in Callers :
    pc[c] = "write" => disk \notin Patches \ {Base[frame[c].action]}

PatchInv == PatchersHaveLock /\ WritersVerified /\ PatchesDoNotClobber

\* Steps that perform nothing, take nobody into or out of the lock, and leave
\* no patch in the file.
LEMMA NoPatchStep ==
  ASSUME PatchInv, UNCHANGED effects,
         disk' = disk \/ disk' \notin Patches,
         \A d \in Callers : pc'[d] \in PatchPoints =>
           pc'[d] = pc[d] /\ frame'[d] = frame[d] /\ patchLock' = patchLock
  PROVE  PatchInv'
<1>1. PatchersHaveLock'
  BY DEF PatchInv, PatchersHaveLock
<1>2. WritersVerified'
  BY DEF PatchInv, WritersVerified, PatchPoints
<1>3. PatchesDoNotClobber'
  BY DEF PatchInv, PatchesDoNotClobber
<1> QED  BY <1>1, <1>2, <1>3 DEF PatchInv

\* The patch tool.
LEMMA PatchToolStep ==
  ASSUME TypeInv, PatchInv, NEW c \in Callers,
         BeginPatch(c) \/ VerifyPatch(c) \/ ReadBackPatch(c)
  PROVE  PatchInv'
<1>1. UNCHANGED <<effects, disk>>
  BY DEF BeginPatch, VerifyPatch, ReadBackPatch
<1>2. \A d \in Callers \ {c} : pc'[d] = pc[d] /\ frame'[d] = frame[d]
  BY MoveShape, GotoShape
  DEF BeginPatch, VerifyPatch, ReadBackPatch, PatchStops, Finished
<1>3. \A d \in Callers \ {c} : pc[d] \notin PatchPoints
  <2>1. patchLock \in {NoCaller, c}
    BY DEF BeginPatch, VerifyPatch, ReadBackPatch, PatchInv, PatchersHaveLock, PatchPoints
  <2> QED  BY <2>1, ConstantsAssumption DEF PatchInv, PatchersHaveLock
<1>4. CASE pc'[c] = "complete"
  BY <1>1, <1>2, <1>3, <1>4, NoPatchStep DEF PatchPoints
<1>5. CASE BeginPatch(c) /\ Goto(c, "verify")
  <2>1. pc'[c] = "verify" /\ frame'[c] = frame[c] /\ IsPatch(frame[c].action)
    BY <1>5, GotoShape DEF BeginPatch, IsPatch
  <2>2. patchLock' = c
    BY <1>5, <2>1 DEF BeginPatch, PatchStops, Finished, GotoWith, Goto, TypeInv,
                      CallersTyped
  <2>3. PatchersHaveLock' /\ WritersVerified'
    BY <1>2, <1>3, <2>1, <2>2 DEF PatchersHaveLock, WritersVerified, PatchPoints
  <2> QED  BY <1>1, <2>3 DEF PatchInv, PatchesDoNotClobber
<1>6. CASE VerifyPatch(c) /\ Goto(c, "write")
  <2>1. pc'[c] = "write" /\ frame'[c] = frame[c] /\ pc[c] = "verify"
    BY <1>6, GotoShape DEF VerifyPatch
  <2>2. patchLock' = patchLock /\ disk = Base[frame[c].action]
    BY <1>6, <2>1 DEF VerifyPatch, PatchStops, Finished, GotoWith, Goto, TypeInv,
                      CallersTyped
  <2>3. PatchersHaveLock' /\ WritersVerified'
    BY <1>1, <1>2, <1>3, <2>1, <2>2
    DEF PatchInv, PatchersHaveLock, WritersVerified, PatchPoints
  <2> QED  BY <1>1, <2>3 DEF PatchInv, PatchesDoNotClobber
<1>7. CASE \E locals : GotoWith(c, "complete", locals)
  BY <1>4, <1>7, MoveShape
<1> QED  BY <1>5, <1>6, <1>7 DEF BeginPatch, VerifyPatch, ReadBackPatch, PatchStops,
                                 Finished

\* The tools that perform.  Only a patch writes a patch, onto what it verified.
LEMMA PerformPatchStep ==
  ASSUME TypeInv, PatchInv, NEW c \in Callers,
         RunCommand(c) \/ EditFile(c) \/ WritePatch(c)
  PROVE  PatchInv'
<1> DEFINE a == frame[c].action
<1>1. Perform(c) /\ patchLock' = patchLock /\ a \in Actions
  BY LocalsAtAction DEF RunCommand, EditFile, WritePatch, ActionPoints, Points, world
<1>2. \A d \in Callers \ {c} : pc'[d] = pc[d] /\ frame'[d] = frame[d]
  BY MoveShape, GotoShape DEF RunCommand, EditFile, WritePatch, Finished
<1>3. IsPatch(a) => disk \notin Patches \ {Base[a]}
  BY DEF RunCommand, EditFile, WritePatch, PatchInv, WritersVerified, IsPatch
<1>4. PatchesDoNotClobber'
  <2> SUFFICES ASSUME NEW e \in DOMAIN effects', IsPatch(effects'[e].action)
               PROVE  effects'[e].onto \notin Patches \ {Base[effects'[e].action]}
    BY DEF PatchesDoNotClobber, IsPatch, Patches
  <2>1. CASE e \in DOMAIN effects
    BY <1>1, <2>1, PerformedAtEnd DEF PatchInv, PatchesDoNotClobber, IsPatch, Patches
  <2>2. CASE e \notin DOMAIN effects
    BY <1>1, <1>3, <2>2, PerformedAtEnd
  <2> QED  BY <2>1, <2>2
<1>5. CASE WritePatch(c)
  <2>1. pc'[c] = "readback" /\ frame'[c] = frame[c] /\ pc[c] = "write"
    BY <1>5, GotoShape DEF WritePatch
  <2>2. patchLock = c /\ IsPatch(a)
    BY <2>1 DEF PatchInv, PatchersHaveLock, PatchPoints
  <2>3. \A d \in Callers \ {c} : pc[d] \notin PatchPoints
    BY <2>2 DEF PatchInv, PatchersHaveLock
  <2>4. PatchersHaveLock' /\ WritersVerified'
    BY <1>1, <1>2, <2>1, <2>2, <2>3 DEF PatchersHaveLock, WritersVerified, PatchPoints
  <2> QED  BY <1>4, <2>4 DEF PatchInv
<1>6. CASE RunCommand(c) \/ EditFile(c)
  <2>1. pc'[c] = "complete"
    BY <1>6, MoveShape DEF RunCommand, EditFile, Finished
  <2>2. disk' = disk \/ disk' \notin Patches
    BY <1>6 DEF RunCommand, EditFile, world, Patches, IsPatch
  <2>3. PatchersHaveLock' /\ WritersVerified'
    BY <1>1, <1>2, <2>1, <2>2
    DEF PatchInv, PatchersHaveLock, WritersVerified, PatchPoints
  <2> QED  BY <1>4, <2>3 DEF PatchInv
<1> QED  BY <1>5, <1>6

LEMMA PatchesStep ==
  ASSUME TypeInv, PatchInv, [Next]_vars
  PROVE  PatchInv'
<1>1. CASE UNCHANGED vars \/ Tick
  <2>1. UNCHANGED <<pc, frame, patchLock, disk, effects>>
    BY <1>1 DEF vars, Tick, world
  <2> QED  BY <2>1 DEF PatchInv, PatchersHaveLock, WritersVerified, PatchesDoNotClobber
<1>2. CASE OutsideEdit
  <2>1. disk' \notin Patches /\ UNCHANGED <<pc, frame, patchLock, effects>>
    BY <1>2, ConstantsAssumption DEF OutsideEdit, Patches
  <2> QED  BY <2>1, NoPatchStep
<1>3. CASE Crash
  <2>1. UNCHANGED <<disk, effects>> /\ \A c \in Callers : pc'[c] = "idle"
    BY <1>3 DEF Crash
  <2> QED  BY <2>1, NoPatchStep DEF PatchPoints
<1>4. ASSUME NEW c \in Callers, UNCHANGED <<effects, disk, patchLock>>,
             \A d \in Callers \ {c} : pc'[d] = pc[d] /\ frame'[d] = frame[d],
             pc'[c] \notin PatchPoints
      PROVE  PatchInv'
  BY <1>4, NoPatchStep
<1>5. ASSUME NEW c \in Callers,
             \/ CheckGrantable(c) \/ GrantApproval(c) \/ CheckRejectable(c)
             \/ RejectApproval(c) \/ Take(c) \/ Recover(c) \/ RecordDecision(c)
             \/ Lookup(c) \/ Preview(c) \/ CheckGrant(c) \/ RequestApproval(c)
             \/ Authorize(c) \/ ConsumeApproval(c) \/ Report(c)
      PROVE  PatchInv'
  <2>1. Quiet(c)
    BY <1>5, UserQuiet, LoopQuiet, ExecuteQuiet
  <2>2. UNCHANGED <<disk, patchLock>>
    BY <1>5 DEF CheckGrantable, GrantApproval, CheckRejectable, RejectApproval, Take,
       Approve, Reject, Resume, Confirm, Begin, Recover, RecordDecision, Lookup, Preview,
       CheckGrant, RequestApproval, Authorize, ConsumeApproval, Report, world
  <2> QED  BY <1>4, <2>1, <2>2 DEF Quiet, Holders, Performers, PatchPoints
<1>6. ASSUME NEW c \in Callers,
             \/ Reserve(c) \/ Start(c) \/ ToolRaises(c) \/ Complete(c)
             \/ CheckConfirmable(c) \/ ConfirmOutcomeUnknown(c) \/ SettleConfirmation(c)
      PROVE  PatchInv'
  <2>1. UNCHANGED <<effects, disk, patchLock>>
    BY <1>6 DEF Reserve, Start, ToolRaises, Complete, CheckConfirmable,
                ConfirmOutcomeUnknown, SettleConfirmation, world
  <2>2. \/ \E point \in {"complete", "report", "confirm"} : \E locals : GotoWith(c, point, locals)
        \/ \E point \in {"start", "tool", "settle"} : Goto(c, point)
        \/ Return(c)
        \/ pc[c] = "confirming" /\ UNCHANGED <<pc, frame>>
    BY <1>6 DEF Reserve, Replay, KeyConflicts, Start, ToolRaises, Complete, Finished,
                CheckConfirmable, RepairTrail, ConfirmOutcomeUnknown, SettleConfirmation
  <2>3. /\ \A d \in Callers \ {c} : pc'[d] = pc[d] /\ frame'[d] = frame[d]
        /\ pc'[c] \notin PatchPoints
    BY <2>2, MoveShape, GotoShape, ReturnShape DEF PatchPoints
  <2> QED  BY <1>4, <2>1, <2>3
<1> QED  BY <1>1, <1>2, <1>3, <1>5, <1>6, PatchToolStep, PerformPatchStep
         DEF Next, Continue

\* A patch never replaces what another patch of the file wrote after it was
\* previewed, however many threads apply them and wherever the process dies
\* (_PATCH_LOCK, the second read of apply_structured_patch).  Writers that take
\* no lock are not excluded: an edit from outside, or an edit_file of another
\* thread, between VerifyPatch and WritePatch is overwritten.
THEOREM PatchesNeverClobber == Spec => []PatchesDoNotClobber
<1>1. Init => PatchInv
  BY DEF Init, PatchInv, PatchersHaveLock, WritersVerified, PatchesDoNotClobber,
         PatchPoints
<1>2. TypeInv /\ PatchInv /\ [Next]_vars => PatchInv'
  BY PatchesStep
<1>3. PatchInv => PatchesDoNotClobber
  BY DEF PatchInv
<1>4. Spec => []TypeInv
  BY InitTyped, StepTyped, PTL DEF Spec
<1> QED  BY <1>1, <1>2, <1>3, <1>4, PTL DEF Spec

-----------------------------------------------------------------------------
(* The runtime implements ApprovedOnce.                                    *)

\* Only GrantApproval and RejectApproval add an answer of the user to the log.
Answers == {"approval_granted", "approval_rejected"}

LEMMA NoNewAnswer ==
  ASSUME TypeInv, NEW c \in Callers,
         Take(c) \/ Continue(c) \/ ToolRaises(c),
         ~ GrantApproval(c), ~ RejectApproval(c)
  PROVE  \A i \in DOMAIN log' \ DOMAIN log : log'[i].type \notin Answers
<1> USE DEF Answers
<1>1. CASE UNCHANGED log
  BY <1>1
<1>2. CASE \E type, a, n, b, t : /\ type \notin Answers
                                 /\ Record(About(type, a, n, b, t))
  BY <1>2, RecordedAbout
<1>3. CASE \E type, a, s : /\ type \notin Answers
                           /\ Record(Outcome(type, a, s))
  BY <1>3, RecordedResult
<1>4. CASE Take(c)
  BY <1>1, <1>4 DEF Take, Approve, Reject, Resume, Confirm, Begin, store
<1>5. CASE Recover(c) \/ RecordDecision(c) \/ CheckConfirmable(c)
  BY <1>1, <1>2, <1>3, <1>5
  DEF Recover, RecordDecision, CheckConfirmable, RepairTrail, EventOf
<1>6. CASE \/ ConfirmOutcomeUnknown(c) \/ SettleConfirmation(c)
           \/ CheckGrantable(c) \/ CheckRejectable(c)
  BY <1>1, <1>2, <1>3, <1>6
  DEF ConfirmOutcomeUnknown, SettleConfirmation, CheckGrantable, CheckRejectable,
      store
<1>7. CASE Replay(c) \/ KeyConflicts(c)
  BY <1>3, <1>7 DEF Replay, KeyConflicts
<1>8. CASE Lookup(c)
  <2>1. \/ Record(Outcome("action_denied", frame[c].action, "policy_denied"))
        \/ Replay(c) \/ KeyConflicts(c) \/ UNCHANGED log
    BY <1>8 DEF Lookup
  <2> QED  BY <1>1, <1>3, <1>7, <2>1
<1>9. CASE Reserve(c)
  <2>1. \/ Record(About("action_recovery_required", frame[c].action,
                        0, NoContent, 0))
        \/ Replay(c) \/ KeyConflicts(c) \/ UNCHANGED log
    BY <1>9 DEF Reserve, EventOf
  <2> QED  BY <1>1, <1>2, <1>7, <2>1
<1>10. CASE Preview(c)
  <2>1. \/ Record(Outcome("action_failed", frame[c].action, "failed"))
        \/ Record(Outcome("action_conflict", frame[c].action, "conflict"))
        \/ UNCHANGED log
    <3>1. CASE disk = Absent
      BY <1>10, <3>1 DEF Preview
    <3>2. CASE disk # Absent
      BY <1>10, <3>2 DEF Preview
    <3> QED  BY <3>1, <3>2
  <2> QED  BY <1>1, <1>3, <2>1
<1>11. CASE CheckGrant(c) \/ RequestApproval(c) \/ Authorize(c)
              \/ ConsumeApproval(c) \/ Start(c)
  BY <1>1, <1>2, <1>11
  DEF CheckGrant, RequestApproval, Authorize, ConsumeApproval, Start, EventOf, store
<1>12. CASE RunCommand(c) \/ EditFile(c) \/ BeginPatch(c) \/ VerifyPatch(c)
              \/ WritePatch(c) \/ ReadBackPatch(c) \/ ToolRaises(c) \/ Complete(c)
  BY <1>1, <1>12
  DEF RunCommand, EditFile, BeginPatch, VerifyPatch, WritePatch, ReadBackPatch,
      ToolRaises, Complete, store
<1>13. CASE Report(c)
  <2>1. OutcomeType(frame[c].status) \notin Answers
    BY DEF OutcomeType
  <2> QED  BY <1>3, <1>13, <2>1 DEF Report
<1> QED  BY <1>4, <1>5, <1>6, <1>8, <1>9, <1>10, <1>11, <1>12, <1>13 DEF Continue

LEMMA NoNewGrant ==
  ASSUME TypeInv, NEW c \in Callers,
         Take(c) \/ Continue(c) \/ ToolRaises(c), ~ GrantApproval(c)
  PROVE  \A i \in DOMAIN log' \ DOMAIN log : log'[i].type # "approval_granted"
<1>1. CASE RejectApproval(c)
  BY <1>1, RecordedAbout DEF RejectApproval
<1> QED  BY <1>1, NoNewAnswer DEF Answers

LEMMA SameApproved ==
  ASSUME LogGrows,
         \A i \in DOMAIN log' \ DOMAIN log : log'[i].type # "approval_granted"
  PROVE  ApprovedPayloads' = ApprovedPayloads
<1>1. \A i \in DOMAIN log : i \in DOMAIN log' /\ log'[i] = log[i]
  BY DEF LogGrows
<1>2. {i \in DOMAIN log' : log'[i].type = "approval_granted"}
        = {i \in DOMAIN log : log[i].type = "approval_granted"}
  BY <1>1
<1>3. ApprovedPayloads' = {<<log'[i].action, log'[i].baseline>> :
         i \in {j \in DOMAIN log' : log'[j].type = "approval_granted"}}
  BY DEF ApprovedPayloads
<1>4. ApprovedPayloads = {<<log'[i].action, log'[i].baseline>> :
         i \in {j \in DOMAIN log : log[j].type = "approval_granted"}}
  BY <1>1 DEF ApprovedPayloads
<1> QED  BY <1>2, <1>3, <1>4

LEMMA SamePerformed ==
  ASSUME UNCHANGED effects
  PROVE  PerformedPayloads' = PerformedPayloads
  BY DEF PerformedPayloads

LEMMA SameOutcomes ==
  ASSUME UNCHANGED reservations
  PROVE  RecordedOutcome' = RecordedOutcome
  BY DEF RecordedOutcome

\* The user's grant approves the payload of the request.
LEMMA GrantApproves ==
  ASSUME TypeInv, NEW c \in Callers, GrantApproval(c)
  PROVE  \E p \in Payloads : Abstract!Approve(p)
<1> DEFINE a == frame[c].action
           b == RequestOf(frame[c].checkpoint).baseline
           n == Len(log) + 1
           e == About("approval_granted", a, frame[c].checkpoint, b, clock + TTL)
<1>1. /\ e.type = "approval_granted" /\ e.action = a /\ e.baseline = b
      /\ log' = Append(log, e) /\ log \in Seq(Event)
  BY DEF About, GrantApproval, Record, TypeInv, TypeOK
<1>2. DOMAIN log' = DOMAIN log \union {n} /\ \A i \in DOMAIN log : log'[i] = log[i]
  <2> HIDE DEF e
  <2> QED  BY <1>1, SMT
<1>3. log'[n] = e /\ n \notin DOMAIN log
  <2> HIDE DEF e
  <2> QED  BY <1>1, SMT
<1>4. <<a, b>> \in Payloads
  <2>1. log' \in Seq(Event)
    BY StepTyped DEF Next, Continue, TypeInv, TypeOK
  <2>2. log'[n] \in Event
    BY <1>2, <2>1, ElementOfSeq, LenProperties
  <2> QED  BY <1>1, <1>3, <2>2 DEF Event, Payloads
<1>5. ApprovedPayloads' = ApprovedPayloads \union {<<a, b>>}
  <2> DEFINE G == {i \in DOMAIN log : log[i].type = "approval_granted"}
             H == {i \in DOMAIN log' : log'[i].type = "approval_granted"}
  <2>1. H = G \union {n}
    BY <1>1, <1>2, <1>3
  <2>2. /\ ApprovedPayloads' = {<<log'[i].action, log'[i].baseline>> : i \in H}
        /\ ApprovedPayloads = {<<log[i].action, log[i].baseline>> : i \in G}
    BY DEF ApprovedPayloads
  <2>3. \A i \in G : log'[i] = log[i]
    BY <1>2
  <2>4. log'[n].action = a /\ log'[n].baseline = b
    BY <1>1, <1>3
  <2> HIDE DEF G, H, a, b, n
  <2> QED  BY <2>1, <2>2, <2>3, <2>4
<1>6. UNCHANGED <<PerformedPayloads, RecordedOutcome>>
  BY SamePerformed, SameOutcomes DEF GrantApproval
<1> QED  BY <1>4, <1>5, <1>6 DEF Abstract!Approve

\* A performed payload was approved, and none of its key was performed.
LEMMA PerformImplements ==
  ASSUME TypeInv, ExclusionInv, GrantInv, NEW c \in Callers,
         RunCommand(c) \/ EditFile(c) \/ WritePatch(c)
  PROVE  \E p \in Payloads : Abstract!Perform(p)
<1> DEFINE a == frame[c].action
           b == frame[c].baseline
           n == Len(effects)
<1>1. /\ Perform(c) /\ UNCHANGED <<log, reservations>>
      /\ pc[c] \in {"tool", "write"} /\ pc[c] \in Performers
  BY DEF RunCommand, EditFile, WritePatch, store, Performers
<1>2. a \in Actions /\ b \in Contents \union {NoContent}
  BY <1>1, LocalsAtAction DEF ActionPoints, Points
<1>3. <<a, b>> \in Payloads
  BY <1>2 DEF Payloads
<1>4. <<a, b>> \in ApprovedPayloads
  <2>1. PICK f : f = frame[c]
    OBVIOUS
  <2>2. StartedIn(log, f)
    BY <1>1, <2>1 DEF GrantInv, CallersEntitled, Entitled
  <2>3. PICK g \in DOMAIN log : Granting(log, g, f)
    BY <2>2 DEF StartedIn
  <2> QED  BY <2>1, <2>3 DEF Granting, ApprovedPayloads
<1>5. /\ n \in Nat /\ DOMAIN effects = 1 .. n /\ effects \in Seq(Effect)
      /\ DOMAIN effects' = 1 .. (n + 1)
  <2>1. PICK e : effects' = Append(effects, e)
    BY <1>1 DEF Perform
  <2>2. effects \in Seq(Effect)
    BY DEF TypeInv, TypeOK
  <2> QED  BY <2>1, <2>2, LenProperties, SMT
<1>6. \A i \in 1 .. n :
        /\ effects[i].action \in Actions
        /\ effects[i].baseline \in Contents \union {NoContent}
  BY <1>5, EffectAt DEF Effect
<1>7. \A i \in DOMAIN PerformedPayloads :
        PayloadKey(PerformedPayloads[i]) # PayloadKey(<<a, b>>)
  <2>1. \A i \in DOMAIN effects : Key[effects[i].action] # Key[a]
    BY <1>1 DEF ExclusionInv, EffectsToCome
  <2> QED  BY <2>1 DEF PerformedPayloads, PayloadKey
<1>8. PerformedPayloads' = Append(PerformedPayloads, <<a, b>>)
  <2>1. PerformedPayloads \in Seq(Payloads) /\ Len(PerformedPayloads) = n
    <3>1. \A i \in 1 .. n : <<effects[i].action, effects[i].baseline>> \in Payloads
      BY <1>6 DEF Payloads
    <3>2. PerformedPayloads \in [1 .. n -> Payloads]
      BY <1>5, <3>1 DEF PerformedPayloads
    <3>3. PerformedPayloads \in Seq(Payloads)
      BY <1>5, <3>2
    <3> QED  BY <1>5, <3>2, <3>3, LenProperties
  <2>2. /\ PerformedPayloads' = [i \in 1 .. (n + 1) |->
             <<effects'[i].action, effects'[i].baseline>>]
        /\ \A i \in 1 .. n : effects'[i] = effects[i]
        /\ effects'[n + 1].action = a /\ effects'[n + 1].baseline = b
    BY <1>1, <1>5, PerformedAtEnd DEF PerformedPayloads
  <2>3. \A i \in 1 .. n : PerformedPayloads[i] = <<effects[i].action, effects[i].baseline>>
    BY <1>5 DEF PerformedPayloads
  <2>4. \A i \in 1 .. (n + 1) : PerformedPayloads'[i] =
          IF i = n + 1 THEN <<a, b>> ELSE PerformedPayloads[i]
    BY <1>5, <2>2, <2>3
  <2>5. PerformedPayloads' \in [1 .. (n + 1) -> Payloads]
    BY <1>3, <1>5, <1>6, <2>2 DEF Payloads
  <2>6. PerformedPayloads' \in Seq(Payloads) /\ Len(PerformedPayloads') = n + 1
    <3>1. n + 1 \in Nat
      BY <1>5
    <3>2. PerformedPayloads' \in Seq(Payloads)
      BY <2>5, <3>1
    <3> QED  BY <2>5, <3>1, <3>2, LenProperties
  <2> HIDE DEF n, a, b
  <2>7. PICK q : q = PerformedPayloads'
    OBVIOUS
  <2>8. PICK r : r = Append(PerformedPayloads, <<a, b>>)
    OBVIOUS
  <2>9. /\ r \in Seq(Payloads) /\ Len(r) = n + 1
        /\ \A i \in 1 .. n : r[i] = PerformedPayloads[i]
        /\ r[n + 1] = <<a, b>>
    BY <1>3, <2>1, <2>8, AppendProperties
  <2>10. \A i \in 1 .. (n + 1) : q[i] = r[i]
    BY <1>5, <2>4, <2>7, <2>9
  <2>11. q \in Seq(Payloads) /\ Len(q) = n + 1
    BY <2>6, <2>7
  <2> QED  BY <2>7, <2>8, <2>9, <2>10, <2>11, SeqEqual
<1>9. ApprovedPayloads' = ApprovedPayloads /\ RecordedOutcome' = RecordedOutcome
  BY <1>1 DEF ApprovedPayloads, RecordedOutcome
<1> QED  BY <1>3, <1>4, <1>7, <1>8, <1>9 DEF Abstract!Perform

\* An outcome is recorded for a key that has none.
LEMMA SettleImplements ==
  ASSUME TypeInv, ReservationInv, NEW a \in Actions,
         NEW s \in Statuses \union {""}, Held(a), StoreObservation(a, s),
         UNCHANGED <<log, effects>>
  PROVE  \/ \E k \in Keys, o \in Statuses : Abstract!Settle(k, o)
         \/ UNCHANGED Abstract!vars
<1> DEFINE entry == [action |-> a, state |-> "completed", status |-> s]
<1>1. Key[a] \in Keys /\ reservations \in [Keys -> Reservation]
  BY ConstantsAssumption DEF TypeInv, TypeOK
<1>2. UNCHANGED <<ApprovedPayloads, PerformedPayloads>>
  BY DEF ApprovedPayloads, PerformedPayloads
<1>3. CASE UNCHANGED reservations
  BY <1>2, <1>3, SameOutcomes DEF Abstract!vars
<1>4. CASE ~ Stored(a)
  <2>1. reservations[Key[a]].state # "completed"
    BY <1>4 DEF Held, Stored
  <2>2. RecordedOutcome[Key[a]] = ""
    BY <1>1, <2>1 DEF RecordedOutcome
  <2>3. /\ reservations'[Key[a]] = entry
        /\ \A k \in Keys \ {Key[a]} : reservations'[k] = reservations[k]
    <3>1. reservations' = [reservations EXCEPT ![Key[a]] = entry]
      BY <1>4 DEF StoreObservation
    <3> HIDE DEF entry
    <3> QED  BY <1>1, <3>1
  <2>4. entry.state = "completed" /\ entry.status = s
    OBVIOUS
  <2> HIDE DEF entry
  <2>5. \A k \in Keys : RecordedOutcome'[k] =
          IF k = Key[a] THEN s ELSE RecordedOutcome[k]
    BY <2>3, <2>4 DEF RecordedOutcome
  <2>6. /\ RecordedOutcome = [k \in Keys |-> RecordedOutcome[k]]
        /\ RecordedOutcome' = [k \in Keys |-> RecordedOutcome'[k]]
    BY DEF RecordedOutcome
  <2>7. RecordedOutcome' = [RecordedOutcome EXCEPT ![Key[a]] = s]
    BY <1>1, <2>5, <2>6
  <2>8. CASE s = ""
    <3>1. RecordedOutcome' = RecordedOutcome
      BY <2>2, <2>5, <2>6, <2>8
    <3> QED  BY <1>2, <3>1 DEF Abstract!vars
  <2>9. CASE s \in Statuses
    BY <1>1, <1>2, <2>2, <2>7, <2>9 DEF Abstract!Settle
  <2> QED  BY <2>8, <2>9
<1> QED  BY <1>3, <1>4 DEF StoreObservation

\* A reservation records no outcome.
LEMMA ReserveImplements ==
  ASSUME TypeInv, NEW c \in Callers, Reserve(c)
  PROVE  UNCHANGED Abstract!vars
<1> DEFINE a == frame[c].action
           entry == [action |-> a, state |-> "in_progress", status |-> ""]
<1>1. UNCHANGED effects /\ LogGrows /\ ~ GrantApproval(c)
  BY LogOnlyGrows DEF Reserve, GrantApproval, Next, Continue
<1>2. UNCHANGED <<ApprovedPayloads, PerformedPayloads>>
  BY <1>1, NoNewGrant, SameApproved, SamePerformed DEF Continue
<1>3. CASE UNCHANGED reservations
  BY <1>2, <1>3, SameOutcomes DEF Abstract!vars
<1>4. CASE /\ reservations[Key[a]].state = "missing"
           /\ reservations' = [reservations EXCEPT ![Key[a]] = entry]
  <2>1. Key[a] \in Keys /\ reservations \in [Keys -> Reservation]
    BY LocalsAtAction, ConstantsAssumption
    DEF Reserve, ActionPoints, Points, TypeInv, TypeOK
  <2>2. entry.state = "in_progress"
    OBVIOUS
  <2> HIDE DEF entry
  <2>3. /\ reservations'[Key[a]] = entry
        /\ \A k \in Keys \ {Key[a]} : reservations'[k] = reservations[k]
    BY <1>4, <2>1
  <2>4. \A k \in Keys :
          \/ reservations'[k] = reservations[k]
          \/ reservations'[k].state # "completed" /\ reservations[k].state # "completed"
    <3>1. reservations'[Key[a]].state # "completed" /\ reservations[Key[a]].state # "completed"
      <4>1. reservations'[Key[a]].state = "in_progress"
        BY <2>2, <2>3
      <4>2. reservations[Key[a]].state = "missing"
        BY <1>4
      <4> QED  BY <4>1, <4>2
    <3> HIDE DEF a
    <3> QED  BY <2>3, <3>1
  <2>5. RecordedOutcome' = RecordedOutcome
    BY <2>4 DEF RecordedOutcome
  <2> QED  BY <1>2, <2>5 DEF Abstract!vars
<1> QED  BY <1>3, <1>4 DEF Reserve

LEMMA StepImplements ==
  ASSUME TypeInv, ReservationInv, ExclusionInv, GrantInv, [Next]_vars
  PROVE  [Abstract!Next]_(Abstract!vars)
<1> SUFFICES Abstract!Next \/ UNCHANGED Abstract!vars
  OBVIOUS
<1>1. LogGrows
  BY LogOnlyGrows
<1>2. CASE UNCHANGED vars \/ Tick \/ OutsideEdit \/ Crash
  <2>1. UNCHANGED <<log, reservations, effects>>
    BY <1>2 DEF vars, Tick, OutsideEdit, Crash, store
  <2> QED  BY <2>1 DEF Abstract!vars, ApprovedPayloads, PerformedPayloads, RecordedOutcome
<1>3. ASSUME NEW c \in Callers, Take(c) \/ Continue(c) \/ ToolRaises(c),
             UNCHANGED <<reservations, effects>>, ~ GrantApproval(c)
      PROVE  UNCHANGED Abstract!vars
  <2>1. ApprovedPayloads' = ApprovedPayloads
    BY <1>1, <1>3, NoNewGrant, SameApproved
  <2> QED  BY <1>3, <2>1, SamePerformed, SameOutcomes DEF Abstract!vars
<1>4. ASSUME NEW c \in Callers, Quiet(c), Take(c) \/ Continue(c) \/ ToolRaises(c)
      PROVE  Abstract!Next \/ UNCHANGED Abstract!vars
  <2>1. CASE GrantApproval(c)
    BY <2>1, GrantApproves DEF Abstract!Next
  <2> QED  BY <1>3, <1>4, <2>1 DEF Quiet
<1>5. ASSUME NEW c \in Callers,
             \/ Start(c) \/ BeginPatch(c) \/ VerifyPatch(c) \/ ReadBackPatch(c)
             \/ ToolRaises(c) \/ CheckConfirmable(c) \/ ConfirmOutcomeUnknown(c)
      PROVE  UNCHANGED Abstract!vars
  <2>1. UNCHANGED <<reservations, effects>> /\ ~ GrantApproval(c)
    BY <1>5 DEF Start, BeginPatch, VerifyPatch, ReadBackPatch, ToolRaises,
                CheckConfirmable, ConfirmOutcomeUnknown, GrantApproval, store
  <2> QED  BY <1>3, <1>5, <2>1 DEF Continue
<1>6. ASSUME NEW c \in Callers, Complete(c) \/ SettleConfirmation(c)
      PROVE  Abstract!Next \/ UNCHANGED Abstract!vars
  <2>1. pc[c] \in Holders /\ pc[c] \in ActionPoints
    BY <1>6 DEF Complete, SettleConfirmation, Holders, ActionPoints, Points
  <2>2. PICK a \in Actions : a = frame[c].action
    BY <2>1, LocalsAtAction
  <2>3. Held(a) /\ UNCHANGED <<log, effects>>
    BY <1>6, <2>1, <2>2 DEF Complete, SettleConfirmation, ReservationInv, OwnersHold
  <2>4. PICK s \in Statuses \union {""} : StoreObservation(a, s)
    BY <1>6, <2>1, <2>2, LocalsAtAction DEF Complete, SettleConfirmation, Statuses
  <2> QED  BY <2>3, <2>4, SettleImplements DEF Abstract!Next
<1>7. ASSUME NEW c \in Callers, RunCommand(c) \/ EditFile(c) \/ WritePatch(c)
      PROVE  Abstract!Next
  BY <1>7, PerformImplements DEF Abstract!Next
<1>8. ASSUME NEW c \in Callers, Take(c) \/ Continue(c) \/ ToolRaises(c)
      PROVE  Abstract!Next \/ UNCHANGED Abstract!vars
  BY <1>4, <1>5, <1>6, <1>7, <1>8, ExecuteQuiet, UserQuiet, LoopQuiet,
     ReserveImplements DEF Continue
<1> QED  BY <1>2, <1>8 DEF Next

\* Every behaviour of the threads, the store and the crashes is a behaviour of
\* the promise: approved before performed, performed once, settled once.
THEOREM RuntimeImplementsApprovedOnce == Spec => ImplementsApprovedOnce
<1>1. Init => Abstract!Init
  <2> SUFFICES ASSUME Init  PROVE Abstract!Init
    OBVIOUS
  <2>1. ApprovedPayloads = {} /\ PerformedPayloads = <<>>
    BY DEF Init, ApprovedPayloads, PerformedPayloads
  <2>2. RecordedOutcome = [k \in Keys |-> ""]
    BY DEF Init, RecordedOutcome, Missing
  <2> QED  BY <2>1, <2>2 DEF Abstract!Init
<1>2. Spec => [](TypeInv /\ ReservationInv /\ ExclusionInv /\ GrantInv)
  BY ExclusionHolds, GrantsHold, PTL
<1>3. TypeInv /\ ReservationInv /\ ExclusionInv /\ GrantInv /\ [Next]_vars
        => [Abstract!Next]_(Abstract!vars)
  BY StepImplements
<1> QED  BY <1>1, <1>2, <1>3, PTL DEF Spec, Abstract!Spec, ImplementsApprovedOnce

-----------------------------------------------------------------------------
(* Rejections, with one thread.  Both answers check the log and then       *)
(* append; with a second thread the answers can cross.                     *)

OneThread == \A c, d \in Callers : c = d

AnsweredIn(l, n, type) ==
  \E i \in DOMAIN l : l[i].type = type /\ l[i].checkpoint = n

OneAnswer ==
  \A n \in Nat : ~ (/\ AnsweredIn(log, n, "approval_granted")
                    /\ AnsweredIn(log, n, "approval_rejected"))

AnswerersChecked ==
  \A c \in Callers :
    /\ pc[c] = "grant" => ~ AnsweredIn(log, frame[c].checkpoint, "approval_rejected")
    /\ pc[c] = "reject" => ~ AnsweredIn(log, frame[c].checkpoint, "approval_granted")

AnswerInv == OneAnswer /\ AnswerersChecked

\* An answer in the grown log is an old one or the new event.
LEMMA AnswersGrow ==
  ASSUME LogGrows, NEW n, NEW type, AnsweredIn(log', n, type)
  PROVE  \/ AnsweredIn(log, n, type)
         \/ \E i \in DOMAIN log' \ DOMAIN log :
              log'[i].type = type /\ log'[i].checkpoint = n
  BY DEF LogGrows, AnsweredIn

LEMMA AnswersStep ==
  ASSUME OneThread, TypeInv, AnswerInv, [Next]_vars
  PROVE  AnswerInv'
<1>1. LogGrows
  BY LogOnlyGrows
<1>2. ASSUME \A i \in DOMAIN log' \ DOMAIN log : log'[i].type \notin Answers
      PROVE  /\ OneAnswer'
             /\ \A n \in Nat, type \in Answers :
                  AnsweredIn(log', n, type) => AnsweredIn(log, n, type)
  <2>1. \A n \in Nat, type \in Answers :
          AnsweredIn(log', n, type) => AnsweredIn(log, n, type)
    BY <1>1, <1>2, AnswersGrow
  <2> QED  BY <2>1 DEF AnswerInv, OneAnswer, Answers
<1>3. ASSUME NEW c \in Callers, GrantApproval(c)  PROVE AnswerInv'
  <2>1. PICK n \in Nat : n = frame[c].checkpoint
    BY <1>3, LocalsAtAction DEF GrantApproval, ActionPoints, Points
  <2>2. \A i \in DOMAIN log' \ DOMAIN log :
          log'[i].type = "approval_granted" /\ log'[i].checkpoint = n
    <3>1. PICK a, b, t : Record(About("approval_granted", a, n, b, t))
      BY <1>3, <2>1 DEF GrantApproval
    <3> DEFINE e == About("approval_granted", a, n, b, t)
    <3>2. e.type = "approval_granted" /\ e.checkpoint = n
      BY DEF About
    <3> HIDE DEF e
    <3> QED  BY <3>1, <3>2, RecordedAtEnd DEF e
  <2>3. ~ AnsweredIn(log, n, "approval_rejected")
    BY <1>3, <2>1 DEF GrantApproval, AnswerInv, AnswerersChecked
  <2>4. OneAnswer'
    BY <1>1, <2>2, <2>3, AnswersGrow DEF AnswerInv, OneAnswer
  <2>5. \A d \in Callers : pc'[d] = "lookup"
    BY <1>3, MoveShape DEF GrantApproval, OneThread
  <2> QED  BY <2>4, <2>5 DEF AnswerInv, AnswerersChecked
<1>4. ASSUME NEW c \in Callers, RejectApproval(c)  PROVE AnswerInv'
  <2>1. PICK n \in Nat : n = frame[c].checkpoint
    BY <1>4, LocalsAtAction DEF RejectApproval, ActionPoints, Points
  <2>2. \A i \in DOMAIN log' \ DOMAIN log :
          log'[i].type = "approval_rejected" /\ log'[i].checkpoint = n
    <3>1. PICK a, b, t : Record(About("approval_rejected", a, n, b, t))
      BY <1>4, <2>1 DEF RejectApproval
    <3> DEFINE e == About("approval_rejected", a, n, b, t)
    <3>2. e.type = "approval_rejected" /\ e.checkpoint = n
      BY DEF About
    <3> HIDE DEF e
    <3> QED  BY <3>1, <3>2, RecordedAtEnd DEF e
  <2>3. ~ AnsweredIn(log, n, "approval_granted")
    BY <1>4, <2>1 DEF RejectApproval, AnswerInv, AnswerersChecked
  <2>4. OneAnswer'
    BY <1>1, <2>2, <2>3, AnswersGrow DEF AnswerInv, OneAnswer
  <2>5. \A d \in Callers : pc'[d] = "idle"
    BY <1>4, ReturnShape DEF RejectApproval, OneThread
  <2> QED  BY <2>4, <2>5 DEF AnswerInv, AnswerersChecked
<1>5. ASSUME NEW c \in Callers, CheckGrantable(c) \/ CheckRejectable(c)
      PROVE  AnswerInv'
  <2>1. UNCHANGED log /\ OneAnswer'
    BY <1>5 DEF CheckGrantable, CheckRejectable, store, AnswerInv, OneAnswer
  <2>2. /\ pc'[c] = "grant" => /\ frame'[c] = frame[c]
                               /\ ~ Rejected(frame[c].checkpoint)
        /\ pc'[c] = "reject" => /\ frame'[c] = frame[c]
                                /\ GrantsFor(frame[c].checkpoint) = {}
    BY <1>5, GotoShape, MoveShape, ReturnShape DEF CheckGrantable, CheckRejectable
  <2>3. AnswerersChecked'
    BY <2>1, <2>2 DEF OneThread, AnswerersChecked, AnsweredIn, Rejected, GrantsFor
  <2> QED  BY <2>1, <2>3 DEF AnswerInv
<1>6. CASE UNCHANGED vars \/ Tick \/ OutsideEdit \/ Crash
  <2>1. UNCHANGED log /\ (UNCHANGED <<pc, frame>> \/ \A c \in Callers : pc'[c] = "idle")
    BY <1>6 DEF vars, Tick, OutsideEdit, Crash, store
  <2> QED  BY <2>1 DEF AnswerInv, OneAnswer, AnswerersChecked
<1>7. ASSUME NEW c \in Callers, Take(c) \/ Continue(c) \/ ToolRaises(c),
             ~ GrantApproval(c), ~ RejectApproval(c),
             ~ CheckGrantable(c), ~ CheckRejectable(c)
      PROVE  AnswerInv'
  <2>1. OneAnswer'
    BY <1>2, <1>7, NoNewAnswer
  <2>2. pc'[c] \notin {"grant", "reject"}
    <3>1. CASE Quiet(c)
      <4>1. \/ \E point \in Points \ {"grant", "reject"} : \E locals : GotoWith(c, point, locals)
            \/ \E point \in Points \ {"grant", "reject"} : Goto(c, point)
            \/ Return(c)
            \/ pc[c] \in {"recover", "confirming"} /\ UNCHANGED <<pc, frame>>
        BY <1>7, <3>1
        DEF Take, Continue, Approve, Reject, Resume, Confirm, Recover, RepairTrail,
            RecordDecision, Lookup, Replay, KeyConflicts, Preview, CheckGrant,
            RequestApproval, Authorize, ConsumeApproval, Report, Points,
            Quiet, ToolRaises, CheckConfirmable, ConfirmOutcomeUnknown,
            SettleConfirmation, Reserve, Start, RunCommand, EditFile, BeginPatch,
            PatchStops, VerifyPatch, WritePatch, ReadBackPatch, Finished, Complete
      <4> QED  BY <4>1, MoveShape, GotoShape, ReturnShape
    <3>2. CASE ~ Quiet(c)
      <4>1. \/ \E point \in Holders : \E locals : GotoWith(c, point, locals)
            \/ \E point \in Holders : Goto(c, point)
            \/ Return(c)
            \/ pc[c] \in {"recover", "confirming"} /\ UNCHANGED <<pc, frame>>
        BY <1>7, <3>2, ExecuteQuiet, UserQuiet, LoopQuiet
        DEF Continue, ToolRaises, CheckConfirmable, RepairTrail, ConfirmOutcomeUnknown,
            SettleConfirmation, Reserve, Replay, KeyConflicts, Start, RunCommand,
            EditFile, BeginPatch, PatchStops, VerifyPatch, WritePatch, ReadBackPatch,
            Finished, Complete, Holders, Performers
      <4> QED  BY <4>1, MoveShape, GotoShape, ReturnShape DEF Holders, Performers
    <3> QED  BY <3>1, <3>2
  <2> QED  BY <2>1, <2>2 DEF OneThread, AnswerInv, AnswerersChecked
<1> QED  BY <1>3, <1>4, <1>5, <1>6, <1>7 DEF Next

\* With one thread, what the user rejected is never performed under that
\* request, whatever crashes (grant_approval, reject_approval); the run
\* reject_race shows that two threads can.
THEOREM RejectionHoldsWithOneThread ==
  ASSUME OneThread  PROVE Spec => []RejectedNeverRuns
<1>1. Init => AnswerInv
  BY DEF Init, AnswerInv, OneAnswer, AnswerersChecked, AnsweredIn
<1>2. TypeInv /\ AnswerInv /\ [Next]_vars => AnswerInv'
  BY AnswersStep
<1>3. TypeInv /\ GrantInv /\ AnswerInv => RejectedNeverRuns
  <2> SUFFICES ASSUME TypeInv, GrantInv, AnswerInv, NEW e \in DOMAIN effects
               PROVE  ~ Rejected(effects[e].checkpoint)
    BY DEF RejectedNeverRuns
  <2>1. StartedIn(log, effects[e]) /\ effects[e].checkpoint \in Nat
    BY EffectAt DEF GrantInv, EffectsEntitled, Effect
  <2>2. AnsweredIn(log, effects[e].checkpoint, "approval_granted")
    BY <2>1 DEF StartedIn, Granting, AnsweredIn
  <2> QED  BY <2>1, <2>2 DEF AnswerInv, OneAnswer, AnsweredIn, Rejected
<1>4. Spec => [](TypeInv /\ GrantInv)
  BY GrantsHold
<1> QED  BY <1>1, <1>2, <1>3, <1>4, PTL DEF Spec

-----------------------------------------------------------------------------
(***************************************************************************)
(* Recovery, with one thread: what waits for an approval, and what a crash *)
(* leaves of an effect.  The argument: a request is answered after it is   *)
(* asked, of an action that was started or rejected the last request is    *)
(* answered, so no call comes near it again, and what its trail gets after *)
(* the start is a result that is stored, or the answer of the user.        *)
(***************************************************************************)

RequestsOf(a) == EventsOf(a, {"approval_required"})

Requests == {i \in DOMAIN log : log[i].type = "approval_required"}

Answering == {j \in DOMAIN log : log[j].type \in Answers}

(* A checkpoint belongs to one action, and is answered after it is asked.  *)
CheckpointsAreOwned ==
  /\ \A i, j \in Requests :
       log[i].checkpoint = log[j].checkpoint => log[i].action = log[j].action
  /\ \A i \in Requests : log[i].checkpoint < nextCheckpoint

AnswersFollow ==
  /\ \A j \in Answering : \E i \in Requests :
       log[i].checkpoint = log[j].checkpoint /\ log[i].action = log[j].action
  /\ \A i \in Requests, j \in Answering :
       log[i].checkpoint = log[j].checkpoint => i < j

(* What a caller holds of a checkpoint, as it answers or asks.             *)
AnswerersAsked ==
  \A c \in Callers :
    pc[c] \in {"granting", "grant", "rejecting", "reject"} =>
      \E i \in RequestsOf(frame[c].action) :
        log[i].checkpoint = frame[c].checkpoint

AskersMayAsk ==
  \A c \in Callers :
    pc[c] = "request" =>
      /\ frame[c].checkpoint < nextCheckpoint
      /\ \A i \in Requests : log[i].checkpoint = frame[c].checkpoint =>
                               log[i].action = frame[c].action
      /\ \A j \in Answering : log[j].checkpoint # frame[c].checkpoint

CheckpointInv ==
  CheckpointsAreOwned /\ AnswersFollow /\ AnswerersAsked /\ AskersMayAsk

(* The loop takes up an action when the trails of the others have ended.   *)
Asking == {"granting", "grant", "lookup", "preview", "check", "request"}

OneUnresolved ==
  /\ \A a, b \in Unresolved : a = b
  /\ \A c \in Callers : pc[c] = "decide" => Unresolved = {}

Begun ==
  \A c \in Callers :
    pc[c] \in ActionPoints => EventsOf(frame[c].action, EventTypes) # {}

UnresolvedAskedLast ==
  \A a \in Unresolved :
    RequestsOf(a) # {} =>
      /\ \A i \in Requests : \E j \in RequestsOf(a) : i <= j
      /\ \A c \in Callers : pc[c] \in Asking => frame[c].action = a

TrailInv == OneUnresolved /\ Begun /\ UnresolvedAskedLast

(* An action is closed by its start or by a rejection: its last request    *)
(* has an answer, and no call is on its way to it.                         *)
Authorized == {"authorize", "consume", "reserve", "start"}
Approach == Asking \union Authorized \union {"reject"}

Closed(a) == EventsOf(a, {"action_started", "approval_rejected"}) # {}

LastAnswered(a) ==
  \E i \in RequestsOf(a) :
    /\ \A j \in RequestsOf(a) : j <= i
    /\ \E j \in Answering : log[j].checkpoint = log[i].checkpoint

ClosedInv ==
  /\ \A a \in Actions :
       /\ Closed(a) => LastAnswered(a)
       /\ EventsOf(a, {"action_started"}) = {}
            \/ EventsOf(a, {"approval_rejected"}) = {}
  /\ \A c \in Callers :
       /\ pc[c] \in Approach => ~ Closed(frame[c].action)
       /\ pc[c] \in Authorized => LastAnswered(frame[c].action)
       /\ pc[c] = "reject" => IsLatestRequest(frame[c].action, frame[c].checkpoint)

(* A start comes after every end of its trail.                             *)
StartedLast(a) ==
  \A i \in EventsOf(a, TerminalTypes) :
    \A j \in EventsOf(a, {"action_started"}) : i < j

Accounted(a) ==
  Stored(a) \/ EventsOf(a, {"action_recovery_confirmed"}) # {} \/ StartedLast(a)

AccountInv ==
  /\ \A e \in DOMAIN effects : Accounted(effects[e].action)
  /\ \A c \in Callers :
       pc[c] \in {"tool", "verify", "write"} => StartedLast(frame[c].action)

-----------------------------------------------------------------------------
(* What a step of a caller does: it records one event, or none.            *)

Keeps(c, point) == pc'[c] = point /\ frame'[c].action = frame[c].action

Writes(c, e) ==
  LET a == frame[c].action
      n == frame[c].checkpoint
  IN \/ /\ e.type = "approval_required" /\ e.action = a /\ e.checkpoint = n
        /\ pc[c] = "request" /\ pc'[c] = "idle"
     \/ /\ e.type = "approval_granted" /\ e.action = a /\ e.checkpoint = n
        /\ pc[c] = "grant" /\ Keeps(c, "lookup")
     \/ /\ e.type = "approval_rejected" /\ e.action = a /\ e.checkpoint = n
        /\ pc[c] = "reject" /\ pc'[c] = "idle"
     \/ /\ e.type = "decision_recorded" /\ EventsOf(e.action, EventTypes) = {}
        /\ pc[c] = "decide" /\ pc'[c] = "lookup" /\ frame'[c].action = e.action
     \/ /\ e.type \in {"action_authorized", "approval_consumed",
                       "action_recovery_required"} /\ e.action = a
        /\ pc[c] \in Authorized
        /\ pc'[c] = "idle" \/ \E point \in Authorized : Keeps(c, point)
     \/ /\ e.type = "action_started" /\ e.action = a
        /\ pc[c] = "start" /\ Keeps(c, "tool")
     \/ /\ e.type \in TerminalTypes /\ e.action = a
        /\ pc[c] \in {"lookup", "preview", "reserve", "report"} /\ pc'[c] = "idle"
     \/ /\ e.type \in TerminalTypes /\ Stored(e.action) /\ e.action \in Unresolved
        /\ pc[c] \in {"recover", "confirming"} /\ UNCHANGED <<pc, frame>>
     \/ /\ e.type = "action_recovery_confirmed" /\ e.action = a
        /\ pc[c] = "confirm" /\ Keeps(c, "settle")

TakesUp(c) ==
  \/ pc'[c] \in {"idle", "recover", "confirming"}
  \/ /\ pc'[c] = "granting" /\ PendingApproval # 0
     /\ frame'[c].action = log[PendingApproval].action
     /\ frame'[c].checkpoint = log[PendingApproval].checkpoint
  \/ /\ pc'[c] = "rejecting"
     /\ \E i \in Requests : /\ frame'[c].action = log[i].action
                            /\ frame'[c].checkpoint = log[i].checkpoint
  \/ pc'[c] = "decide" /\ Unresolved = {}
  \/ /\ pc'[c] \in {"lookup", "confirm"} /\ frame'[c].action \in Unresolved
     /\ pc'[c] = "lookup" => Classification(frame'[c].action) = "not_started"

Approaches(c) ==
  LET a == frame[c].action
      n == frame[c].checkpoint
  IN \/ pc[c] = "granting" /\ Keeps(c, "lookup")
     \/ pc[c] = "granting" /\ Keeps(c, "grant") /\ frame'[c] = frame[c]
     \/ /\ pc[c] = "rejecting" /\ Keeps(c, "reject") /\ frame'[c] = frame[c]
        /\ IsLatestRequest(a, n) /\ GrantsFor(n) = {} /\ ~ Rejected(n)
     \/ pc[c] = "lookup" /\ Keeps(c, "preview")
     \/ pc[c] = "preview" /\ Keeps(c, "check")
     \/ /\ pc[c] = "check" /\ Keeps(c, "authorize")
        /\ HasValidGrant(a, frame[c].baseline)
     \/ /\ pc[c] = "check" /\ Keeps(c, "request")
        /\ ReusableRequest(a, frame[c].baseline)
        /\ frame'[c].checkpoint = log[LatestRequest(a)].checkpoint

Acts(c) ==
  \/ pc[c] = "reserve" /\ Keeps(c, "start")
  \/ /\ pc[c] \in {"tool", "verify"}
     /\ Keeps(c, "verify") \/ Keeps(c, "write")
  \/ /\ pc[c] \in {"tool", "verify", "write", "readback", "complete"}
     /\ \E point \in {"readback", "complete", "report"} : Keeps(c, point)

AsksAfresh(c) ==
  /\ pc[c] = "check" /\ Keeps(c, "request")
  /\ frame'[c].checkpoint = nextCheckpoint /\ nextCheckpoint' = nextCheckpoint + 1

(* A step with no new event.                                               *)
Silent(c) ==
  /\ UNCHANGED log
  /\ \/ UNCHANGED nextCheckpoint /\ (TakesUp(c) \/ Approaches(c) \/ Acts(c))
     \/ AsksAfresh(c)

Noted(c) ==
  UNCHANGED nextCheckpoint /\ \E e \in Event : Record(e) /\ Writes(c, e)

LEMMA LocalsFields ==
  ASSUME NEW a, NEW n, NEW b, NEW m, NEW s
  PROVE  /\ Locals(a, n, b, m, s).action = a
         /\ Locals(a, n, b, m, s).checkpoint = n
         /\ FrameFor(a).action = a
  BY DEF Locals, FrameFor

LEMMA AboutRecorded ==
  ASSUME NEW type \in EventTypes, NEW a \in Actions, NEW n \in Nat,
         NEW b \in Contents \union {NoContent}, NEW t \in Nat,
         Record(About(type, a, n, b, t))
  PROVE  \E e \in Event : /\ Record(e) /\ e.type = type
                          /\ e.action = a /\ e.checkpoint = n
<1> DEFINE e == About(type, a, n, b, t)
<1>1. e \in Event
  BY EventsAreTyped
<1>2. e.type = type /\ e.action = a /\ e.checkpoint = n
  BY DEF About
<1> HIDE DEF e
<1>3. Record(e)
  BY DEF e
<1> QED  BY <1>1, <1>2, <1>3

LEMMA EventRecorded ==
  ASSUME NEW type \in EventTypes, NEW a \in Actions, Record(EventOf(type, a))
  PROVE  \E e \in Event : Record(e) /\ e.type = type /\ e.action = a
<1>1. Record(About(type, a, 0, NoContent, 0))
  BY DEF EventOf
<1>2. 0 \in Nat /\ NoContent \in Contents \union {NoContent}
  OBVIOUS
<1> QED  BY <1>1, <1>2, AboutRecorded

AnyStatus == Statuses \union {""}

LEMMA OutcomeRecorded ==
  ASSUME NEW type \in EventTypes, NEW a \in Actions, NEW s \in AnyStatus,
         Record(Outcome(type, a, s))
  PROVE  \E e \in Event : Record(e) /\ e.type = type /\ e.action = a
<1> DEFINE e == Outcome(type, a, s)
<1>1. e \in Event
  BY EventsAreTyped DEF AnyStatus
<1>2. e.type = type /\ e.action = a
  BY DEF Outcome
<1> HIDE DEF e
<1>3. Record(e)
  BY DEF e
<1> QED  BY <1>1, <1>2, <1>3

LEMMA MovesTo ==
  ASSUME TypeInv, NEW c \in Callers, NEW point,
         NEW a, NEW n, NEW b, NEW m, NEW s,
         GotoWith(c, point, Locals(a, n, b, m, s))
  PROVE  /\ pc'[c] = point
         /\ frame'[c].action = a /\ frame'[c].checkpoint = n
<1> DEFINE l == Locals(a, n, b, m, s)
<1>1. l.action = a /\ l.checkpoint = n
  BY LocalsFields
<1> HIDE DEF l
<1>2. pc'[c] = point /\ frame'[c] = l
  BY MoveShape DEF l
<1> QED  BY <1>1, <1>2

(* A requested approval or an answer of the user.                          *)
LEMMA TakeKind ==
  ASSUME TypeInv, NEW c \in Callers, Take(c)
  PROVE  Silent(c)
<1>1. UNCHANGED <<log, nextCheckpoint>>
  BY DEF Take, Approve, Reject, Resume, Confirm, Begin, store
<1>2. CASE Approve(c)
  <2>1. /\ pc'[c] = "granting" /\ PendingApproval # 0
        /\ frame'[c].action = log[PendingApproval].action
        /\ frame'[c].checkpoint = log[PendingApproval].checkpoint
    <3>1. PICK s : GotoWith(c, "granting",
                     Locals(log[PendingApproval].action,
                            log[PendingApproval].checkpoint, NoContent, 0, s))
      BY <1>2, Zenon DEF Approve
    <3> QED  BY <1>2, <3>1, MovesTo DEF Approve
  <2> QED  BY <1>1, <2>1 DEF Silent, TakesUp
<1>3. CASE Reject(c)
  <2>1. PICK i, s :
          /\ i \in DOMAIN log /\ log[i].type = "approval_required"
          /\ GotoWith(c, "rejecting",
               Locals(log[i].action, log[i].checkpoint, NoContent, 0, s))
    BY <1>3, Zenon DEF Reject
  <2>2. /\ pc'[c] = "rejecting" /\ i \in Requests
        /\ frame'[c].action = log[i].action
        /\ frame'[c].checkpoint = log[i].checkpoint
    BY <2>1, MovesTo DEF Requests
  <2> QED  BY <1>1, <2>2 DEF Silent, TakesUp
<1>4. CASE Resume(c) \/ Confirm(c)
  <2>1. pc'[c] \in {"recover", "confirming"}
    BY <1>4, GotoShape DEF Resume, Confirm
  <2> QED  BY <1>1, <2>1 DEF Silent, TakesUp
<1> QED  BY <1>2, <1>3, <1>4 DEF Take

LEMMA AnswerKind ==
  ASSUME TypeInv, NEW c \in Callers,
         CheckGrantable(c) \/ GrantApproval(c) \/ CheckRejectable(c)
           \/ RejectApproval(c)
  PROVE  Silent(c) \/ Noted(c)
<1> DEFINE a == frame[c].action
           n == frame[c].checkpoint
<1>1. CASE CheckGrantable(c)
  <2>1. UNCHANGED <<log, nextCheckpoint>> /\ pc[c] = "granting"
    BY <1>1 DEF CheckGrantable, store
  <2>2. GotoWith(c, "lookup", FrameFor(a)) \/ Goto(c, "grant") \/ Return(c)
    BY <1>1 DEF CheckGrantable
  <2>3. \/ Keeps(c, "lookup") \/ pc'[c] = "idle"
        \/ Keeps(c, "grant") /\ frame'[c] = frame[c]
    BY <2>2, MoveShape, GotoShape, ReturnShape, LocalsFields DEF Keeps
  <2> QED  BY <2>1, <2>3 DEF Silent, TakesUp, Approaches
<1>2. CASE CheckRejectable(c)
  <2>1. UNCHANGED <<log, nextCheckpoint>> /\ pc[c] = "rejecting"
    BY <1>2 DEF CheckRejectable, store
  <2>2. \/ /\ IsLatestRequest(a, n) /\ GrantsFor(n) = {} /\ ~ Rejected(n)
           /\ Goto(c, "reject")
        \/ Return(c)
    BY <1>2 DEF CheckRejectable
  <2>3. \/ /\ IsLatestRequest(a, n) /\ GrantsFor(n) = {} /\ ~ Rejected(n)
           /\ Keeps(c, "reject") /\ frame'[c] = frame[c]
        \/ pc'[c] = "idle"
    BY <2>2, GotoShape, ReturnShape DEF Keeps
  <2> QED  BY <2>1, <2>3 DEF Silent, TakesUp, Approaches
<1>3. CASE GrantApproval(c)
  <2>1. PICK b, t : /\ Record(About("approval_granted", a, n, b, t))
                    /\ b = RequestOf(n).baseline /\ t = clock + TTL
    BY <1>3 DEF GrantApproval
  <2>2. log' \in Seq(Event) /\ a \in Actions /\ n \in Nat
    <3>1. pc[c] \in ActionPoints
      BY <1>3 DEF GrantApproval, ActionPoints, Points
    <3> QED  BY <1>3, <3>1, LocalsAtAction, GrantApprovalTyped DEF TypeInv, TypeOK
  <2> DEFINE e == About("approval_granted", a, n, b, t)
  <2>3. e.type = "approval_granted" /\ e.action = a /\ e.checkpoint = n
    BY DEF About
  <2>4. e \in Event
    <3>1. log \in Seq(Event) /\ log' = Append(log, e)
      BY <2>1 DEF Record, TypeInv, TypeOK
    <3> HIDE DEF e
    <3>2. log'[Len(log) + 1] = e /\ Len(log) + 1 \in 1 .. Len(log')
      BY <3>1, SMT
    <3> QED  BY <2>2, <3>2, ElementOfSeq
  <2>5. Keeps(c, "lookup")
    BY <1>3, MoveShape, LocalsFields DEF GrantApproval, Keeps
  <2>6. pc[c] = "grant" /\ UNCHANGED nextCheckpoint
    BY <1>3 DEF GrantApproval
  <2> HIDE DEF e
  <2>7. Record(e) /\ Writes(c, e)
    BY <2>1, <2>3, <2>5, <2>6 DEF e, Writes
  <2> QED  BY <2>4, <2>6, <2>7 DEF Noted
<1>4. CASE RejectApproval(c)
  <2>1. pc[c] = "reject" /\ UNCHANGED nextCheckpoint /\ pc'[c] = "idle"
    BY <1>4, ReturnShape DEF RejectApproval
  <2>2. a \in Actions /\ n \in Nat
    BY <2>1, LocalsAtAction DEF ActionPoints, Points
  <2>3. PICK e \in Event : /\ Record(e) /\ e.type = "approval_rejected"
                           /\ e.action = a /\ e.checkpoint = n
    <3>1. /\ "approval_rejected" \in EventTypes
          /\ NoContent \in Contents \union {NoContent} /\ 0 \in Nat
      BY DEF EventTypes
    <3>2. Record(About("approval_rejected", a, n, NoContent, 0))
      BY <1>4 DEF RejectApproval
    <3> QED  BY <2>2, <3>1, <3>2, AboutRecorded
  <2>4. Writes(c, e)
    BY <2>1, <2>3 DEF Writes
  <2> QED  BY <2>1, <2>3, <2>4 DEF Noted
<1> QED  BY <1>1, <1>2, <1>3, <1>4

LEMMA ExecuteKind ==
  ASSUME TypeInv, NEW c \in Callers,
         Lookup(c) \/ Preview(c) \/ CheckGrant(c) \/ RequestApproval(c)
  PROVE  Silent(c) \/ Noted(c)
<1> DEFINE a == frame[c].action
           n == frame[c].checkpoint
<1>1. /\ pc[c] \in ActionPoints
      /\ CheckGrant(c) \/ UNCHANGED nextCheckpoint
  BY DEF Lookup, Preview, CheckGrant, RequestApproval, Points, ActionPoints
<1>2. /\ a \in Actions /\ n \in Nat /\ 0 \in Nat
      /\ frame[c].baseline \in Contents \union {NoContent}
  BY <1>1, LocalsAtAction
<1>3. ASSUME pc[c] \in {"lookup", "preview"}, Return(c), UNCHANGED nextCheckpoint,
             NEW type \in TerminalTypes, NEW s \in AnyStatus,
             Record(Outcome(type, a, s))
      PROVE  Noted(c)
  <2>1. PICK e \in Event : Record(e) /\ e.type = type /\ e.action = a
    <3>1. type \in EventTypes
      BY DEF EventTypes
    <3> QED  BY <1>2, <1>3, <3>1, OutcomeRecorded
  <2>2. pc'[c] = "idle"
    BY <1>3, ReturnShape
  <2> QED  BY <1>3, <2>1, <2>2 DEF Noted, Writes
<1>4. CASE Lookup(c)
  <2>1. CASE Record(Outcome("action_denied", a, "policy_denied")) /\ Return(c)
    <3>1. "action_denied" \in TerminalTypes /\ "policy_denied" \in AnyStatus
      BY DEF TerminalTypes, AnyStatus, Statuses
    <3> QED  BY <1>3, <1>4, <2>1, <3>1 DEF Lookup
  <2>2. CASE Replay(c)
    <3>1. /\ "action_replayed" \in TerminalTypes
          /\ StoredStatus(a) \in AnyStatus
      BY <1>2, StoredTyped DEF TerminalTypes, AnyStatus
    <3> QED  BY <1>3, <1>4, <2>2, <3>1 DEF Lookup, Replay
  <2>3. CASE KeyConflicts(c)
    <3>1. "action_conflict" \in TerminalTypes /\ "failed" \in AnyStatus
      BY DEF TerminalTypes, AnyStatus, Statuses
    <3> QED  BY <1>3, <1>4, <2>3, <3>1 DEF Lookup, KeyConflicts
  <2>4. CASE Goto(c, "preview") /\ UNCHANGED log
    BY <1>4, <2>4, GotoShape DEF Lookup, Silent, Approaches, Keeps
  <2> QED  BY <1>4, <2>1, <2>2, <2>3, <2>4 DEF Lookup
<1>5. CASE Preview(c)
  <2>1. CASE /\ Record(IF disk = Absent
                       THEN Outcome("action_failed", a, "failed")
                       ELSE Outcome("action_conflict", a, "conflict"))
             /\ Return(c)
    <3>1. /\ {"action_failed", "action_conflict"} \subseteq TerminalTypes
          /\ {"failed", "conflict"} \subseteq AnyStatus
      BY DEF TerminalTypes, AnyStatus, Statuses
    <3>2. CASE disk = Absent
      BY <1>3, <1>5, <2>1, <3>1, <3>2 DEF Preview
    <3>3. CASE disk # Absent
      BY <1>3, <1>5, <2>1, <3>1, <3>3 DEF Preview
    <3> QED  BY <3>2, <3>3
  <2>2. CASE /\ GotoWith(c, "check",
                  Locals(a, 0, IF Kind[a] = "run_command" THEN NoContent ELSE disk,
                         0, ""))
             /\ UNCHANGED log
    <3>1. Keeps(c, "check")
      <4>1. PICK b, s : GotoWith(c, "check", Locals(a, 0, b, 0, s))
        BY <2>2, Zenon
      <4> QED  BY <4>1, MovesTo DEF Keeps
    <3> QED  BY <1>5, <2>2, <3>1 DEF Preview, Silent, Approaches
  <2> QED  BY <1>5, <2>1, <2>2 DEF Preview
<1>6. CASE CheckGrant(c)
  <2>1. UNCHANGED log /\ pc[c] = "check"
    BY <1>6 DEF CheckGrant, store
  <2> DEFINE b == frame[c].baseline
  <2>2. \/ /\ HasValidGrant(a, b) /\ UNCHANGED nextCheckpoint
           /\ \E m, s : GotoWith(c, "authorize", Locals(a, m, b, clock, s))
        \/ /\ ReusableRequest(a, b) /\ UNCHANGED nextCheckpoint
           /\ \E s : GotoWith(c, "request",
                Locals(a, log[LatestRequest(a)].checkpoint, b, 0, s))
        \/ /\ nextCheckpoint' = nextCheckpoint + 1
           /\ \E s : GotoWith(c, "request", Locals(a, nextCheckpoint, b, 0, s))
    BY <1>6, Zenon DEF CheckGrant
  <2>3. \/ /\ HasValidGrant(a, b) /\ UNCHANGED nextCheckpoint
           /\ Keeps(c, "authorize")
        \/ /\ ReusableRequest(a, b) /\ UNCHANGED nextCheckpoint
           /\ Keeps(c, "request")
           /\ frame'[c].checkpoint = log[LatestRequest(a)].checkpoint
        \/ /\ nextCheckpoint' = nextCheckpoint + 1 /\ Keeps(c, "request")
           /\ frame'[c].checkpoint = nextCheckpoint
    BY <2>2, MovesTo DEF Keeps
  <2> QED  BY <2>1, <2>3 DEF Silent, Approaches, AsksAfresh
<1>7. CASE RequestApproval(c)
  <2>1. pc[c] = "request" /\ pc'[c] = "idle"
    BY <1>7, ReturnShape DEF RequestApproval
  <2>2. PICK e \in Event : /\ Record(e) /\ e.type = "approval_required"
                           /\ e.action = a /\ e.checkpoint = n
    <3>1. "approval_required" \in EventTypes
      BY DEF EventTypes
    <3> QED  BY <1>2, <1>7, <3>1, AboutRecorded DEF RequestApproval
  <2> QED  BY <1>1, <1>7, <2>1, <2>2 DEF Noted, Writes, CheckGrant
<1> QED  BY <1>4, <1>5, <1>6, <1>7

LEMMA AuthorizedKind ==
  ASSUME TypeInv, NEW c \in Callers,
         Authorize(c) \/ ConsumeApproval(c) \/ Reserve(c) \/ Start(c)
  PROVE  Silent(c) \/ Noted(c)
<1> DEFINE a == frame[c].action
           n == frame[c].checkpoint
<1>1. /\ pc[c] \in ActionPoints /\ pc[c] \in Authorized /\ UNCHANGED nextCheckpoint
  BY DEF Authorize, ConsumeApproval, Reserve, Start, Points, ActionPoints, Authorized
<1>2. /\ a \in Actions /\ n \in Nat /\ 0 \in Nat
      /\ frame[c].baseline \in Contents \union {NoContent}
      /\ NoContent \in Contents \union {NoContent}
  BY <1>1, LocalsAtAction
<1>3. {"action_authorized", "approval_consumed"} \subseteq EventTypes
  BY DEF EventTypes
<1>4. CASE Authorize(c) \/ ConsumeApproval(c)
  <2>1. \E point \in Authorized : Keeps(c, point)
    BY <1>4, GotoShape DEF Authorize, ConsumeApproval, Keeps, Authorized
  <2>2. \E type \in {"action_authorized", "approval_consumed"} :
          Record(About(type, a, n, frame[c].baseline, 0))
    BY <1>4 DEF Authorize, ConsumeApproval
  <2>3. PICK e \in Event : /\ Record(e) /\ e.action = a
                           /\ e.type \in {"action_authorized", "approval_consumed"}
    BY <1>2, <1>3, <2>2, AboutRecorded
  <2> QED  BY <1>1, <2>1, <2>3 DEF Noted, Writes
<1>5. CASE Reserve(c)
  <2>1. CASE Goto(c, "start") /\ UNCHANGED log
    <3>1. Keeps(c, "start")
      BY <2>1, GotoShape DEF Keeps
    <3> QED  BY <1>1, <1>5, <2>1, <3>1 DEF Reserve, Silent, Acts
  <2>2. CASE Replay(c) \/ KeyConflicts(c)
    <3>1. PICK e \in Event : /\ Record(e) /\ e.type \in TerminalTypes
                             /\ e.action = a
      <4>1. /\ {"action_replayed", "action_conflict"} \subseteq TerminalTypes
            /\ TerminalTypes \subseteq EventTypes
            /\ {StoredStatus(a), "failed"} \subseteq AnyStatus
        BY <1>2, StoredTyped DEF TerminalTypes, EventTypes, AnyStatus, Statuses
      <4>2. CASE Replay(c)
        <5>1. Record(Outcome("action_replayed", a, StoredStatus(a)))
          BY <4>2 DEF Replay
        <5> QED  BY <1>2, <4>1, <5>1, OutcomeRecorded
      <4>3. CASE KeyConflicts(c)
        <5>1. Record(Outcome("action_conflict", a, "failed"))
          BY <4>3 DEF KeyConflicts
        <5> QED  BY <1>2, <4>1, <5>1, OutcomeRecorded
      <4> QED  BY <2>2, <4>2, <4>3
    <3>2. pc[c] = "reserve" /\ pc'[c] = "idle"
      BY <1>5, <2>2, ReturnShape DEF Reserve, Replay, KeyConflicts
    <3> QED  BY <1>1, <3>1, <3>2 DEF Noted, Writes
  <2>3. CASE Record(EventOf("action_recovery_required", a)) /\ Return(c)
    <3>1. PICK e \in Event : /\ Record(e) /\ e.action = a
                             /\ e.type = "action_recovery_required"
      <4>1. "action_recovery_required" \in EventTypes
        BY DEF EventTypes
      <4> QED  BY <1>2, <2>3, <4>1, EventRecorded
    <3>2. pc'[c] = "idle"
      BY <2>3, ReturnShape
    <3> QED  BY <1>1, <3>1, <3>2 DEF Noted, Writes
  <2> QED  BY <1>5, <2>1, <2>2, <2>3 DEF Reserve
<1>6. CASE Start(c)
  <2>1. pc[c] = "start" /\ Keeps(c, "tool")
    BY <1>6, GotoShape DEF Start, Keeps
  <2>2. PICK e \in Event : Record(e) /\ e.action = a /\ e.type = "action_started"
    <3>1. "action_started" \in EventTypes
      BY DEF EventTypes
    <3> QED  BY <1>2, <1>6, <3>1, EventRecorded DEF Start
  <2> QED  BY <1>1, <2>1, <2>2 DEF Noted, Writes
<1> QED  BY <1>4, <1>5, <1>6

LEMMA ToolKind ==
  ASSUME TypeInv, NEW c \in Callers,
         \/ RunCommand(c) \/ EditFile(c) \/ BeginPatch(c) \/ VerifyPatch(c)
         \/ WritePatch(c) \/ ReadBackPatch(c) \/ ToolRaises(c) \/ Complete(c)
         \/ Report(c)
  PROVE  Silent(c) \/ Noted(c)
<1> DEFINE a == frame[c].action
<1>1. UNCHANGED nextCheckpoint
  BY DEF RunCommand, EditFile, BeginPatch, VerifyPatch, WritePatch, ReadBackPatch,
         ToolRaises, Complete, Report
<1>2. ASSUME NEW s, Finished(c, s)  PROVE Keeps(c, "complete")
  BY <1>2, MovesTo DEF Finished, Observed, Keeps
<1>3. CASE RunCommand(c) \/ EditFile(c) \/ WritePatch(c) \/ ReadBackPatch(c)
             \/ ToolRaises(c)
  <2>1. UNCHANGED log /\ pc[c] \in {"tool", "write", "readback"}
    BY <1>3 DEF RunCommand, EditFile, WritePatch, ReadBackPatch, ToolRaises, store
  <2>2. (\E s : Finished(c, s)) \/ Goto(c, "readback")
    BY <1>3 DEF RunCommand, EditFile, WritePatch, ReadBackPatch, ToolRaises
  <2>3. Keeps(c, "complete") \/ Keeps(c, "readback")
    BY <1>2, <2>2, GotoShape DEF Keeps
  <2> QED  BY <1>1, <2>1, <2>3 DEF Silent, Acts
<1>4. CASE BeginPatch(c) \/ VerifyPatch(c)
  <2>1. UNCHANGED log /\ pc[c] \in {"tool", "verify"}
    BY <1>4 DEF BeginPatch, VerifyPatch, store
  <2>2. (\E s : Finished(c, s)) \/ Goto(c, "verify") \/ Goto(c, "write")
    BY <1>4 DEF BeginPatch, VerifyPatch, PatchStops
  <2>3. Keeps(c, "complete") \/ Keeps(c, "verify") \/ Keeps(c, "write")
    BY <1>2, <2>2, GotoShape DEF Keeps
  <2> QED  BY <1>1, <2>1, <2>3 DEF Silent, Acts
<1>5. CASE Complete(c)
  <2>1. Keeps(c, "report")
    BY <1>5, MovesTo DEF Complete, Observed, Keeps
  <2> QED  BY <1>1, <1>5, <2>1 DEF Complete, Silent, Acts
<1>6. CASE Report(c)
  <2>1. pc[c] = "report" /\ pc'[c] = "idle"
    BY <1>6, ReturnShape DEF Report
  <2>2. a \in Actions /\ frame[c].status \in AnyStatus
    BY <2>1, LocalsAtAction DEF ActionPoints, Points, AnyStatus
  <2>3. /\ OutcomeType(frame[c].status) \in TerminalTypes
        /\ TerminalTypes \subseteq EventTypes
    BY DEF OutcomeType, TerminalTypes, EventTypes
  <2>4. PICK e \in Event : Record(e) /\ e.action = a /\ e.type \in TerminalTypes
    <3>1. Record(Outcome(OutcomeType(frame[c].status), a, frame[c].status))
      BY <1>6 DEF Report
    <3> QED  BY <2>2, <2>3, <3>1, OutcomeRecorded
  <2> QED  BY <1>1, <2>1, <2>4 DEF Noted, Writes
<1> QED  BY <1>3, <1>4, <1>5, <1>6

LEMMA RecoveryKind ==
  ASSUME TypeInv, NEW c \in Callers,
         Recover(c) \/ RecordDecision(c) \/ CheckConfirmable(c)
           \/ ConfirmOutcomeUnknown(c) \/ SettleConfirmation(c)
  PROVE  Silent(c) \/ Noted(c)
<1>1. UNCHANGED nextCheckpoint
  BY DEF Recover, RecordDecision, CheckConfirmable, ConfirmOutcomeUnknown,
         SettleConfirmation
<1>2. ASSUME NEW a \in Actions, a \in Unresolved, RepairTrail(c, a),
             pc[c] \in {"recover", "confirming"}
      PROVE  Noted(c)
  <2>1. /\ "action_recovered" \in TerminalTypes /\ TerminalTypes \subseteq EventTypes
        /\ StoredStatus(a) \in AnyStatus
    BY StoredTyped DEF TerminalTypes, EventTypes, AnyStatus
  <2>2. PICK e \in Event : Record(e) /\ e.type \in TerminalTypes /\ e.action = a
    <3>1. Record(Outcome("action_recovered", a, StoredStatus(a)))
      BY <1>2 DEF RepairTrail
    <3> QED  BY <1>2, <2>1, <3>1, OutcomeRecorded
  <2>3. Stored(a) /\ UNCHANGED <<pc, frame>>
    BY <1>2 DEF RepairTrail
  <2> QED  BY <1>1, <1>2, <2>2, <2>3 DEF Noted, Writes
<1>3. CASE Recover(c)
  <2>1. CASE Unresolved = {} /\ Goto(c, "decide") /\ UNCHANGED log
    BY <1>1, <2>1, GotoShape DEF Silent, TakesUp
  <2>2. ASSUME NEW a \in Actions, IsPendingAction(a),
               Classification(a) = "not_started",
               GotoWith(c, "lookup", FrameFor(a)), UNCHANGED log
        PROVE  Silent(c)
    <3>1. pc'[c] = "lookup" /\ frame'[c].action = a
      BY <2>2, MoveShape, LocalsFields
    <3> QED  BY <1>1, <2>2, <3>1 DEF IsPendingAction, Silent, TakesUp
  <2>3. CASE Return(c) /\ UNCHANGED log
    BY <1>1, <2>3, ReturnShape DEF Silent, TakesUp
  <2> QED  BY <1>2, <1>3, <2>1, <2>2, <2>3 DEF Recover, IsPendingAction
<1>4. CASE RecordDecision(c)
  <2>1. CASE Return(c) /\ UNCHANGED log
    BY <1>1, <2>1, ReturnShape DEF Silent, TakesUp
  <2>2. ASSUME NEW a \in Actions, EventsOf(a, EventTypes) = {},
               Record(EventOf("decision_recorded", a)),
               GotoWith(c, "lookup", FrameFor(a))
        PROVE  Noted(c)
    <3>1. "decision_recorded" \in EventTypes
      BY DEF EventTypes
    <3>2. PICK e \in Event : Record(e) /\ e.type = "decision_recorded" /\ e.action = a
      BY <2>2, <3>1, EventRecorded
    <3>3. pc[c] = "decide" /\ pc'[c] = "lookup" /\ frame'[c].action = a
      BY <1>4, <2>2, MoveShape, LocalsFields DEF RecordDecision
    <3> QED  BY <1>1, <2>2, <3>2, <3>3 DEF Noted, Writes
  <2> QED  BY <1>4, <2>1, <2>2 DEF RecordDecision
<1>5. CASE CheckConfirmable(c)
  <2>1. CASE Return(c) /\ UNCHANGED log
    BY <1>1, <2>1, ReturnShape DEF Silent, TakesUp
  <2>2. ASSUME NEW a \in Actions, IsPendingAction(a),
               GotoWith(c, "confirm", FrameFor(a)), UNCHANGED log
        PROVE  Silent(c)
    <3>1. pc'[c] = "confirm" /\ frame'[c].action = a
      BY <2>2, MoveShape, LocalsFields
    <3> QED  BY <1>1, <2>2, <3>1 DEF IsPendingAction, Silent, TakesUp
  <2> QED  BY <1>2, <1>5, <2>1, <2>2 DEF CheckConfirmable, IsPendingAction
<1>6. CASE ConfirmOutcomeUnknown(c)
  <2>1. pc[c] = "confirm" /\ Keeps(c, "settle")
    BY <1>6, GotoShape DEF ConfirmOutcomeUnknown, Keeps
  <2>2. frame[c].action \in Actions
    BY <2>1, LocalsAtAction DEF ActionPoints, Points
  <2>3. /\ "action_recovery_confirmed" \in EventTypes
        /\ "outcome_unknown" \in AnyStatus
    BY DEF EventTypes, TerminalTypes, AnyStatus, Statuses
  <2>4. PICK e \in Event : /\ Record(e) /\ e.type = "action_recovery_confirmed"
                           /\ e.action = frame[c].action
    BY <1>6, <2>2, <2>3, OutcomeRecorded DEF ConfirmOutcomeUnknown
  <2> QED  BY <1>1, <2>1, <2>4 DEF Noted, Writes
<1>7. CASE SettleConfirmation(c)
  <2>1. UNCHANGED log /\ pc'[c] = "idle"
    BY <1>7, ReturnShape DEF SettleConfirmation
  <2> QED  BY <1>1, <2>1 DEF Silent, TakesUp
<1> QED  BY <1>3, <1>4, <1>5, <1>6, <1>7

LEMMA StepKind ==
  ASSUME TypeInv, NEW c \in Callers, Take(c) \/ Continue(c) \/ ToolRaises(c)
  PROVE  Silent(c) \/ Noted(c)
  BY TakeKind, AnswerKind, ExecuteKind, AuthorizedKind, ToolKind, RecoveryKind
  DEF Continue

-----------------------------------------------------------------------------
(* The log with one more event.                                            *)

AppendedAt(m, e) ==
  /\ m \in Nat /\ DOMAIN log' = DOMAIN log \union {m}
  /\ \A i \in DOMAIN log : i \in Nat /\ i < m /\ log'[i] = log[i]
  /\ log'[m] = e

LEMMA RecordedAt ==
  ASSUME TypeInv, NEW e \in Event, Record(e)
  PROVE  \E m : AppendedAt(m, e)
<1>1. log \in Seq(Event)
  BY DEF TypeInv, TypeOK
<1> DEFINE m == Len(log) + 1
<1>2. Len(log) \in Nat /\ DOMAIN log = 1 .. Len(log) /\ DOMAIN log' = 1 .. m
  BY <1>1, RecordAppends
<1>3. log'[m] = e /\ \A i \in DOMAIN log : log'[i] = log[i]
  BY <1>1, RecordAppends
<1>4. \A i \in 1 .. Len(log) : i \in Nat /\ i < m
  BY <1>2
<1>5. m \in Nat /\ 1 .. m = 1 .. Len(log) \union {m}
  BY <1>2
<1> QED  BY <1>2, <1>3, <1>4, <1>5 DEF AppendedAt

LEMMA EventsWith ==
  ASSUME NEW m, NEW e, AppendedAt(m, e)
  PROVE  /\ \A a, types :
              EventsOf(a, types)' =
                IF e.action = a /\ e.type \in types
                THEN EventsOf(a, types) \union {m} ELSE EventsOf(a, types)
         /\ Requests' = IF e.type = "approval_required"
                        THEN Requests \union {m} ELSE Requests
         /\ Answering' = IF e.type \in Answers
                         THEN Answering \union {m} ELSE Answering
  BY DEF AppendedAt, EventsOf, Requests, Answering

LEMMA SameEvents ==
  ASSUME UNCHANGED log
  PROVE  /\ \A a, types : EventsOf(a, types)' = EventsOf(a, types)
         /\ Requests' = Requests /\ Answering' = Answering
         /\ Unresolved' = Unresolved
  BY DEF EventsOf, Requests, Answering, Unresolved

LEMMA EventsAreInLog ==
  ASSUME TypeInv
  PROVE  /\ \A a, types : EventsOf(a, types) \subseteq DOMAIN log
         /\ Requests \subseteq DOMAIN log /\ Answering \subseteq DOMAIN log
         /\ \A i \in DOMAIN log : /\ i \in Nat /\ i > 0
                                  /\ log[i].action \in Actions
                                  /\ log[i].checkpoint \in Nat
                                  /\ log[i].type \in EventTypes
<1>1. log \in Seq(Event)
  BY DEF TypeInv, TypeOK
<1>2. \A i \in DOMAIN log : i \in Nat /\ i > 0 /\ log[i] \in Event
  BY <1>1, ElementOfSeq, LenProperties
<1>3. \A i \in DOMAIN log : /\ log[i].action \in Actions
                            /\ log[i].checkpoint \in Nat
                            /\ log[i].type \in EventTypes
  BY <1>2 DEF Event
<1> QED  BY <1>2, <1>3 DEF EventsOf, Requests, Answering

LEMMA LastOf ==
  ASSUME TypeInv, NEW S, S \subseteq DOMAIN log, S # {}
  PROVE  Latest(S) \in S /\ \A i \in S : i <= Latest(S)
  BY LatestIsLast, LenProperties DEF TypeInv, TypeOK

LEMMA LatestRequestIsLast ==
  ASSUME TypeInv, NEW a, RequestsOf(a) # {}
  PROVE  /\ LatestRequest(a) \in RequestsOf(a)
         /\ \A i \in RequestsOf(a) : i <= LatestRequest(a)
  BY LastOf, EventsAreInLog DEF LatestRequest, RequestsOf

LEMMA PendingIsLast ==
  ASSUME TypeInv, PendingApproval # 0
  PROVE  /\ PendingApproval \in Requests
         /\ \A i \in Requests : i <= PendingApproval
         /\ \A j \in Answering : j > PendingApproval =>
              log[j].checkpoint # log[PendingApproval].checkpoint
<1>1. Requests # {}
  BY DEF PendingApproval, Requests
<1>2. /\ Latest(Requests) \in Requests
      /\ \A i \in Requests : i <= Latest(Requests)
  BY <1>1, LastOf, EventsAreInLog
<1>3. /\ PendingApproval = Latest(Requests)
      /\ ~ \E j \in DOMAIN log :
             /\ j > Latest(Requests) /\ log[j].type \in Answers
             /\ log[j].checkpoint = log[Latest(Requests)].checkpoint
  BY DEF PendingApproval, Requests, Answers
<1> QED  BY <1>2, <1>3 DEF Answering

-----------------------------------------------------------------------------
(* Checkpoints.                                                            *)

LEMMA SilentCheckpoints ==
  ASSUME OneThread, TypeInv, CheckpointInv, NEW c \in Callers, Silent(c)
  PROVE  CheckpointInv'
<1>1. Requests' = Requests /\ Answering' = Answering /\ log' = log
  BY SameEvents DEF Silent
<1>2. \A a : RequestsOf(a)' = RequestsOf(a)
  BY SameEvents DEF Silent, RequestsOf
<1>3. nextCheckpoint' \in {nextCheckpoint, nextCheckpoint + 1} /\ nextCheckpoint \in Nat
  BY DEF Silent, AsksAfresh, TypeInv, TypeOK
<1>4. CheckpointsAreOwned'
  BY <1>1, <1>3, EventsAreInLog DEF CheckpointInv, CheckpointsAreOwned
<1>5. AnswersFollow'
  BY <1>1 DEF CheckpointInv, AnswersFollow
<1>6. AnswerersAsked'
  <2> SUFFICES ASSUME pc'[c] \in {"granting", "grant", "rejecting", "reject"}
               PROVE  \E i \in RequestsOf(frame'[c].action) :
                        log[i].checkpoint = frame'[c].checkpoint
    BY <1>1, <1>2 DEF AnswerersAsked, OneThread
  <2>1. CASE pc'[c] \in {"granting", "rejecting"}
    <3>1. \E i \in Requests : /\ frame'[c].action = log[i].action
                              /\ frame'[c].checkpoint = log[i].checkpoint
      BY <2>1, PendingIsLast DEF Silent, TakesUp, Approaches, Acts, AsksAfresh, Keeps
    <3> QED  BY <3>1 DEF Requests, RequestsOf, EventsOf
  <2>2. CASE pc'[c] \in {"grant", "reject"}
    <3>1. pc[c] \in {"granting", "rejecting"} /\ frame'[c] = frame[c]
      BY <2>2 DEF Silent, TakesUp, Approaches, Acts, AsksAfresh, Keeps
    <3> QED  BY <3>1 DEF CheckpointInv, AnswerersAsked
  <2> QED  BY <2>1, <2>2
<1>7. AskersMayAsk'
  <2> DEFINE n == frame'[c].checkpoint
  <2> SUFFICES ASSUME pc'[c] = "request"
               PROVE  /\ n < nextCheckpoint'
                      /\ \A i \in Requests : log[i].checkpoint = n =>
                           log[i].action = frame'[c].action
                      /\ \A j \in Answering : log[j].checkpoint # n
    BY <1>1 DEF AskersMayAsk, OneThread
  <2>1. CASE AsksAfresh(c)
    <3>1. \A i \in Requests : log[i].checkpoint # nextCheckpoint
      BY <1>3, EventsAreInLog DEF CheckpointInv, CheckpointsAreOwned
    <3>2. \A j \in Answering : log[j].checkpoint # nextCheckpoint
      BY <3>1 DEF CheckpointInv, AnswersFollow
    <3> QED  BY <1>3, <2>1, <3>1, <3>2 DEF AsksAfresh
  <2>2. CASE ~ AsksAfresh(c)
    <3> DEFINE a == frame[c].action
               r == LatestRequest(a)
    <3>1. /\ ReusableRequest(a, frame[c].baseline) /\ UNCHANGED nextCheckpoint
          /\ n = log[r].checkpoint /\ frame'[c].action = a
      BY <2>2 DEF Silent, TakesUp, Approaches, Acts, Keeps
    <3>2. r \in RequestsOf(a)
      BY <3>1, LatestRequestIsLast DEF ReusableRequest, RequestsOf
    <3>3. r \in Requests /\ log[r].action = a
      BY <3>2 DEF RequestsOf, EventsOf, Requests
    <3>4. \A j \in Answering : log[j].checkpoint # n
      BY <3>1 DEF ReusableRequest, Rejected, GrantsFor, Answering, Answers
    <3> QED  BY <3>1, <3>3, <3>4 DEF CheckpointInv, CheckpointsAreOwned
  <2> QED  BY <2>1, <2>2
<1> QED  BY <1>4, <1>5, <1>6, <1>7 DEF CheckpointInv

LEMMA NotedCheckpoints ==
  ASSUME OneThread, TypeInv, CheckpointInv, NEW c \in Callers, Noted(c)
  PROVE  CheckpointInv'
<1>1. PICK e \in Event : Record(e) /\ Writes(c, e)
  BY DEF Noted
<1>2. PICK m : AppendedAt(m, e)
  BY <1>1, RecordedAt
<1>3. UNCHANGED nextCheckpoint
  BY DEF Noted
<1>4. \A i \in DOMAIN log : i \in Nat /\ i < m /\ log'[i] = log[i]
  BY <1>2 DEF AppendedAt
<1>5. log'[m] = e /\ m \notin DOMAIN log
  BY <1>2 DEF AppendedAt
<1>6. Requests \subseteq DOMAIN log /\ Answering \subseteq DOMAIN log
  BY EventsAreInLog
<1>7. /\ pc'[c] \notin {"granting", "grant", "reject", "request"}
      /\ pc'[c] = "rejecting" => pc[c] = "rejecting" /\ UNCHANGED frame
  BY <1>1 DEF Writes, Keeps, Authorized
<1>8. AskersMayAsk' /\ AnswerersAsked'
  BY <1>1, <1>7 DEF Writes, Keeps, Authorized, OneThread, AskersMayAsk, AnswerersAsked
<1>9. CASE e.type = "approval_required"
  <2>1. /\ pc[c] = "request" /\ e.action = frame[c].action
        /\ e.checkpoint = frame[c].checkpoint
    BY <1>1, <1>9 DEF Writes, TerminalTypes
  <2>2. Requests' = Requests \union {m} /\ Answering' = Answering
    BY <1>2, <1>9, EventsWith DEF Answers
  <2>3. /\ e.checkpoint < nextCheckpoint
        /\ \A i \in Requests : log[i].checkpoint = e.checkpoint =>
                                 log[i].action = e.action
        /\ \A j \in Answering : log[j].checkpoint # e.checkpoint
    BY <2>1 DEF CheckpointInv, AskersMayAsk
  <2>4. CheckpointsAreOwned'
    BY <1>3, <1>4, <1>5, <1>6, <2>2, <2>3 DEF CheckpointInv, CheckpointsAreOwned
  <2>5. AnswersFollow'
    BY <1>4, <1>5, <1>6, <2>2, <2>3 DEF CheckpointInv, AnswersFollow
  <2> QED  BY <1>8, <2>4, <2>5 DEF CheckpointInv
<1>10. CASE e.type \in Answers
  <2>1. /\ pc[c] \in {"grant", "reject"} /\ e.action = frame[c].action
        /\ e.checkpoint = frame[c].checkpoint
    BY <1>1, <1>10 DEF Writes, TerminalTypes, Answers
  <2>2. Requests' = Requests /\ Answering' = Answering \union {m}
    BY <1>2, <1>10, EventsWith DEF Answers
  <2>3. \E i \in Requests : /\ log[i].checkpoint = e.checkpoint
                            /\ log[i].action = e.action
    BY <2>1 DEF CheckpointInv, AnswerersAsked, RequestsOf, EventsOf, Requests
  <2>4. CheckpointsAreOwned'
    BY <1>3, <1>4, <1>6, <2>2 DEF CheckpointInv, CheckpointsAreOwned
  <2>5. AnswersFollow'
    BY <1>4, <1>5, <1>6, <2>2, <2>3 DEF CheckpointInv, AnswersFollow
  <2> QED  BY <1>8, <2>4, <2>5 DEF CheckpointInv
<1>11. CASE e.type # "approval_required" /\ e.type \notin Answers
  <2>1. Requests' = Requests /\ Answering' = Answering
    BY <1>2, <1>11, EventsWith
  <2>2. CheckpointsAreOwned' /\ AnswersFollow'
    BY <1>3, <1>4, <1>6, <2>1 DEF CheckpointInv, CheckpointsAreOwned, AnswersFollow
  <2> QED  BY <1>8, <2>2 DEF CheckpointInv
<1> QED  BY <1>9, <1>10, <1>11

-----------------------------------------------------------------------------
(* Trails.                                                                 *)

LEMMA SilentTrails ==
  ASSUME OneThread, TypeInv, TrailInv, NEW c \in Callers, Silent(c)
  PROVE  TrailInv'
<1>1. Requests' = Requests /\ Unresolved' = Unresolved /\ log' = log
  BY SameEvents DEF Silent
<1>2. /\ \A a, types : EventsOf(a, types)' = EventsOf(a, types)
      /\ \A a : RequestsOf(a)' = RequestsOf(a)
  BY SameEvents DEF Silent, RequestsOf
<1>3. OneUnresolved'
  <2>1. pc'[c] = "decide" => Unresolved = {}
    BY DEF Silent, TakesUp, Approaches, Acts, AsksAfresh, Keeps
  <2> QED  BY <1>1, <2>1 DEF TrailInv, OneUnresolved, OneThread
<1>4. Begun'
  <2> SUFFICES ASSUME pc'[c] \in ActionPoints
               PROVE  EventsOf(frame'[c].action, EventTypes) # {}
    BY <1>2 DEF Begun, OneThread
  <2>1. CASE pc[c] \in ActionPoints /\ frame'[c].action = frame[c].action
    BY <2>1 DEF TrailInv, Begun
  <2>2. CASE \E i \in Requests : frame'[c].action = log[i].action
    BY <2>2, EventsAreInLog DEF Requests, EventsOf
  <2>3. CASE frame'[c].action \in Unresolved
    BY <2>3 DEF Unresolved
  <2>4. \/ pc[c] \in ActionPoints /\ frame'[c].action = frame[c].action
        \/ \E i \in Requests : frame'[c].action = log[i].action
        \/ frame'[c].action \in Unresolved
    BY PendingIsLast
    DEF Silent, TakesUp, Approaches, Acts, AsksAfresh, Keeps, ActionPoints, Points
  <2> QED  BY <2>1, <2>2, <2>3, <2>4
<1>5. UnresolvedAskedLast'
  <2> SUFFICES ASSUME NEW a \in Unresolved, RequestsOf(a) # {}, pc'[c] \in Asking
               PROVE  frame'[c].action = a
    BY <1>1, <1>2 DEF TrailInv, UnresolvedAskedLast, OneThread
  <2>1. CASE pc'[c] = "granting"
    <3> DEFINE p == PendingApproval
    <3>1. p # 0 /\ frame'[c].action = log[p].action
      BY <2>1 DEF Silent, TakesUp, Approaches, Acts, AsksAfresh, Keeps
    <3>2. PICK j \in RequestsOf(a) : p <= j
      BY <3>1, PendingIsLast DEF TrailInv, UnresolvedAskedLast
    <3>3. j \in Requests /\ log[j].action = a
      BY <3>2 DEF RequestsOf, EventsOf, Requests
    <3>4. p = j
      BY <3>1, <3>2, <3>3, PendingIsLast, EventsAreInLog
    <3> QED  BY <3>1, <3>3, <3>4
  <2>2. CASE pc[c] \in Asking /\ frame'[c].action = frame[c].action
    BY <2>2 DEF TrailInv, UnresolvedAskedLast
  <2>3. CASE frame'[c].action \in Unresolved
    BY <2>3 DEF TrailInv, OneUnresolved
  <2>4. \/ pc'[c] = "granting"
        \/ pc[c] \in Asking /\ frame'[c].action = frame[c].action
        \/ frame'[c].action \in Unresolved
    BY DEF Silent, TakesUp, Approaches, Acts, AsksAfresh, Keeps, Asking
  <2> QED  BY <2>1, <2>2, <2>3, <2>4
<1> QED  BY <1>3, <1>4, <1>5 DEF TrailInv

LEMMA NotedTrails ==
  ASSUME OneThread, TypeInv, TrailInv, NEW c \in Callers, Noted(c)
  PROVE  TrailInv'
<1>1. PICK e \in Event : Record(e) /\ Writes(c, e)
  BY DEF Noted
<1>2. PICK m : AppendedAt(m, e)
  BY <1>1, RecordedAt
<1>3. \A i \in DOMAIN log : i \in Nat /\ i < m /\ log'[i] = log[i]
  BY <1>2 DEF AppendedAt
<1>4. /\ log'[m] = e /\ m \notin DOMAIN log /\ m \in Nat
      /\ Requests \subseteq DOMAIN log
      /\ e.type \in EventTypes
  <2>1. e.type \in EventTypes
    BY DEF Event
  <2>2. Requests \subseteq DOMAIN log
    BY DEF Requests
  <2> QED  BY <1>2, <2>1, <2>2 DEF AppendedAt
<1>5. \A a, types :
        EventsOf(a, types)' = IF e.action = a /\ e.type \in types
                              THEN EventsOf(a, types) \union {m}
                              ELSE EventsOf(a, types)
  BY <1>2, EventsWith
<1>6. \A a : RequestsOf(a)' = IF e.action = a /\ e.type = "approval_required"
                              THEN RequestsOf(a) \union {m} ELSE RequestsOf(a)
  BY <1>5 DEF RequestsOf
<1>7. Requests' = IF e.type = "approval_required"
                  THEN Requests \union {m} ELSE Requests
  BY <1>2, EventsWith
<1>8. e.type = "decision_recorded" => /\ EventsOf(e.action, EventTypes) = {}
                                      /\ Unresolved = {}
  BY <1>1 DEF Writes, TrailInv, OneUnresolved, TerminalTypes
<1>9. e.type # "decision_recorded" => EventsOf(e.action, EventTypes) # {}
  <2>1. \/ pc[c] \in ActionPoints /\ e.action = frame[c].action
        \/ e.action \in Unresolved \/ e.type = "decision_recorded"
    BY <1>1 DEF Writes, ActionPoints, Points, Authorized
  <2> QED  BY <2>1 DEF TrailInv, Begun, Unresolved
<1>10. \A a \in Unresolved' :
         a \in Unresolved \/ (e.type = "decision_recorded" /\ a = e.action)
  <2> SUFFICES ASSUME NEW a \in Actions, EventsOf(a, EventTypes)' # {},
                 EventsOf(a, TerminalTypes \union {"approval_rejected"})' = {}
               PROVE  a \in Unresolved \/ (e.type = "decision_recorded" /\ a = e.action)
    BY DEF Unresolved
  <2>1. EventsOf(a, TerminalTypes \union {"approval_rejected"}) = {}
    BY <1>5
  <2>2. EventsOf(a, EventTypes) # {} \/ a = e.action
    BY <1>5
  <2> QED  BY <1>9, <2>1, <2>2 DEF Unresolved
<1>11. OneUnresolved'
  <2>1. pc'[c] # "decide"
    BY <1>1 DEF Writes, Keeps, Authorized
  <2> QED  BY <1>8, <1>10, <2>1 DEF TrailInv, OneUnresolved, OneThread
<1>12. Begun'
  <2>1. \A b : EventsOf(b, EventTypes) # {} \/ b = e.action =>
                EventsOf(b, EventTypes)' # {}
    BY <1>4, <1>5
  <2>2. pc'[c] \in ActionPoints =>
          \/ pc[c] \in ActionPoints /\ frame'[c].action = frame[c].action
          \/ frame'[c].action = e.action
    BY <1>1 DEF Writes, Keeps, ActionPoints, Points, Authorized
  <2>3. pc'[c] \in ActionPoints =>
          \/ EventsOf(frame'[c].action, EventTypes) # {}
          \/ frame'[c].action = e.action
    BY <2>2 DEF TrailInv, Begun
  <2>4. \A d \in Callers : d = c
    BY DEF OneThread
  <2> QED  BY <2>1, <2>3, <2>4 DEF Begun
<1>13. UnresolvedAskedLast'
  <2> SUFFICES ASSUME NEW a \in Unresolved', RequestsOf(a)' # {}
               PROVE  /\ \A i \in Requests' : \E j \in RequestsOf(a)' : i <= j
                      /\ pc'[c] \in Asking => frame'[c].action = a
    BY DEF UnresolvedAskedLast, OneThread
  <2>1. CASE e.type = "decision_recorded"
    <3>1. a = e.action
      BY <1>8, <1>10, <2>1
    <3>2. RequestsOf(a) = {}
      <4>1. "approval_required" \in EventTypes
        BY DEF EventTypes
      <4> QED  BY <1>8, <2>1, <3>1, <4>1 DEF RequestsOf, EventsOf
    <3> QED  BY <1>6, <2>1, <3>2
  <2>2. CASE e.type = "approval_required"
    <3>1. pc[c] = "request" /\ e.action = frame[c].action /\ pc'[c] = "idle"
      BY <1>1, <2>2 DEF Writes, TerminalTypes
    <3>2. a \in Unresolved
      BY <1>10, <2>2
    <3>3. a = e.action
      BY <1>6, <3>1, <3>2 DEF TrailInv, UnresolvedAskedLast, Asking
    <3>4. m \in RequestsOf(a)' /\ \A i \in Requests' : i <= m
      BY <1>3, <1>4, <1>6, <1>7, <2>2, <3>3
    <3> QED  BY <3>1, <3>4 DEF Asking
  <2>3. CASE e.type # "decision_recorded" /\ e.type # "approval_required"
    <3>1. a \in Unresolved /\ RequestsOf(a)' = RequestsOf(a) /\ Requests' = Requests
      BY <1>6, <1>7, <1>10, <2>3
    <3>2. pc'[c] \in Asking => pc[c] \in Asking /\ frame'[c].action = frame[c].action
      BY <1>1, <2>3 DEF Writes, Keeps, Asking, Authorized
    <3> QED  BY <3>1, <3>2 DEF TrailInv, UnresolvedAskedLast
  <2> QED  BY <2>1, <2>2, <2>3
<1> QED  BY <1>11, <1>12, <1>13 DEF TrailInv

LEMMA AwaitedIsPending ==
  ASSUME TypeInv, CheckpointInv, TrailInv
  PROVE  AwaitedApprovalIsPending
<1> SUFFICES ASSUME NEW a \in Actions, IsPendingAction(a),
                    Classification(a) = "awaiting_approval"
             PROVE  PendingApproval # 0 /\ log[PendingApproval].action = a
  BY DEF AwaitedApprovalIsPending
<1>1. /\ a \in Unresolved /\ RequestsOf(a) # {}
      /\ EventsOf(a, {"approval_granted"}) = {}
  BY DEF IsPendingAction, Classification, RequestsOf
<1>2. EventsOf(a, {"approval_rejected"}) = {}
  BY <1>1 DEF Unresolved, EventsOf
<1>3. RequestsOf(a) \subseteq Requests
  BY DEF RequestsOf, EventsOf, Requests
<1> DEFINE p == Latest(Requests)
<1>4. p \in Requests /\ \A i \in Requests : i <= p
  BY <1>1, <1>3, LastOf, EventsAreInLog
<1>5. PICK j \in RequestsOf(a) : p <= j
  BY <1>1, <1>4 DEF TrailInv, UnresolvedAskedLast
<1>6. p = j /\ p > 0
  BY <1>3, <1>4, <1>5, EventsAreInLog
<1>7. log[p].action = a
  BY <1>5, <1>6 DEF RequestsOf, EventsOf
<1>8. \A k \in Answering : log[k].checkpoint # log[p].checkpoint
  <2> SUFFICES ASSUME NEW k \in Answering, log[k].checkpoint = log[p].checkpoint
               PROVE  FALSE
    OBVIOUS
  <2>1. log[k].action = a
    BY <1>4, <1>7 DEF CheckpointInv, AnswersFollow, CheckpointsAreOwned
  <2> QED  BY <1>1, <1>2, <2>1 DEF Answering, Answers, EventsOf
<1>9. PendingApproval = p
  BY <1>4, <1>8 DEF PendingApproval, Requests, Answering, Answers
<1> QED  BY <1>6, <1>7, <1>9

-----------------------------------------------------------------------------
(* Closed actions.                                                         *)

LEMMA PendingIsOpen ==
  ASSUME TypeInv, CheckpointInv, ClosedInv, PendingApproval # 0
  PROVE  ~ Closed(log[PendingApproval].action)
<1> DEFINE p == PendingApproval
           a == log[p].action
<1>1. /\ p \in Requests /\ \A i \in Requests : i <= p
      /\ \A j \in Answering : j > p => log[j].checkpoint # log[p].checkpoint
  BY PendingIsLast
<1>2. p \in RequestsOf(a) /\ RequestsOf(a) \subseteq Requests
  BY <1>1 DEF RequestsOf, EventsOf, Requests
<1>3. a \in Actions /\ \A i \in Requests : i \in Nat
  BY <1>1, EventsAreInLog
<1>4. \A j \in Answering : j \in Nat
  BY EventsAreInLog
<1> HIDE DEF p
<1> SUFFICES ASSUME Closed(a)
             PROVE  FALSE
  BY DEF p
<1> HIDE DEF a
<1>5. LastAnswered(a)
  BY <1>3 DEF ClosedInv
<1>6. PICK i \in RequestsOf(a) :
        /\ \A k \in RequestsOf(a) : k <= i
        /\ \E j \in Answering : log[j].checkpoint = log[i].checkpoint
  BY <1>5 DEF LastAnswered
<1>7. i = p
  BY <1>1, <1>2, <1>3, <1>6
<1>8. PICK j \in Answering : log[j].checkpoint = log[p].checkpoint
  BY <1>6, <1>7
<1>9. p < j
  BY <1>1, <1>8 DEF CheckpointInv, AnswersFollow
<1> QED  BY <1>1, <1>3, <1>4, <1>8, <1>9

LEMMA LatestIsTheLast ==
  ASSUME TypeInv, NEW a, NEW n, IsLatestRequest(a, n)
  PROVE  /\ LatestRequest(a) \in RequestsOf(a)
         /\ \A j \in RequestsOf(a) : j <= LatestRequest(a)
         /\ log[LatestRequest(a)].checkpoint = n
         /\ \A i \in RequestsOf(a) :
              (\A j \in RequestsOf(a) : j <= i) => log[i].checkpoint = n
<1>1. RequestsOf(a) # {} /\ log[LatestRequest(a)].checkpoint = n
  BY DEF IsLatestRequest, RequestsOf
<1>2. /\ LatestRequest(a) \in RequestsOf(a)
      /\ \A j \in RequestsOf(a) : j <= LatestRequest(a)
  BY <1>1, LatestRequestIsLast
<1>3. \A i \in RequestsOf(a) : i \in Nat
  BY EventsAreInLog DEF RequestsOf
<1>4. ASSUME NEW i \in RequestsOf(a), \A j \in RequestsOf(a) : j <= i
      PROVE  i = LatestRequest(a)
  BY <1>2, <1>3, <1>4
<1> QED  BY <1>1, <1>2, <1>4

LEMMA RejectableIsOpen ==
  ASSUME TypeInv, ClosedInv, NEW a \in Actions, NEW n,
         IsLatestRequest(a, n), GrantsFor(n) = {}, ~ Rejected(n)
  PROVE  ~ Closed(a)
<1> SUFFICES ASSUME LastAnswered(a)
             PROVE  FALSE
  BY DEF ClosedInv
<1>1. PICK i \in RequestsOf(a), j \in Answering :
        /\ \A k \in RequestsOf(a) : k <= i
        /\ log[j].checkpoint = log[i].checkpoint
  BY DEF LastAnswered
<1>2. log[i].checkpoint = n
  BY <1>1, LatestIsTheLast
<1>3. j \in DOMAIN log /\ log[j].type \in Answers /\ log[j].checkpoint = n
  BY <1>1, <1>2 DEF Answering
<1> QED  BY <1>3 DEF GrantsFor, Rejected, Answers

LEMMA GrantAnswers ==
  ASSUME TypeInv, NEW a, NEW b, HasValidGrant(a, b)
  PROVE  LastAnswered(a)
<1> DEFINE granted == EventsOf(a, {"approval_granted"})
           g == Latest(granted)
<1>1. granted # {} /\ IsLatestRequest(a, log[g].checkpoint)
  BY DEF HasValidGrant
<1>2. g \in granted
  BY <1>1, LastOf, EventsAreInLog
<1>3. g \in Answering
  BY <1>2 DEF EventsOf, Answering, Answers
<1>4. /\ LatestRequest(a) \in RequestsOf(a)
      /\ \A j \in RequestsOf(a) : j <= LatestRequest(a)
      /\ log[LatestRequest(a)].checkpoint = log[g].checkpoint
  BY <1>1, LatestIsTheLast
<1> QED  BY <1>3, <1>4 DEF LastAnswered

LEMMA SilentClosed ==
  ASSUME OneThread, TypeInv, CheckpointInv, ClosedInv, NEW c \in Callers, Silent(c)
  PROVE  ClosedInv'
<1>1. UNCHANGED log
  BY DEF Silent
<1>2. \A a : /\ Closed(a)' = Closed(a) /\ LastAnswered(a)' = LastAnswered(a)
             /\ \A types : EventsOf(a, types)' = EventsOf(a, types)
             /\ \A n : IsLatestRequest(a, n)' = IsLatestRequest(a, n)
  <2>1. /\ \A a, types : EventsOf(a, types)' = EventsOf(a, types)
        /\ Answering' = Answering
    BY <1>1, SameEvents
  <2> QED  BY <1>1, <2>1
           DEF Closed, LastAnswered, RequestsOf, IsLatestRequest, LatestRequest, Latest
<1>3. pc'[c] \in Approach => ~ Closed(frame'[c].action)
  <2>1. CASE pc'[c] = "granting"
    BY <2>1, PendingIsOpen
    DEF Silent, TakesUp, Approaches, Acts, AsksAfresh, Keeps
  <2>2. CASE pc'[c] = "reject"
    <3>1. /\ pc[c] = "rejecting" /\ frame'[c].action = frame[c].action
          /\ IsLatestRequest(frame[c].action, frame[c].checkpoint)
          /\ GrantsFor(frame[c].checkpoint) = {} /\ ~ Rejected(frame[c].checkpoint)
      BY <2>2 DEF Silent, TakesUp, Approaches, Acts, AsksAfresh, Keeps
    <3>2. frame[c].action \in Actions
      <4>1. pc[c] \in ActionPoints
        BY <3>1 DEF ActionPoints, Points
      <4> QED  BY <4>1, LocalsAtAction
    <3> QED  BY <3>1, <3>2, RejectableIsOpen
  <2>3. CASE pc[c] \in Approach /\ frame'[c].action = frame[c].action
    BY <2>3 DEF ClosedInv
  <2>4. CASE /\ frame'[c].action \in Unresolved
             /\ Classification(frame'[c].action) = "not_started"
    BY <2>4 DEF Unresolved, Classification, Closed, EventsOf
  <2>5. pc'[c] \in Approach =>
          \/ pc'[c] \in {"granting", "reject"}
          \/ pc[c] \in Approach /\ frame'[c].action = frame[c].action
          \/ /\ frame'[c].action \in Unresolved
             /\ Classification(frame'[c].action) = "not_started"
    BY DEF Silent, TakesUp, Approaches, Acts, AsksAfresh, Keeps, Approach,
           Asking, Authorized
  <2> QED  BY <2>1, <2>2, <2>3, <2>4, <2>5
<1>4. pc'[c] \in Authorized => LastAnswered(frame'[c].action)
  <2>1. pc'[c] \in Authorized =>
          \/ /\ pc[c] = "check" /\ frame'[c].action = frame[c].action
             /\ HasValidGrant(frame[c].action, frame[c].baseline)
          \/ pc[c] = "reserve" /\ frame'[c].action = frame[c].action
    BY DEF Silent, TakesUp, Approaches, Acts, AsksAfresh, Keeps, Authorized
  <2> QED  BY <2>1, GrantAnswers DEF ClosedInv, Authorized
<1>5. pc'[c] = "reject" =>
        IsLatestRequest(frame'[c].action, frame'[c].checkpoint)
  BY DEF Silent, TakesUp, Approaches, Acts, AsksAfresh, Keeps
<1>6. \A d \in Callers : d = c
  BY DEF OneThread
<1>7. \A a \in Actions :
        /\ Closed(a)' => LastAnswered(a)'
        /\ EventsOf(a, {"action_started"})' = {}
             \/ EventsOf(a, {"approval_rejected"})' = {}
  BY <1>2 DEF ClosedInv
<1>8. \A d \in Callers :
        /\ pc'[d] \in Approach => ~ Closed(frame[d].action)'
        /\ pc'[d] \in Authorized => LastAnswered(frame[d].action)'
        /\ pc'[d] = "reject" => IsLatestRequest(frame[d].action, frame[d].checkpoint)'
  BY <1>2, <1>3, <1>4, <1>5, <1>6
<1> QED  BY <1>7, <1>8 DEF ClosedInv

LEMMA NotedClosed ==
  ASSUME OneThread, TypeInv, CheckpointInv, ClosedInv, NEW c \in Callers, Noted(c)
  PROVE  ClosedInv'
<1>1. PICK e \in Event : Record(e) /\ Writes(c, e)
  BY DEF Noted
<1>2. PICK m : AppendedAt(m, e)
  BY <1>1, RecordedAt
<1>3. /\ log'[m] = e /\ m \notin DOMAIN log /\ m \in Nat
      /\ \A i \in DOMAIN log : i < m /\ log'[i] = log[i]
  BY <1>2 DEF AppendedAt
<1>4. /\ \A a, types :
           EventsOf(a, types)' = IF e.action = a /\ e.type \in types
                                 THEN EventsOf(a, types) \union {m}
                                 ELSE EventsOf(a, types)
      /\ Answering' = IF e.type \in Answers
                      THEN Answering \union {m} ELSE Answering
  BY <1>2, EventsWith
<1>5. \A a : Closed(a)' <=>
               \/ Closed(a)
               \/ e.action = a /\ e.type \in {"action_started", "approval_rejected"}
  BY <1>4 DEF Closed
<1>6. \A a : LastAnswered(a) /\ ~ (e.type = "approval_required" /\ e.action = a)
               => LastAnswered(a)'
  <2> SUFFICES ASSUME NEW a, LastAnswered(a),
                      ~ (e.type = "approval_required" /\ e.action = a)
               PROVE  LastAnswered(a)'
    OBVIOUS
  <2>1. PICK i \in RequestsOf(a), j \in Answering :
          /\ \A k \in RequestsOf(a) : k <= i
          /\ log[j].checkpoint = log[i].checkpoint
    BY DEF LastAnswered
  <2>2. RequestsOf(a)' = RequestsOf(a)
    BY <1>4 DEF RequestsOf
  <2>3. j \in Answering'
    BY <1>4
  <2>4. log'[i] = log[i] /\ log'[j] = log[j]
    BY <1>3 DEF RequestsOf, EventsOf, Answering
  <2> QED  BY <2>1, <2>2, <2>3, <2>4 DEF LastAnswered
<1>7. \A d \in Callers : d = c
  BY DEF OneThread
<1>8. CASE e.type = "approval_rejected"
  <2> DEFINE a == e.action
  <2>1. /\ pc[c] = "reject" /\ a = frame[c].action /\ e.checkpoint = frame[c].checkpoint
        /\ pc'[c] = "idle"
    BY <1>1, <1>8 DEF Writes, TerminalTypes
  <2>2. ~ Closed(a) /\ IsLatestRequest(a, frame[c].checkpoint)
    BY <2>1 DEF ClosedInv, Approach
  <2>3. LastAnswered(a)'
    <3>1. /\ LatestRequest(a) \in RequestsOf(a)
          /\ \A j \in RequestsOf(a) : j <= LatestRequest(a)
          /\ log[LatestRequest(a)].checkpoint = e.checkpoint
      BY <2>1, <2>2, LatestIsTheLast
    <3>2. RequestsOf(a)' = RequestsOf(a)
      BY <1>4, <1>8 DEF RequestsOf
    <3>3. m \in Answering'
      BY <1>4, <1>8 DEF Answers
    <3>4. log'[LatestRequest(a)] = log[LatestRequest(a)]
      BY <1>3, <3>1 DEF RequestsOf, EventsOf
    <3> DEFINE i == LatestRequest(a)
    <3>5. /\ i \in RequestsOf(a)' /\ \A j \in RequestsOf(a)' : j <= i
          /\ log'[m].checkpoint = log'[i].checkpoint
      BY <1>3, <3>1, <3>2, <3>4
    <3> HIDE DEF i
    <3> SUFFICES \E k \in RequestsOf(a)' :
                   /\ \A j \in RequestsOf(a)' : j <= k
                   /\ \E j \in Answering' : log'[j].checkpoint = log'[k].checkpoint
      BY <3>2 DEF LastAnswered
    <3> QED  BY <3>3, <3>5
  <2>4. \A b \in Actions :
          /\ Closed(b)' => LastAnswered(b)'
          /\ EventsOf(b, {"action_started"})' = {}
               \/ EventsOf(b, {"approval_rejected"})' = {}
    <3>1. EventsOf(a, {"action_started"}) = {}
      BY <2>2 DEF Closed, EventsOf
    <3>2. \A b : e.action # b => EventsOf(b, {"approval_rejected"})' =
                                 EventsOf(b, {"approval_rejected"})
      BY <1>4
    <3>3. \A b : EventsOf(b, {"action_started"})' = EventsOf(b, {"action_started"})
      BY <1>4, <1>8
    <3> QED  BY <1>5, <1>6, <1>8, <2>1, <2>3, <3>1, <3>2, <3>3 DEF ClosedInv
  <2>5. pc'[c] \notin Approach /\ pc'[c] \notin Authorized /\ pc'[c] # "reject"
    BY <2>1 DEF Approach, Asking, Authorized
  <2> QED  BY <1>7, <2>4, <2>5 DEF ClosedInv
<1>9. CASE e.type = "action_started"
  <2>1. pc[c] = "start" /\ e.action = frame[c].action /\ pc'[c] = "tool"
    BY <1>1, <1>9 DEF Writes, TerminalTypes, Keeps
  <2>2. ~ Closed(e.action) /\ LastAnswered(e.action)
    BY <2>1 DEF ClosedInv, Approach, Authorized
  <2>3. \A b \in Actions :
          /\ Closed(b)' => LastAnswered(b)'
          /\ EventsOf(b, {"action_started"})' = {}
               \/ EventsOf(b, {"approval_rejected"})' = {}
    <3>1. EventsOf(e.action, {"approval_rejected"}) = {}
      BY <2>2 DEF Closed, EventsOf
    <3>2. \A b : e.action # b => EventsOf(b, {"action_started"})' =
                                 EventsOf(b, {"action_started"})
      BY <1>4
    <3>3. \A b : EventsOf(b, {"approval_rejected"})' = EventsOf(b, {"approval_rejected"})
      BY <1>4, <1>9
    <3> QED  BY <1>5, <1>6, <1>9, <2>2, <3>1, <3>2, <3>3 DEF ClosedInv
  <2>4. pc'[c] \notin Approach /\ pc'[c] \notin Authorized /\ pc'[c] # "reject"
    BY <2>1 DEF Approach, Asking, Authorized
  <2> QED  BY <1>7, <2>3, <2>4 DEF ClosedInv
<1>10. CASE e.type \notin {"action_started", "approval_rejected"}
  <2>1. \A a : Closed(a)' <=> Closed(a)
    BY <1>5, <1>10
  <2>2. \A a : e.type = "approval_required" /\ e.action = a => ~ Closed(a)
    BY <1>1 DEF Writes, TerminalTypes, ClosedInv, Approach, Asking
  <2>3. \A b \in Actions :
          /\ Closed(b)' => LastAnswered(b)'
          /\ EventsOf(b, {"action_started"})' = {}
               \/ EventsOf(b, {"approval_rejected"})' = {}
    <3>1. \A b : /\ EventsOf(b, {"approval_rejected"})' = EventsOf(b, {"approval_rejected"})
                 /\ EventsOf(b, {"action_started"})' = EventsOf(b, {"action_started"})
      BY <1>4, <1>10
    <3> QED  BY <1>6, <2>1, <2>2, <3>1 DEF ClosedInv
  <2>4. pc'[c] \in Approach => ~ Closed(frame'[c].action)
    <3>1. CASE e.type = "decision_recorded"
      <4>1. EventsOf(e.action, EventTypes) = {} /\ frame'[c].action = e.action
        BY <1>1, <3>1 DEF Writes, TerminalTypes
      <4>2. "action_started" \in EventTypes /\ "approval_rejected" \in EventTypes
        BY DEF EventTypes
      <4> QED  BY <4>1, <4>2 DEF Closed, EventsOf
    <3>2. CASE e.type # "decision_recorded"
      <4>1. pc'[c] \in Approach =>
              pc[c] \in Approach /\ frame'[c].action = frame[c].action
        BY <1>1, <3>2 DEF Writes, Keeps, Approach, Asking, Authorized
      <4> QED  BY <4>1 DEF ClosedInv
    <3> QED  BY <3>1, <3>2
  <2>5. pc'[c] \in Authorized => LastAnswered(frame[c].action)
                                   /\ frame'[c].action = frame[c].action
                                   /\ e.type # "approval_required"
    <3>1. pc'[c] \in Authorized =>
            pc[c] \in Authorized /\ frame'[c].action = frame[c].action
              /\ e.type # "approval_required"
      BY <1>1 DEF Writes, Keeps, Authorized, TerminalTypes
    <3> QED  BY <3>1 DEF ClosedInv
  <2>6. pc'[c] # "reject"
    BY <1>1, <1>10 DEF Writes, Keeps, Authorized
  <2>7. \A d \in Callers :
          /\ pc'[d] \in Approach => ~ Closed(frame[d].action)'
          /\ pc'[d] \in Authorized => LastAnswered(frame[d].action)'
          /\ pc'[d] # "reject"
    BY <1>6, <1>7, <2>1, <2>4, <2>5, <2>6
  <2> QED  BY <2>3, <2>7 DEF ClosedInv
<1> QED  BY <1>8, <1>9, <1>10

-----------------------------------------------------------------------------
(* What recovery sees of an effect.                                        *)

LEMMA EffectsOfStep ==
  ASSUME NEW c \in Callers, Take(c) \/ Continue(c) \/ ToolRaises(c)
  PROVE  \/ UNCHANGED effects
         \/ Perform(c) /\ UNCHANGED log /\ pc[c] \in {"tool", "write"}
<1>1. CASE Take(c)
  BY <1>1 DEF Take, Approve, Reject, Resume, Confirm, Begin
<1>2. CASE RunCommand(c) \/ EditFile(c) \/ WritePatch(c)
  BY <1>2 DEF RunCommand, EditFile, WritePatch, store
<1>3. CASE /\ Continue(c) \/ ToolRaises(c)
           /\ ~ (RunCommand(c) \/ EditFile(c) \/ WritePatch(c))
  BY <1>3
  DEF Continue, ToolRaises, Recover, RecordDecision, CheckConfirmable,
      ConfirmOutcomeUnknown, SettleConfirmation, CheckGrantable, GrantApproval,
      CheckRejectable, RejectApproval, Lookup, Preview, CheckGrant,
      RequestApproval, Authorize, ConsumeApproval, Reserve, Start, BeginPatch,
      VerifyPatch, ReadBackPatch, Complete, Report
<1> QED  BY <1>1, <1>2, <1>3

LEMMA StoredStays ==
  ASSUME TypeInv, ReservationInv, [Next]_vars, NEW a \in Actions, Stored(a)
  PROVE  Stored(a)'
<1>1. ReservationsKeep
  BY ReservationsStep
<1>2. reservations'[Key[a]] = reservations[Key[a]]
  BY <1>1, ConstantsAssumption DEF ReservationsKeep, Stored
<1> QED  BY <1>2 DEF Stored

\* An effect was started, and so is the action of a caller that performs one.
LEMMA EffectsAreStarted ==
  ASSUME TypeInv, GrantInv, NEW e \in DOMAIN effects
  PROVE  /\ effects[e].action \in Actions
         /\ EventsOf(effects[e].action, {"action_started"}) # {}
         /\ EventsOf(effects[e].action, {"approval_granted"}) # {}
<1>1. effects[e].action \in Actions
  BY EffectAt
<1>2. StartedIn(log, effects[e])
  BY DEF GrantInv, EffectsEntitled
<1> QED  BY <1>1, <1>2 DEF StartedIn, Granting, EventIn, EventsOf

LEMMA AccountsStep ==
  ASSUME OneThread, TypeInv, ReservationInv, ReportInv, GrantInv, ClosedInv,
         AccountInv, [Next]_vars, NEW c \in Callers,
         Take(c) \/ Continue(c) \/ ToolRaises(c)
  PROVE  AccountInv'
<1>1. Silent(c) \/ Noted(c)
  BY StepKind
<1>2. \A a \in Actions : Stored(a) => Stored(a)'
  BY StoredStays
<1>3. \A d \in Callers : d = c
  BY DEF OneThread
<1>4. CASE Silent(c)
  <2>1. UNCHANGED log
    BY <1>4 DEF Silent
  <2>2. \A a : /\ StartedLast(a)' = StartedLast(a)
               /\ \A types : EventsOf(a, types)' = EventsOf(a, types)
    BY <2>1, SameEvents DEF StartedLast
  <2>3. \A a \in Actions : Accounted(a) => Accounted(a)'
    BY <1>2, <2>2 DEF Accounted
  <2>4. \A e \in DOMAIN effects' : Accounted(effects[e].action)'
    <3> SUFFICES ASSUME NEW e \in DOMAIN effects', NEW a, a = effects'[e].action
                 PROVE  Accounted(a)'
      OBVIOUS
    <3>1. CASE e \in DOMAIN effects /\ effects'[e] = effects[e]
      BY <2>3, <3>1, EffectAt DEF AccountInv
    <3>2. CASE a = frame[c].action /\ pc[c] \in {"tool", "write"}
      <4>1. StartedLast(a)
        BY <3>2 DEF AccountInv
      <4> QED  BY <2>2, <4>1 DEF Accounted
    <3>3. \/ e \in DOMAIN effects /\ effects'[e] = effects[e]
          \/ a = frame[c].action /\ pc[c] \in {"tool", "write"}
      BY EffectsOfStep, PerformedAtEnd
    <3> QED  BY <3>1, <3>2, <3>3
  <2>5. pc'[c] \in {"tool", "verify", "write"} => StartedLast(frame'[c].action)
    <3>1. pc'[c] \in {"tool", "verify", "write"} =>
            /\ pc[c] \in {"tool", "verify", "write"}
            /\ frame'[c].action = frame[c].action
      BY <1>4 DEF Silent, TakesUp, Approaches, Acts, AsksAfresh, Keeps
    <3> QED  BY <3>1 DEF AccountInv
  <2> QED  BY <1>3, <2>2, <2>4, <2>5 DEF AccountInv
<1>5. CASE Noted(c)
  <2>1. PICK e \in Event : Record(e) /\ Writes(c, e)
    BY <1>5 DEF Noted
  <2>2. PICK m : AppendedAt(m, e)
    BY <2>1, RecordedAt
  <2>3. /\ m \notin DOMAIN log /\ m \in DOMAIN log' /\ m \in Nat
        /\ \A i \in DOMAIN log : i < m
    BY <2>2 DEF AppendedAt
  <2>4. \A a, types :
          EventsOf(a, types)' = IF e.action = a /\ e.type \in types
                                THEN EventsOf(a, types) \union {m}
                                ELSE EventsOf(a, types)
    BY <2>2, EventsWith
  <2>5. \A a, types : EventsOf(a, types) \subseteq DOMAIN log
    BY EventsAreInLog
  <2>6. UNCHANGED effects
    BY <2>3, EffectsOfStep
  <2>7. \A a : StartedLast(a) /\ ~ (e.action = a /\ e.type \in TerminalTypes)
                 => StartedLast(a)'
    <3> SUFFICES ASSUME NEW a, StartedLast(a),
                        ~ (e.action = a /\ e.type \in TerminalTypes)
                 PROVE  \A i \in EventsOf(a, TerminalTypes)' :
                          \A j \in EventsOf(a, {"action_started"})' : i < j
      BY DEF StartedLast
    <3>1. EventsOf(a, TerminalTypes)' = EventsOf(a, TerminalTypes)
      BY <2>4
    <3>2. \A i \in EventsOf(a, TerminalTypes) : i < m
      BY <2>3, <2>5
    <3>3. \A j \in EventsOf(a, {"action_started"})' :
            j = m \/ j \in EventsOf(a, {"action_started"})
      BY <2>4
    <3> QED  BY <3>1, <3>2, <3>3 DEF StartedLast
  <2>8. ASSUME NEW a \in Actions, Accounted(a), EventsOf(a, {"action_started"}) # {}
        PROVE  Accounted(a)'
    <3>1. CASE ~ (e.action = a /\ e.type \in TerminalTypes)
      BY <1>2, <2>4, <2>7, <2>8, <3>1 DEF Accounted
    <3>2. CASE e.action = a /\ e.type = "action_recovery_confirmed"
      BY <2>4, <3>2 DEF Accounted
    <3>3. CASE e.action = a /\ Stored(a)
      BY <1>2, <3>3 DEF Accounted
    <3>4. CASE /\ e.action = a /\ e.type \in TerminalTypes
               /\ e.type # "action_recovery_confirmed"
      <4>1. \/ a = frame[c].action /\ pc[c] \in {"lookup", "preview", "reserve"}
            \/ a = frame[c].action /\ pc[c] = "report"
            \/ Stored(a)
        BY <2>1, <3>4 DEF Writes, TerminalTypes
      <4>2. Closed(a)
        BY <2>8 DEF Closed, EventsOf
      <4>3. ~ (a = frame[c].action /\ pc[c] \in {"lookup", "preview", "reserve"})
        BY <4>2 DEF ClosedInv, Approach, Asking, Authorized
      <4>4. a = frame[c].action /\ pc[c] = "report" => Stored(a)
        BY DEF ReportInv, ReportersAgree
      <4> QED  BY <3>3, <3>4, <4>1, <4>3, <4>4
    <3> QED  BY <3>1, <3>2, <3>4
  <2>9. \A k \in DOMAIN effects : Accounted(effects[k].action)'
    <3> SUFFICES ASSUME NEW k \in DOMAIN effects, NEW a, a = effects[k].action
                 PROVE  Accounted(a)'
      BY <2>6
    <3>1. a \in Actions /\ EventsOf(a, {"action_started"}) # {} /\ Accounted(a)
      BY EffectsAreStarted DEF AccountInv
    <3> QED  BY <2>8, <3>1
  <2>10. pc'[c] \in {"tool", "verify", "write"} => StartedLast(frame[c].action)'
    <3> SUFFICES ASSUME pc'[c] \in {"tool", "verify", "write"}, NEW a, a = frame'[c].action
                 PROVE  StartedLast(a)'
      OBVIOUS
    <3>1. pc[c] = "start" /\ frame[c].action = a /\ e.type = "action_started"
      BY <2>1 DEF Writes, Keeps, Authorized
    <3>2. ~ Closed(a)
      BY <3>1 DEF ClosedInv, Approach, Authorized
    <3>3. EventsOf(a, {"action_started"}) = {}
      BY <3>2 DEF Closed, EventsOf
    <3>4. StartedLast(a) /\ e.type \notin TerminalTypes
      BY <3>1, <3>3 DEF StartedLast, TerminalTypes
    <3> QED  BY <2>7, <3>4
  <2> QED  BY <1>3, <2>6, <2>9, <2>10 DEF AccountInv
<1> QED  BY <1>1, <1>4, <1>5

-----------------------------------------------------------------------------
(* The environment, and the theorems.                                      *)

RecoveryInv == CheckpointInv /\ TrailInv /\ ClosedInv /\ AccountInv

LEMMA RecoveryEnvironment ==
  ASSUME TypeInv, ReservationInv, RecoveryInv, [Next]_vars,
         Tick \/ OutsideEdit \/ Crash \/ UNCHANGED vars
  PROVE  RecoveryInv'
<1>1. /\ UNCHANGED <<log, nextCheckpoint, effects>>
      /\ UNCHANGED <<pc, frame>> \/ \A c \in Callers : pc'[c] = "idle"
  BY DEF Tick, OutsideEdit, Crash, vars, store
<1>2. /\ \A a, types : EventsOf(a, types)' = EventsOf(a, types)
      /\ Requests' = Requests /\ Answering' = Answering
      /\ Unresolved' = Unresolved
  BY <1>1, SameEvents
<1>3. /\ \A a : RequestsOf(a)' = RequestsOf(a) /\ Closed(a)' = Closed(a)
      /\ \A a : LastAnswered(a)' = LastAnswered(a)
      /\ \A a : StartedLast(a)' = StartedLast(a)
      /\ \A a, n : IsLatestRequest(a, n)' = IsLatestRequest(a, n)
  BY <1>1, <1>2
  DEF RequestsOf, Closed, LastAnswered, StartedLast, IsLatestRequest, LatestRequest,
      Latest
<1>4. /\ CheckpointsAreOwned' /\ AnswersFollow'
      /\ AnswerersAsked' /\ AskersMayAsk'
  BY <1>1, <1>2, <1>3
  DEF RecoveryInv, CheckpointInv, CheckpointsAreOwned, AnswersFollow,
      AnswerersAsked, AskersMayAsk
<1>5. OneUnresolved' /\ Begun' /\ UnresolvedAskedLast'
  <2>1. OneUnresolved'
    BY <1>1, <1>2 DEF RecoveryInv, TrailInv, OneUnresolved
  <2>2. Begun'
    BY <1>1, <1>2 DEF RecoveryInv, TrailInv, Begun, ActionPoints
  <2>3. UnresolvedAskedLast'
    BY <1>1, <1>2, <1>3 DEF RecoveryInv, TrailInv, UnresolvedAskedLast, Asking
  <2> QED  BY <2>1, <2>2, <2>3
<1>6. ClosedInv'
  BY <1>1, <1>2, <1>3 DEF RecoveryInv, ClosedInv, Approach, Asking, Authorized
<1>7. AccountInv'
  <2>1. \A a \in Actions : Accounted(a) => Accounted(a)'
    BY <1>2, <1>3, StoredStays DEF Accounted
  <2>2. \A e \in DOMAIN effects : Accounted(effects[e].action)'
    <3> SUFFICES ASSUME NEW e \in DOMAIN effects, NEW a, a = effects[e].action
                 PROVE  Accounted(a)'
      BY <1>1
    <3> QED  BY <2>1, EffectAt DEF RecoveryInv, AccountInv
  <2> QED  BY <1>1, <1>3, <2>2 DEF RecoveryInv, AccountInv
<1> QED  BY <1>4, <1>5, <1>6, <1>7 DEF RecoveryInv, CheckpointInv, TrailInv

LEMMA RecoveryStep ==
  ASSUME OneThread, TypeInv, ReservationInv, ReportInv, GrantInv, RecoveryInv,
         [Next]_vars
  PROVE  RecoveryInv'
<1>1. ASSUME NEW c \in Callers, Take(c) \/ Continue(c) \/ ToolRaises(c)
      PROVE  RecoveryInv'
  <2>1. CheckpointInv /\ TrailInv /\ ClosedInv /\ AccountInv
    BY DEF RecoveryInv
  <2>2. Silent(c) \/ Noted(c)
    BY <1>1, StepKind
  <2>3. CheckpointInv'
    BY <2>1, <2>2, SilentCheckpoints, NotedCheckpoints
  <2>4. TrailInv'
    BY <2>1, <2>2, SilentTrails, NotedTrails
  <2>5. ClosedInv'
    BY <2>1, <2>2, SilentClosed, NotedClosed
  <2>6. AccountInv'
    BY <1>1, <2>1, AccountsStep
  <2> QED  BY <2>3, <2>4, <2>5, <2>6 DEF RecoveryInv
<1> QED  BY <1>1, RecoveryEnvironment DEF Next

LEMMA RecoveryInit ==
  ASSUME Init
  PROVE  RecoveryInv
<1>1. /\ DOMAIN log = {} /\ effects = <<>> /\ \A c \in Callers : pc[c] = "idle"
  BY DEF Init
<1>2. /\ \A a, types : EventsOf(a, types) = {}
      /\ Requests = {} /\ Answering = {}
  BY <1>1 DEF EventsOf, Requests, Answering
<1>3. Unresolved = {} /\ \A a : RequestsOf(a) = {} /\ ~ Closed(a)
  BY <1>2 DEF Unresolved, RequestsOf, Closed
<1>4. CheckpointInv
  BY <1>1, <1>2
  DEF CheckpointInv, CheckpointsAreOwned, AnswersFollow, AnswerersAsked, AskersMayAsk
<1>5. TrailInv
  BY <1>1, <1>3
  DEF TrailInv, OneUnresolved, Begun, UnresolvedAskedLast, ActionPoints
<1>6. ClosedInv
  BY <1>1, <1>2, <1>3 DEF ClosedInv, Approach, Asking, Authorized
<1>7. AccountInv
  BY <1>1 DEF AccountInv
<1> QED  BY <1>4, <1>5, <1>6, <1>7 DEF RecoveryInv

LEMMA RecoveryHolds ==
  ASSUME OneThread
  PROVE  Spec => [](TypeInv /\ GrantInv /\ RecoveryInv)
<1>1. Init => RecoveryInv /\ ReportInv
  BY RecoveryInit DEF Init, ReportInv, ReportsAgree, ReportersAgree
<1>2. TypeInv /\ ReservationInv /\ ReportInv /\ [Next]_vars => ReportInv'
  BY ReportsStep
<1>3. TypeInv /\ ReservationInv /\ ReportInv /\ GrantInv /\ RecoveryInv
        /\ [Next]_vars => RecoveryInv'
  BY RecoveryStep
<1>4. Spec => [](TypeInv /\ ReservationInv /\ GrantInv)
  BY ReservationsHold, GrantsHold, PTL
<1> QED  BY <1>1, <1>2, <1>3, <1>4, PTL DEF Spec

\* With one thread, whatever crashes and whatever the user resumes, an action
\* recovery calls awaiting approval is the action of the pending request, so
\* that an approval can take the run on (recovery.py, _latest_unresolved_action;
\* loop.py, pending_approval).
THEOREM AwaitedIsPendingWithOneThread ==
  ASSUME OneThread  PROVE Spec => []AwaitedApprovalIsPending
<1>1. TypeInv /\ RecoveryInv => AwaitedApprovalIsPending
  BY AwaitedIsPending DEF RecoveryInv
<1> QED  BY <1>1, RecoveryHolds, PTL

\* With one thread, an operation that a tool performed is never lost to
\* recovery: its result is stored, or recovery asks the user about it, or the
\* user has answered, unless its trail was reopened after an end (recovery.py,
\* _classify_action; loop.py, execute).
THEOREM EffectsAreAccountedWithOneThread ==
  ASSUME OneThread  PROVE Spec => []EffectsAreAccountedFor
<1>1. ASSUME TypeInv, GrantInv, RecoveryInv
      PROVE  EffectsAreAccountedFor
  <2> SUFFICES ASSUME NEW e \in DOMAIN effects, NEW a \in Actions,
                      a = effects[e].action, ~ Stored(a),
                      EventsOf(a, {"action_recovery_confirmed"}) = {}, ~ Reopened(a)
               PROVE  a \in Unresolved /\ Classification(a) = "ambiguous_side_effect"
    BY <1>1, EffectAt DEF EffectsAreAccountedFor
  <2>1. /\ EventsOf(a, {"action_started"}) # {}
        /\ EventsOf(a, {"approval_granted"}) # {}
    BY <1>1, EffectsAreStarted
  <2>2. StartedLast(a)
    BY <1>1 DEF RecoveryInv, AccountInv, Accounted
  <2>3. EventsOf(a, TerminalTypes) = {}
    BY <2>1, <2>2 DEF StartedLast, Reopened
  <2>4. EventsOf(a, {"approval_rejected"}) = {}
    BY <1>1, <2>1 DEF RecoveryInv, ClosedInv
  <2>5. a \in Unresolved
    <3>1. EventsOf(a, TerminalTypes \union {"approval_rejected"}) = {}
      BY <2>3, <2>4 DEF EventsOf
    <3>2. EventsOf(a, EventTypes) # {}
      BY <2>1 DEF EventsOf, EventTypes
    <3> QED  BY <3>1, <3>2 DEF Unresolved
  <2> QED  BY <2>1, <2>5 DEF Classification
<1>2. TypeInv /\ GrantInv /\ RecoveryInv => EffectsAreAccountedFor
  BY <1>1
<1> QED  BY <1>2, RecoveryHolds, PTL
=============================================================================
