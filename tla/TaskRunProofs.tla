---------------------------- MODULE TaskRunProofs ----------------------------
(***************************************************************************)
(* Theorems about TaskRun, for any threads, proposals, sandboxes, requests *)
(* and restarts.                                                           *)
(*                                                                         *)
(* The inductive invariant Good relates three kinds of state: the records  *)
(* of the run (the object, its row and the copies threads are about to     *)
(* write), the sessions (the objects and their rows) and the frames of the *)
(* threads.  Its parts take the state they read as parameters, so that     *)
(* they can be stated of the state before and of the state after a step.   *)
(***************************************************************************)
EXTENDS TaskRun, TLAPS

\* A record of the run never names a sandbox that was not created or a proposal
\* whose session was not saved, can go back to a sandbox only when it names one,
\* and keeps a checkpoint while it has to stop.
Sound(r, files, rows) ==
  /\ r \in RunRecord
  /\ HasSandbox(r) => files[r.sandbox] # NoContent
  /\ r.checkpoint \in SandboxCheckpoints => HasSandbox(r)
  /\ r.status \in {"pausing", "paused", "interrupted"} => r.checkpoint # "none"
  /\ HasProposal(r) => rows[r.proposal].made

\* A session was made in a sandbox that exists.
Placed(session, files) ==
  /\ session \in Session
  /\ session.made => session.sandbox # 0 /\ files[session.sandbox] # NoContent

\* What a frame holds, wherever its thread is.
Holds(f, files, objects, rows) ==
  /\ f \in Thread
  /\ Sound(f.record, files, rows)
  /\ f.sandbox # 0 => files[f.sandbox] # NoContent
  /\ f.proposal # 0 => objects[f.proposal].made
  /\ f.fresh # 0 => objects[f.fresh].made

\* A thread in the middle of a save is heading for the point after it.
Saving == {"save", "write", "keep"}
Head(f) == IF f.at \in Saving THEN f.next ELSE f.at

\* What a thread at a point, or heading for it, relies on.  The background worker
\* has no proposal of its own until it makes one; every other thread has.
WorkerPoints   == {"launched", "create", "ready", "boundary", "explore",
                   "readiness", "prepare", "prepared"}
ProposalPoints == {"capture", "check", "patch", "blocked", "validate", "conclude",
                   "respond", "revert", "restore", "reverted", "repair",
                   "diagnosed", "replan", "stop_run", "publish"}
CanBeAt(f, point, r, objects, rows) ==
  /\ point \in WorkerPoints => f.proposal = 0
  /\ point \in ProposalPoints => f.proposal # 0
  /\ point \in {"ready", "boundary", "explore"} => f.sandbox # 0
  /\ point \in {"prepared", "launched"} /\ f.reuse => HasSandbox(r)
  /\ point \in {"diagnosed", "replan"} => objects[f.proposal].attempt < MaxRepairs
  /\ point = "keep_fresh" => f.fresh # 0
  /\ point # "keep_fresh" /\ f.fresh # 0 => rows[f.fresh].made

Framed(f, r, files, objects, rows) ==
  /\ Holds(f, files, objects, rows)
  /\ f.at = "idle" => f = Idle
  /\ f.next \notin Saving \union {"keep_fresh"}
  /\ CanBeAt(f, Head(f), r, objects, rows)

Counted == /\ asked \in BOOLEAN
           /\ requests \in 0..MaxRequests /\ restarts \in 0..MaxRestarts
Files   == [Sandboxes -> Contents \union {NoContent}]

Good ==
  /\ tree \in Files /\ Counted
  /\ Sound(run, tree, savedSessions) /\ Sound(saved, tree, savedSessions)
  /\ sessions \in [Proposals -> Session]
  /\ savedSessions \in [Proposals -> Session]
  /\ \A p \in Proposals : Placed(sessions[p], tree) /\ Placed(savedSessions[p], tree)
  /\ thread \in [Threads -> Thread]
  /\ \A t \in Threads : Framed(thread[t], run, tree, sessions, savedSessions)

-----------------------------------------------------------------------------
(* The functions of TaskRunStatus.                                         *)

LEMMA CheckpointsAreSafe ==
  ASSUME NEW r \in RunRecord, NEW state
  PROVE  /\ CheckpointFor(r, state) \in Checkpoints \ {"none"}
         /\ CheckpointFor(r, state) \in SandboxCheckpoints => HasSandbox(r)
  BY DEF CheckpointFor, Checkpoints, ApprovalCheckpoints, SandboxCheckpoints

\* Naming another status keeps a record sound, unless it has to stop.
LEMMA OtherStatusIsSound ==
  ASSUME NEW r, NEW files, NEW rows, Sound(r, files, rows),
         NEW status \in TaskRunStatuses \ {"pausing", "paused", "interrupted"}
  PROVE  /\ Sound([r EXCEPT !.status = status], files, rows)
         /\ Sound([r EXCEPT !.status = status, !.pause = FALSE], files, rows)
  BY DEF Sound, RunRecord, HasSandbox, HasProposal

LEMMA StoppingIsSound ==
  ASSUME NEW r, NEW files, NEW rows, Sound(r, files, rows), NEW state
  PROVE  Sound(StoppedAt(r, state), files, rows)
<1>1. r \in RunRecord
  BY DEF Sound
<1>2. /\ CheckpointFor(r, state) \in Checkpoints \ {"none"}
      /\ CheckpointFor(r, state) \in SandboxCheckpoints => HasSandbox(r)
  BY <1>1, CheckpointsAreSafe
<1> QED  BY <1>1, <1>2 DEF StoppedAt, Sound, RunRecord, HasSandbox, HasProposal,
                          TaskRunStatuses, ResumableStatuses

LEMMA RequestsAreSound ==
  ASSUME NEW r, NEW files, NEW rows, Sound(r, files, rows)
  PROVE  /\ Sound(PauseRequested(r), files, rows)
         /\ Sound(CancelRequested(r), files, rows)
<1>1. r \in RunRecord
  BY DEF Sound
<1>2. /\ CheckpointFor(r, r.status) \in Checkpoints \ {"none"}
      /\ CheckpointFor(r, r.status) \in SandboxCheckpoints => HasSandbox(r)
  BY <1>1, CheckpointsAreSafe
<1>3. Sound(PauseRequested(r), files, rows)
  BY <1>1, <1>2 DEF PauseRequested, Sound, RunRecord, HasSandbox, HasProposal,
                    TaskRunStatuses, ResumableStatuses, ActiveStatuses
<1>4. Sound(CancelRequested(r), files, rows)
  BY <1>1, <1>2 DEF CancelRequested, Sound, RunRecord, HasSandbox, HasProposal,
                    TaskRunStatuses, ResumableStatuses, ActiveStatuses
<1> QED  BY <1>3, <1>4

LEMMA PreparingIsSound ==
  ASSUME NEW r, NEW files, NEW rows, Sound(r, files, rows)
  PROVE  Sound(Prepared(r), files, rows)
  BY DEF Prepared, Sound, RunRecord, HasSandbox, HasProposal, TaskRunStatuses,
         ActiveStatuses, Checkpoints, SandboxCheckpoints, ApprovalCheckpoints

LEMMA RestoringIsSound ==
  ASSUME NEW r, NEW files, NEW rows, Sound(r, files, rows)
  PROVE  Sound(Restored(r), files, rows)
<1>1. r \in RunRecord
  BY DEF Sound
<1>2. /\ CheckpointFor(r, r.status) \in Checkpoints \ {"none"}
      /\ CheckpointFor(r, r.status) \in SandboxCheckpoints => HasSandbox(r)
  BY <1>1, CheckpointsAreSafe
<1> QED  BY <1>1, <1>2 DEF Restored, Interrupted, Sound, RunRecord, HasSandbox,
                          HasProposal, TaskRunStatuses, ResumableStatuses

\* Naming a proposal whose session is saved keeps a record sound.
LEMMA NamingIsSound ==
  ASSUME NEW r, NEW files, NEW rows, Sound(r, files, rows),
         NEW p \in 0..MaxProposals, p # 0 => rows[p].made
  PROVE  Sound([r EXCEPT !.proposal = p], files, rows)
  BY DEF Sound, RunRecord, HasSandbox, HasProposal

LEMMA SettlingIsSound ==
  ASSUME NEW r, NEW files, NEW rows, Sound(r, files, rows),
         NEW outcome, NEW exhausted \in BOOLEAN
  PROVE  Sound(SettledRun(r, outcome, exhausted), files, rows)
<1> DEFINE waiting == outcome \in {"proposal", "approval", "input"}
           state   == IF outcome = "input" THEN "awaiting_input"
                      ELSE IF waiting THEN "awaiting_approval" ELSE "completed"
<1>1. /\ state \in TaskRunStatuses \ {"pausing", "paused", "interrupted"}
      /\ "failed" \in TaskRunStatuses \ {"pausing", "paused", "interrupted"}
  BY DEF TaskRunStatuses, ResumableStatuses
<1>2. SettledRun(r, outcome, exhausted)
        \in {StoppedAt(r, state), [r EXCEPT !.status = "failed"],
             [r EXCEPT !.status = state, !.pause = FALSE]}
  BY DEF SettledRun
<1>3. /\ Sound(StoppedAt(r, state), files, rows)
      /\ Sound([r EXCEPT !.status = "failed"], files, rows)
      /\ Sound([r EXCEPT !.status = state, !.pause = FALSE], files, rows)
  <2> HIDE DEF state
  <2> QED  BY <1>1, StoppingIsSound, OtherStatusIsSound
<1> QED  BY <1>2, <1>3

-----------------------------------------------------------------------------
(* What a step of one thread leaves to the others.  Within one process of  *)
(* the server sandboxes and sessions are only added, a session keeps its   *)
(* attempt, and a run that has a sandbox goes on having one.               *)

FilesGrow(files, files2) ==
  \A s \in Sandboxes : files[s] # NoContent => files2[s] # NoContent
SessionsGrow(some, some2) ==
  \A p \in Proposals : some[p].made => some2[p].made
AttemptsStay(some, some2) ==
  \A p \in Proposals : some[p].made => some2[p].attempt = some[p].attempt

LEMMA SoundStays ==
  ASSUME NEW r, NEW files, NEW files2, NEW rows, NEW rows2,
         Sound(r, files, rows), FilesGrow(files, files2), SessionsGrow(rows, rows2)
  PROVE  Sound(r, files2, rows2)
  BY DEF Sound, FilesGrow, SessionsGrow, RunRecord, HasSandbox, HasProposal,
         Sandboxes, Proposals

LEMMA HoldsStays ==
  ASSUME NEW f, NEW files, NEW files2, NEW objects, NEW objects2, NEW rows, NEW rows2,
         Holds(f, files, objects, rows), FilesGrow(files, files2),
         SessionsGrow(objects, objects2), SessionsGrow(rows, rows2)
  PROVE  Holds(f, files2, objects2, rows2)
<1>1. Sound(f.record, files2, rows2)
  BY SoundStays DEF Holds
<1> QED  BY <1>1 DEF Holds, FilesGrow, SessionsGrow, Thread, Sandboxes, Proposals

LEMMA CanBeAtStays ==
  ASSUME NEW f \in Thread, NEW point, NEW r, NEW r2,
         NEW files, NEW objects, NEW objects2, NEW rows, NEW rows2,
         Holds(f, files, objects, rows),
         CanBeAt(f, point, r, objects, rows), HasSandbox(r) => HasSandbox(r2),
         SessionsGrow(rows, rows2), AttemptsStay(objects, objects2)
  PROVE  CanBeAt(f, point, r2, objects2, rows2)
  BY DEF CanBeAt, Holds, SessionsGrow, AttemptsStay, Thread, Proposals, ProposalPoints

LEMMA QueuedIsSound ==
  ASSUME NEW files, NEW rows
  PROVE  Queued \in RunRecord /\ Sound(Queued, files, rows)
<1>1. Queued \in RunRecord
  BY TaskRunAssumption DEF Queued, RunRecord, Checkpoints, TaskRunStatuses,
                           ActiveStatuses
<1> QED  BY <1>1 DEF Sound, Queued, HasSandbox, HasProposal, SandboxCheckpoints

LEMMA IdleIsTyped == Idle \in Thread
<1>1. Queued \in RunRecord
  BY QueuedIsSound
<1> QED  BY <1>1, TaskRunAssumption DEF Idle, Thread, Points, Outcomes, Checkpoints,
                                        Contents

LEMMA IdleIsFramed ==
  ASSUME NEW r, NEW files, NEW objects, NEW rows
  PROVE  Framed(Idle, r, files, objects, rows)
  BY IdleIsTyped, QueuedIsSound
     DEF Framed, Holds, CanBeAt, Head, Idle, Saving, WorkerPoints, ProposalPoints

\* One thread moves to a point with a frame that can be there, and what it
\* changes only grows: then every thread still has what it relies on.
LEMMA StepIsGood ==
  ASSUME Good, Counted', NEW t \in Threads, NEW f \in Thread, NEW point \in Points,
         At(t, f, point),
         tree' \in Files, FilesGrow(tree, tree'),
         sessions' \in [Proposals -> Session],
         savedSessions' \in [Proposals -> Session],
         SessionsGrow(sessions, sessions'), AttemptsStay(sessions, sessions'),
         SessionsGrow(savedSessions, savedSessions'),
         \A p \in Proposals : Placed(sessions'[p], tree') /\
                              Placed(savedSessions'[p], tree'),
         HasSandbox(run) => HasSandbox(run'),
         Sound(run', tree', savedSessions'), Sound(saved', tree', savedSessions'),
         Holds(f, tree', sessions', savedSessions'),
         f.next \notin Saving \union {"keep_fresh"},
         CanBeAt(f, IF point \in Saving THEN f.next ELSE point, run', sessions',
                 savedSessions')
  PROVE  Good'
<1> DEFINE g == IF point = "idle" THEN Idle ELSE [f EXCEPT !.at = point]
<1>1. /\ thread' = [thread EXCEPT ![t] = g]
      /\ thread \in [Threads -> Thread]
  BY DEF At, Good
<1>2. Idle \in Thread /\ Sound(Queued, tree', savedSessions')
  BY IdleIsTyped, QueuedIsSound
<1>3. g \in Thread
  BY <1>2 DEF Thread
<1>4. Framed(g, run', tree', sessions', savedSessions')
  <2>1. CASE point = "idle"
    BY <2>1, IdleIsFramed
  <2>2. CASE point # "idle"
    <3>1. /\ g.at = point /\ g.next = f.next /\ g.record = f.record
          /\ g.sandbox = f.sandbox /\ g.proposal = f.proposal
          /\ g.fresh = f.fresh /\ g.reuse = f.reuse
      BY <2>2 DEF Thread
    <3> HIDE DEF g
    <3>2. Holds(g, tree', sessions', savedSessions')
      BY <1>3, <3>1 DEF Holds
    <3>3. CanBeAt(g, Head(g), run', sessions', savedSessions')
      BY <3>1 DEF CanBeAt, Head
    <3> QED  BY <2>2, <3>1, <3>2, <3>3 DEF Framed
  <2> QED  BY <2>1, <2>2
<1>5. ASSUME NEW u \in Threads
      PROVE  Framed(thread'[u], run', tree', sessions', savedSessions')
  <2> HIDE DEF g
  <2>1. CASE u = t
    BY <1>1, <1>4, <2>1
  <2>2. CASE u # t
    <3>1. thread'[u] = thread[u]
      BY <1>1, <2>2
    <3> DEFINE h == thread[u]
    <3>2. Framed(h, run, tree, sessions, savedSessions)
      BY DEF Good
    <3> HIDE DEF h
    <3>3. /\ h \in Thread /\ Holds(h, tree, sessions, savedSessions)
          /\ CanBeAt(h, Head(h), run, sessions, savedSessions)
      BY <3>2 DEF Framed, Holds
    <3>4. Holds(h, tree', sessions', savedSessions')
      BY <3>3, HoldsStays
    <3>5. CanBeAt(h, Head(h), run', sessions', savedSessions')
      BY <3>3, CanBeAtStays
    <3>6. Framed(h, run', tree', sessions', savedSessions')
      BY <3>2, <3>4, <3>5 DEF Framed
    <3> QED  BY <3>1, <3>6 DEF h
  <2> QED  BY <2>1, <2>2
<1>6. thread' \in [Threads -> Thread]
  <2> HIDE DEF g
  <2> QED  BY <1>1, <1>3
<1> QED  BY <1>5, <1>6 DEF Good

LEMMA NothingIsLost ==
  ASSUME NEW some  PROVE  SessionsGrow(some, some) /\ AttemptsStay(some, some)
  BY DEF SessionsGrow, AttemptsStay

\* A thread moves on and nothing else changes.
LEMMA GoingIsGood ==
  ASSUME Good, Counted', NEW t \in Threads, NEW f, NEW point \in Points,
         At(t, f, point), UNCHANGED <<run, saved, sessions, savedSessions, tree>>,
         Holds(f, tree, sessions, savedSessions),
         f.next \notin Saving \union {"keep_fresh"},
         CanBeAt(f, IF point \in Saving THEN f.next ELSE point, run, sessions,
                 savedSessions)
  PROVE  Good'
<1>1. f \in Thread /\ FilesGrow(tree, tree')
  BY DEF Holds, FilesGrow
<1>2. /\ SessionsGrow(sessions, sessions') /\ AttemptsStay(sessions, sessions')
      /\ SessionsGrow(savedSessions, savedSessions')
  BY NothingIsLost
<1>3. /\ tree' \in Files
      /\ sessions' \in [Proposals -> Session]
      /\ savedSessions' \in [Proposals -> Session]
      /\ \A p \in Proposals : Placed(sessions'[p], tree') /\
                              Placed(savedSessions'[p], tree')
      /\ Sound(run', tree', savedSessions') /\ Sound(saved', tree', savedSessions')
  BY DEF Good
<1>4. /\ Holds(f, tree', sessions', savedSessions')
      /\ CanBeAt(f, IF point \in Saving THEN f.next ELSE point, run', sessions',
                 savedSessions')
      /\ HasSandbox(run) => HasSandbox(run')
  OBVIOUS
<1> QED  BY <1>1, <1>2, <1>3, <1>4, StepIsGood

\* A point that a save or a keep can lead to.
Destinations == Points \ (Saving \union {"keep_fresh"})

\* A thread updates the run and saves it.
LEMMA UpdatingIsGood ==
  ASSUME Good, Counted', NEW t \in Threads, NEW record, NEW f,
         NEW point \in Destinations,
         UpdateAndSave(t, record, f, point),
         UNCHANGED <<saved, sessions, savedSessions, tree>>,
         Sound(record, tree, savedSessions),
         HasSandbox(run) => HasSandbox(record),
         Holds(f, tree, sessions, savedSessions),
         CanBeAt(f, point, record, sessions, savedSessions)
  PROVE  Good'
<1> DEFINE g == [f EXCEPT !.next = point]
<1>1. /\ g \in Thread /\ g.next = point /\ g.record = f.record
      /\ g.sandbox = f.sandbox /\ g.proposal = f.proposal
      /\ g.fresh = f.fresh /\ g.reuse = f.reuse
  BY DEF Holds, Thread, Destinations
<1>2. At(t, g, "save") /\ run' = record
  BY DEF UpdateAndSave
<1> HIDE DEF g
<1>3. /\ Holds(g, tree', sessions', savedSessions')
      /\ CanBeAt(g, point, run', sessions', savedSessions')
      /\ FilesGrow(tree, tree')
  BY <1>1, <1>2 DEF Holds, CanBeAt, FilesGrow
<1>4. /\ SessionsGrow(sessions, sessions') /\ AttemptsStay(sessions, sessions')
      /\ SessionsGrow(savedSessions, savedSessions')
  BY NothingIsLost
<1>5. /\ tree' \in Files
      /\ sessions' \in [Proposals -> Session]
      /\ savedSessions' \in [Proposals -> Session]
      /\ \A p \in Proposals : Placed(sessions'[p], tree') /\
                              Placed(savedSessions'[p], tree')
      /\ Sound(run', tree', savedSessions') /\ Sound(saved', tree', savedSessions')
      /\ HasSandbox(run) => HasSandbox(run')
  BY <1>2 DEF Good
<1>6. /\ "save" \in Points /\ "save" \in Saving
      /\ g.next \notin Saving \union {"keep_fresh"}
  BY <1>1 DEF Points, Saving, Destinations
<1>7. CanBeAt(g, IF "save" \in Saving THEN g.next ELSE "save", run', sessions',
              savedSessions')
  BY <1>1, <1>3, <1>6
<1> QED  BY <1>1, <1>2, <1>3, <1>4, <1>5, <1>6, <1>7, StepIsGood

\* A thread changes the session of its proposal, perhaps the sandbox and the run
\* too, and keeps the session or saves the run.
LEMMA ChangingIsGood ==
  ASSUME Good, Counted', NEW t \in Threads, NEW p \in Proposals, NEW session, NEW f,
         NEW point \in Destinations, NEW at \in {"save", "keep"},
         sessions' = [sessions EXCEPT ![p] = session],
         At(t, [f EXCEPT !.next = point], at),
         UNCHANGED <<saved, savedSessions>>,
         Sound(run', tree, savedSessions), HasSandbox(run) => HasSandbox(run'),
         tree' \in Files, FilesGrow(tree, tree'),
         session \in Session, sessions[p].made, session.made,
         session.sandbox = sessions[p].sandbox,
         session.attempt = sessions[p].attempt,
         Holds(f, tree, sessions, savedSessions),
         CanBeAt(f, point, run', sessions, savedSessions)
  PROVE  Good'
<1> DEFINE g == [f EXCEPT !.next = point]
<1>1. /\ g \in Thread /\ g.next = point /\ g.record = f.record
      /\ g.sandbox = f.sandbox /\ g.proposal = f.proposal
      /\ g.fresh = f.fresh /\ g.reuse = f.reuse
  BY DEF Holds, Thread, Destinations
<1>2. /\ At(t, g, at)
      /\ sessions \in [Proposals -> Session]
      /\ savedSessions \in [Proposals -> Session]
  BY DEF Good
<1> HIDE DEF g
<1>3. Holds(g, tree, sessions, savedSessions)
  BY <1>1 DEF Holds
<1>4. CanBeAt(g, point, run', sessions, savedSessions)
  BY <1>1 DEF CanBeAt
<1>5. /\ SessionsGrow(sessions, sessions') /\ AttemptsStay(sessions, sessions')
      /\ SessionsGrow(savedSessions, savedSessions')
  BY <1>2 DEF SessionsGrow, AttemptsStay
<1>6. Holds(g, tree', sessions', savedSessions')
  BY <1>3, <1>5, HoldsStays
<1>7. CanBeAt(g, point, run', sessions', savedSessions')
  <2> DEFINE record == run'
  <2>1. CanBeAt(g, point, record, sessions, savedSessions)
    BY <1>4
  <2> HIDE DEF record
  <2>2. CanBeAt(g, point, record, sessions', savedSessions')
    BY <1>1, <1>3, <1>5, <2>1, CanBeAtStays
  <2> QED  BY <2>2 DEF record
<1>8. ASSUME NEW q \in Proposals
      PROVE  Placed(sessions'[q], tree') /\ Placed(savedSessions'[q], tree')
  <2>1. Placed(sessions[q], tree) /\ Placed(savedSessions[q], tree)
    BY DEF Good
  <2>2. Placed(savedSessions'[q], tree')
    BY <2>1, <1>2 DEF Placed, FilesGrow, Session, Sandboxes
  <2>3. Placed(sessions[q], tree')
    BY <2>1, <1>2 DEF Placed, FilesGrow, Session, Sandboxes
  <2>4. sessions'[q] = IF q = p THEN session ELSE sessions[q]
    BY <1>2
  <2>5. Placed(sessions'[q], tree')
    BY <2>3, <2>4 DEF Placed
  <2> QED  BY <2>2, <2>5
<1>9. Sound(run', tree', savedSessions') /\ Sound(saved', tree', savedSessions')
  <2> DEFINE record == run'
  <2>1. Sound(record, tree, savedSessions) /\ Sound(saved, tree, savedSessions)
    BY DEF Good
  <2> HIDE DEF record
  <2>2. Sound(record, tree', savedSessions') /\ Sound(saved', tree', savedSessions')
    BY <1>5, <2>1, SoundStays
  <2> QED  BY <2>2 DEF record
<1>10. /\ at \in Points /\ at \in Saving
       /\ g.next \notin Saving \union {"keep_fresh"}
  BY <1>1 DEF Points, Saving, Destinations
<1>11. CanBeAt(g, IF at \in Saving THEN g.next ELSE at, run', sessions',
               savedSessions')
  BY <1>1, <1>7, <1>10
<1>12. /\ sessions' \in [Proposals -> Session]
       /\ savedSessions' \in [Proposals -> Session]
  BY <1>2
<1> QED  BY <1>1, <1>2, <1>5, <1>6, <1>8, <1>9, <1>10, <1>11, <1>12, StepIsGood

\* What a step finds in the frame of its thread.
LEMMA FrameIsGood ==
  ASSUME Good, NEW t \in Threads
  PROVE  /\ Holds(thread[t], tree, sessions, savedSessions)
         /\ thread[t] \in Thread
         /\ thread[t].next \notin Saving \union {"keep_fresh"}
         /\ thread[t].next \in Destinations
         /\ thread[t].at = "idle" => thread[t] = Idle
         /\ thread[t].at \in Saving =>
              CanBeAt(thread[t], thread[t].next, run, sessions, savedSessions)
         /\ thread[t].at \notin Saving =>
              CanBeAt(thread[t], thread[t].at, run, sessions, savedSessions)
         /\ thread[t].proposal # 0 =>
              /\ thread[t].proposal \in Proposals
              /\ Placed(sessions[thread[t].proposal], tree)
              /\ sessions[thread[t].proposal].made
  BY DEF Good, Framed, Holds, Head, Thread, Destinations, Proposals

-----------------------------------------------------------------------------
(* Saving the run and keeping sessions.                                    *)

\* What counts stays counted in a step that is not a restart and asks nothing.
LEMMA CountsStay ==
  ASSUME Good, NEW t \in Threads, UNCHANGED <<asked, restarts>>,
         Request(t) \/ UNCHANGED requests
  PROVE  Counted'
  BY TaskRunAssumption DEF Good, Counted, Request

LEMMA SaveIsGood ==
  ASSUME Good, NEW t \in Threads, Save(t)  PROVE Good'
<1> DEFINE f == [thread[t] EXCEPT !.record = run]
<1>1. /\ thread[t] \in Thread /\ Holds(thread[t], tree, sessions, savedSessions)
      /\ thread[t].next \notin Saving \union {"keep_fresh"}
      /\ CanBeAt(thread[t], thread[t].next, run, sessions, savedSessions)
  BY FrameIsGood DEF Save, Step, Saving
<1>2. /\ f \in Thread /\ f.record = run /\ f.next = thread[t].next
      /\ f.sandbox = thread[t].sandbox /\ f.proposal = thread[t].proposal
      /\ f.fresh = thread[t].fresh /\ f.reuse = thread[t].reuse
  BY <1>1 DEF Thread, Good, Sound
<1>3. At(t, f, "write") /\ UNCHANGED <<run, saved, sessions, savedSessions, tree>>
  BY DEF Save
<1>4. Counted'
  BY CountsStay DEF Save, Step
<1> HIDE DEF f
<1>5. /\ Holds(f, tree, sessions, savedSessions)
      /\ CanBeAt(f, f.next, run, sessions, savedSessions)
  BY <1>1, <1>2 DEF Holds, CanBeAt, Good
<1>6. "write" \in Points /\ "write" \in Saving
  BY DEF Points, Saving
<1>7. CanBeAt(f, IF "write" \in Saving THEN f.next ELSE "write", run, sessions,
              savedSessions)
  BY <1>5, <1>6
<1> QED  BY <1>1, <1>2, <1>3, <1>4, <1>5, <1>6, <1>7, GoingIsGood

LEMMA WriteIsGood ==
  ASSUME Good, NEW t \in Threads, Write(t)  PROVE Good'
<1> DEFINE point == thread[t].next
           f     == [thread[t] EXCEPT !.record = Queued, !.next = "idle"]
<1>1. /\ thread[t] \in Thread /\ Holds(thread[t], tree, sessions, savedSessions)
      /\ point \notin Saving \union {"keep_fresh"} /\ point \in Points
      /\ CanBeAt(thread[t], point, run, sessions, savedSessions)
  BY FrameIsGood DEF Write, Step, Saving, Destinations
<1>2. /\ f \in Thread /\ f.record = Queued /\ f.next = "idle"
      /\ f.sandbox = thread[t].sandbox /\ f.proposal = thread[t].proposal
      /\ f.fresh = thread[t].fresh /\ f.reuse = thread[t].reuse
  BY <1>1, QueuedIsSound DEF Thread, Points
<1>3. /\ At(t, f, point) /\ saved' = thread[t].record
      /\ UNCHANGED <<run, sessions, savedSessions, tree>>
  BY DEF Write
<1>4. Counted'
  BY CountsStay DEF Write, Step
<1> HIDE DEF f, point
<1>5. Sound(saved', tree', savedSessions') /\ Sound(run', tree', savedSessions')
  BY <1>1, <1>3 DEF Holds, Good
<1>6. Holds(f, tree', sessions', savedSessions')
  BY <1>1, <1>2, <1>3, QueuedIsSound DEF Holds
<1>7. CanBeAt(f, IF point \in Saving THEN f.next ELSE point, run', sessions',
              savedSessions')
  BY <1>1, <1>2, <1>3 DEF CanBeAt
<1>8. /\ SessionsGrow(sessions, sessions') /\ AttemptsStay(sessions, sessions')
      /\ SessionsGrow(savedSessions, savedSessions') /\ FilesGrow(tree, tree')
  BY <1>3, NothingIsLost DEF FilesGrow
<1>9. /\ tree' \in Files
      /\ sessions' \in [Proposals -> Session]
      /\ savedSessions' \in [Proposals -> Session]
      /\ \A p \in Proposals : Placed(sessions'[p], tree') /\
                              Placed(savedSessions'[p], tree')
      /\ HasSandbox(run) => HasSandbox(run')
  BY <1>3 DEF Good
<1>10. f.next \notin Saving \union {"keep_fresh"}
  BY <1>2 DEF Saving
<1> QED  BY <1>1, <1>2, <1>3, <1>4, <1>5, <1>6, <1>7, <1>8, <1>9, <1>10, StepIsGood

\* Keeping the session of one proposal, while a thread moves on.
LEMMA RowIsGood ==
  ASSUME Good, Counted', NEW t \in Threads, NEW p, p # 0 => p \in Proposals,
         p # 0 => sessions[p].made, NEW f, NEW point \in Points,
         savedSessions' = [savedSessions EXCEPT ![p] = sessions[p]],
         At(t, f, point), UNCHANGED <<run, saved, sessions, tree>>,
         Holds(f, tree, sessions, savedSessions),
         f.next \notin Saving \union {"keep_fresh"},
         CanBeAt(f, IF point \in Saving THEN f.next ELSE point, run, sessions,
                 savedSessions')
  PROVE  Good'
<1>1. /\ sessions \in [Proposals -> Session]
      /\ savedSessions \in [Proposals -> Session]
      /\ tree \in Files
  BY DEF Good
<1>2. ASSUME NEW q \in Proposals
      PROVE  /\ savedSessions'[q] = IF q = p THEN sessions[q] ELSE savedSessions[q]
             /\ Placed(sessions[q], tree) /\ Placed(savedSessions[q], tree)
  BY <1>1 DEF Good
<1>3. savedSessions' \in [Proposals -> Session]
  <2>1. CASE p = 0
    BY <1>1, <2>1 DEF Proposals
  <2>2. CASE p # 0
    BY <1>1, <2>2
  <2> QED  BY <2>1, <2>2
<1>4. /\ SessionsGrow(savedSessions, savedSessions')
      /\ SessionsGrow(sessions, sessions') /\ AttemptsStay(sessions, sessions')
      /\ FilesGrow(tree, tree')
  <2>1. \A q \in Proposals : q = p => p # 0
    BY DEF Proposals
  <2> QED  BY <1>2, <2>1, NothingIsLost DEF SessionsGrow, FilesGrow
<1>5. \A q \in Proposals : Placed(sessions'[q], tree') /\
                           Placed(savedSessions'[q], tree')
  BY <1>2
<1>6. Sound(run', tree', savedSessions') /\ Sound(saved', tree', savedSessions')
  BY <1>4, SoundStays DEF Good
<1>7. Holds(f, tree', sessions', savedSessions') /\ f \in Thread
  BY <1>4, HoldsStays DEF Holds
<1>8. /\ CanBeAt(f, IF point \in Saving THEN f.next ELSE point, run', sessions',
                 savedSessions')
      /\ HasSandbox(run) => HasSandbox(run')
      /\ tree' \in Files /\ sessions' \in [Proposals -> Session]
  BY <1>1
<1> QED  BY <1>3, <1>4, <1>5, <1>6, <1>7, <1>8, StepIsGood

LEMMA KeepIsGood ==
  ASSUME Good, NEW t \in Threads, Keep(t)  PROVE Good'
<1> DEFINE point == thread[t].next
           f     == [thread[t] EXCEPT !.next = "idle"]
           p     == thread[t].proposal
<1>1. /\ thread[t] \in Thread /\ Holds(thread[t], tree, sessions, savedSessions)
      /\ point \notin Saving \union {"keep_fresh"} /\ point \in Points
      /\ CanBeAt(thread[t], point, run, sessions, savedSessions)
      /\ p # 0 => p \in Proposals /\ sessions[p].made
  BY FrameIsGood DEF Keep, Step, Saving, Destinations
<1>2. /\ f \in Thread /\ f.record = thread[t].record /\ f.next = "idle"
      /\ f.sandbox = thread[t].sandbox /\ f.proposal = p
      /\ f.fresh = thread[t].fresh /\ f.reuse = thread[t].reuse
  BY <1>1 DEF Thread, Points
<1>3. /\ At(t, f, point)
      /\ savedSessions' = [savedSessions EXCEPT ![p] = sessions[p]]
      /\ UNCHANGED <<run, saved, sessions, tree>>
  BY DEF Keep
<1>4. Counted'
  BY CountsStay DEF Keep, Step
<1>5. thread[t].fresh # 0 => thread[t].fresh \in Proposals
  BY <1>1 DEF Thread, Proposals
<1>6. SessionsGrow(savedSessions, savedSessions')
  <2>1. savedSessions \in [Proposals -> Session]
    BY DEF Good
  <2> QED  BY <1>1, <1>3, <2>1 DEF SessionsGrow, Proposals
<1> HIDE DEF f, point, p
<1>7. Holds(f, tree, sessions, savedSessions)
  BY <1>1, <1>2 DEF Holds, p
<1>8. CanBeAt(f, IF point \in Saving THEN f.next ELSE point, run, sessions,
              savedSessions')
  BY <1>1, <1>2, <1>5, <1>6 DEF CanBeAt, SessionsGrow, p
<1>9. f.next \notin Saving \union {"keep_fresh"}
  BY <1>2 DEF Saving
<1> QED  BY <1>1, <1>3, <1>4, <1>7, <1>8, <1>9, RowIsGood

LEMMA KeepFreshIsGood ==
  ASSUME Good, NEW t \in Threads, KeepFresh(t)  PROVE Good'
<1> DEFINE p == thread[t].fresh
           g == [thread[t] EXCEPT !.next = "publish"]
<1>1. /\ thread[t] \in Thread /\ Holds(thread[t], tree, sessions, savedSessions)
      /\ thread[t].next \notin Saving \union {"keep_fresh"}
      /\ CanBeAt(thread[t], "keep_fresh", run, sessions, savedSessions)
  BY FrameIsGood DEF KeepFresh, Step, Saving
<1>2. p # 0 /\ p \in Proposals /\ sessions[p].made
  BY <1>1 DEF CanBeAt, Holds, Thread, Proposals
<1>3. /\ savedSessions' = [savedSessions EXCEPT ![p] = sessions[p]]
      /\ UNCHANGED <<run, saved, sessions, tree>>
      /\ savedSessions \in [Proposals -> Session]
  BY DEF KeepFresh, Good
<1>4. Counted'
  BY CountsStay DEF KeepFresh, Step
<1>5. savedSessions'[p].made
  BY <1>2, <1>3
<1>6. CASE thread[t].proposal = 0
  <2>1. At(t, thread[t], "settle")
    BY <1>6 DEF KeepFresh, GoOn
  <2>2. /\ "settle" \in Points /\ "settle" \notin Saving
        /\ CanBeAt(thread[t], "settle", run, sessions, savedSessions')
    BY <1>5 DEF CanBeAt, Points, Saving, WorkerPoints, ProposalPoints
  <2>3. CanBeAt(thread[t], IF "settle" \in Saving THEN thread[t].next ELSE "settle",
                run, sessions, savedSessions')
    BY <2>2
  <2> HIDE DEF p
  <2> QED  BY <1>1, <1>2, <1>3, <1>4, <2>1, <2>2, <2>3, RowIsGood
<1>7. CASE thread[t].proposal # 0
  <2>1. At(t, g, "keep")
    BY <1>7 DEF KeepFresh
  <2>2. /\ g \in Thread /\ g.record = thread[t].record /\ g.next = "publish"
        /\ g.sandbox = thread[t].sandbox /\ g.proposal = thread[t].proposal
        /\ g.fresh = p /\ g.reuse = thread[t].reuse
    BY <1>1 DEF Thread, Points
  <2> HIDE DEF g
  <2>3. Holds(g, tree, sessions, savedSessions)
    BY <1>1, <2>2 DEF Holds
  <2>4. /\ "keep" \in Points /\ "keep" \in Saving
        /\ g.next \notin Saving \union {"keep_fresh"}
        /\ CanBeAt(g, "publish", run, sessions, savedSessions')
    BY <1>5, <1>7, <2>2 DEF CanBeAt, Points, Saving, WorkerPoints, ProposalPoints
  <2>5. CanBeAt(g, IF "keep" \in Saving THEN g.next ELSE "keep",
                run, sessions, savedSessions')
    BY <2>2, <2>4
  <2> HIDE DEF p
  <2> QED  BY <1>2, <1>3, <1>4, <2>1, <2>3, <2>4, <2>5, RowIsGood
<1> QED  BY <1>6, <1>7

-----------------------------------------------------------------------------
(* The background worker.                                                  *)

\* Naming a status keeps a record's sandbox.
LEMMA StatusKeepsSandbox ==
  ASSUME NEW r \in RunRecord, NEW status
  PROVE  /\ HasSandbox([r EXCEPT !.status = status]) = HasSandbox(r)
         /\ HasSandbox([r EXCEPT !.status = status, !.pause = FALSE]) = HasSandbox(r)
         /\ \A state : HasSandbox(StoppedAt(r, state)) = HasSandbox(r)
         /\ HasSandbox(PauseRequested(r)) = HasSandbox(r)
         /\ HasSandbox(CancelRequested(r)) = HasSandbox(r)
         /\ HasSandbox(Prepared(r)) = HasSandbox(r)
  BY DEF HasSandbox, StoppedAt, PauseRequested, CancelRequested, Prepared, RunRecord

LEMMA LaunchIsGood ==
  ASSUME Good, NEW t \in Threads, Launch(t)  PROVE Good'
<1>1. /\ thread[t] \in Thread /\ Holds(thread[t], tree, sessions, savedSessions)
      /\ CanBeAt(thread[t], "launched", run, sessions, savedSessions)
  BY FrameIsGood DEF Launch, Step, Saving
<1>2. /\ Counted' /\ UNCHANGED <<saved, sessions, savedSessions, tree>>
      /\ Sound(run, tree, savedSessions) /\ run \in RunRecord
  BY CountsStay DEF Launch, Step, Good, Sound
<1>3. CASE thread[t].reuse
  <2> DEFINE f == [thread[t] EXCEPT !.sandbox = run.sandbox]
  <2>1. UpdateAndSave(t, run, f, "boundary") /\ HasSandbox(run)
    BY <1>1, <1>3 DEF Launch, CanBeAt
  <2>2. /\ f \in Thread /\ f.record = thread[t].record /\ f.sandbox = run.sandbox
        /\ f.proposal = thread[t].proposal /\ f.fresh = thread[t].fresh
    BY <1>1, <1>2 DEF Thread, RunRecord
  <2> HIDE DEF f
  <2>3. Holds(f, tree, sessions, savedSessions)
    BY <1>1, <1>2, <2>2 DEF Holds, Sound, HasSandbox
  <2>4. CanBeAt(f, "boundary", run, sessions, savedSessions)
    BY <1>1, <2>1, <2>2 DEF CanBeAt, WorkerPoints, ProposalPoints, HasSandbox
  <2>5. "boundary" \in Destinations
    BY DEF Destinations, Points, Saving
  <2> QED  BY <1>2, <2>1, <2>3, <2>4, <2>5, UpdatingIsGood
<1>4. CASE ~thread[t].reuse
  <2> DEFINE r == [run EXCEPT !.status = "creating_sandbox"]
  <2>1. UpdateAndSave(t, r, thread[t], "create")
    BY <1>4 DEF Launch
  <2>2. Sound(r, tree, savedSessions) /\ (HasSandbox(run) => HasSandbox(r))
    BY <1>2, OtherStatusIsSound, StatusKeepsSandbox DEF TaskRunStatuses, ActiveStatuses
  <2>3. CanBeAt(thread[t], "create", r, sessions, savedSessions)
    BY <1>1 DEF CanBeAt, WorkerPoints, ProposalPoints
  <2>4. "create" \in Destinations
    BY DEF Destinations, Points, Saving
  <2> HIDE DEF r
  <2> QED  BY <1>1, <1>2, <2>1, <2>2, <2>3, <2>4, UpdatingIsGood
<1> QED  BY <1>3, <1>4

LEMMA CreateSandboxIsGood ==
  ASSUME Good, NEW t \in Threads, CreateSandbox(t)  PROVE Good'
<1>1. /\ thread[t] \in Thread /\ Holds(thread[t], tree, sessions, savedSessions)
      /\ CanBeAt(thread[t], "create", run, sessions, savedSessions)
  BY FrameIsGood DEF CreateSandbox, Step, Saving
<1>2. /\ Counted' /\ UNCHANGED <<saved, sessions, savedSessions>>
      /\ Sound(run, tree, savedSessions) /\ Sound(saved, tree, savedSessions)
      /\ run \in RunRecord /\ tree \in Files
      /\ sessions \in [Proposals -> Session]
      /\ savedSessions \in [Proposals -> Session]
  BY CountsStay DEF CreateSandbox, Step, Good, Sound
<1>3. PICK s \in Sandboxes :
        /\ tree[s] = NoContent
        /\ tree' = [tree EXCEPT ![s] = 0]
        /\ UpdateAndSave(t, [run EXCEPT !.status = "creating_sandbox",
                                        !.sandbox = s],
                         [thread[t] EXCEPT !.sandbox = s], "ready")
  BY DEF CreateSandbox
<1> DEFINE r == [run EXCEPT !.status = "creating_sandbox", !.sandbox = s]
           f == [[thread[t] EXCEPT !.sandbox = s] EXCEPT !.next = "ready"]
<1>4. At(t, f, "save") /\ run' = r
  BY <1>3 DEF UpdateAndSave
<1>5. /\ r \in RunRecord /\ r.sandbox = s /\ s # 0 /\ s \in 0..MaxSandboxes
      /\ r.status = "creating_sandbox" /\ r.checkpoint = run.checkpoint
      /\ r.proposal = run.proposal
  <2>1. s # 0 /\ s \in 0..MaxSandboxes
    BY DEF Sandboxes
  <2>2. "creating_sandbox" \in TaskRunStatuses
    BY DEF TaskRunStatuses, ActiveStatuses
  <2> QED  BY <1>2, <2>1, <2>2 DEF RunRecord
<1>6. /\ f \in Thread /\ f.record = thread[t].record /\ f.sandbox = s
      /\ f.proposal = thread[t].proposal /\ f.fresh = thread[t].fresh
      /\ f.next = "ready"
  <2>1. "ready" \in Points
    BY DEF Points
  <2> HIDE DEF r
  <2> QED  BY <1>1, <1>5, <2>1 DEF Thread
<1>7. tree' \in Files /\ FilesGrow(tree, tree') /\ tree'[s] # NoContent
  BY <1>2, <1>3, TaskRunAssumption DEF Files, FilesGrow, Contents, NoContent
<1>8. /\ SessionsGrow(sessions, sessions') /\ AttemptsStay(sessions, sessions')
      /\ SessionsGrow(savedSessions, savedSessions')
  BY <1>2, NothingIsLost
<1> HIDE DEF r, f
<1>9. Sound(run', tree', savedSessions')
  <2>1. Sound(run, tree', savedSessions')
    BY <1>2, <1>7, <1>8, SoundStays
  <2> QED  BY <2>1, <1>4, <1>5, <1>7 DEF Sound, HasSandbox, HasProposal
<1>10. Sound(saved', tree', savedSessions')
  BY <1>2, <1>7, <1>8, SoundStays
<1>11. Holds(f, tree', sessions', savedSessions')
  <2>1. Holds(thread[t], tree', sessions', savedSessions')
    BY <1>1, <1>7, <1>8, HoldsStays
  <2> QED  BY <2>1, <1>6, <1>7 DEF Holds
<1>12. ASSUME NEW q \in Proposals
       PROVE  Placed(sessions'[q], tree') /\ Placed(savedSessions'[q], tree')
  BY <1>2, <1>7 DEF Good, Placed, FilesGrow, Session, Sandboxes
<1>13. "save" \in Points /\ "save" \in Saving /\ f.next \notin Saving \union {"keep_fresh"}
  BY <1>6 DEF Points, Saving
<1>14. CanBeAt(f, "ready", run', sessions', savedSessions')
  BY <1>1, <1>2, <1>5, <1>6 DEF CanBeAt, WorkerPoints, ProposalPoints
<1>15. CanBeAt(f, IF "save" \in Saving THEN f.next ELSE "save", run', sessions',
               savedSessions')
  BY <1>6, <1>13, <1>14
<1>16. /\ HasSandbox(run) => HasSandbox(run')
       /\ sessions' \in [Proposals -> Session]
       /\ savedSessions' \in [Proposals -> Session]
  BY <1>2, <1>4, <1>5 DEF HasSandbox
<1> QED  BY <1>2, <1>4, <1>6, <1>7, <1>8, <1>9, <1>10, <1>11, <1>12, <1>13, <1>15,
            <1>16, StepIsGood

LEMMA SandboxReadyIsGood ==
  ASSUME Good, NEW t \in Threads, SandboxReady(t)  PROVE Good'
<1>1. /\ Holds(thread[t], tree, sessions, savedSessions)
      /\ CanBeAt(thread[t], "ready", run, sessions, savedSessions)
  BY FrameIsGood DEF SandboxReady, Step, Saving
<1>2. /\ Counted' /\ UNCHANGED <<saved, sessions, savedSessions, tree>>
      /\ Sound(run, tree, savedSessions)
      /\ UpdateAndSave(t, run, thread[t], "boundary")
  BY CountsStay DEF SandboxReady, Step, Good
<1>3. CanBeAt(thread[t], "boundary", run, sessions, savedSessions)
  BY <1>1 DEF CanBeAt, WorkerPoints, ProposalPoints
<1>4. "boundary" \in Destinations
  BY DEF Destinations, Points, Saving
<1> QED  BY <1>1, <1>2, <1>3, <1>4, UpdatingIsGood

LEMMA BoundaryIsGood ==
  ASSUME Good, NEW t \in Threads, Boundary(t)  PROVE Good'
<1>1. /\ Holds(thread[t], tree, sessions, savedSessions)
      /\ CanBeAt(thread[t], "boundary", run, sessions, savedSessions)
  BY FrameIsGood DEF Boundary, Step, Saving
<1>2. /\ Counted' /\ UNCHANGED <<saved, sessions, savedSessions, tree>>
      /\ Sound(run, tree, savedSessions) /\ run \in RunRecord
  BY CountsStay DEF Boundary, Step, Good, Sound
<1>3. "idle" \in Destinations /\ "explore" \in Destinations
  BY DEF Destinations, Points, Saving
<1>4. /\ \A r : CanBeAt(thread[t], "idle", r, sessions, savedSessions)
      /\ \A r : CanBeAt(thread[t], "explore", r, sessions, savedSessions)
  BY <1>1 DEF CanBeAt, WorkerPoints, ProposalPoints
<1>5. CASE MustStop(run)
  <2> DEFINE r == StoppedAt(run, "exploring")
  <2>1. UpdateAndSave(t, r, thread[t], "idle")
    BY <1>5 DEF Boundary
  <2>2. Sound(r, tree, savedSessions) /\ (HasSandbox(run) => HasSandbox(r))
    BY <1>2, StoppingIsSound, StatusKeepsSandbox
  <2> HIDE DEF r
  <2> QED  BY <1>1, <1>2, <1>3, <1>4, <2>1, <2>2, UpdatingIsGood
<1>6. CASE ~MustStop(run)
  <2> DEFINE r == [run EXCEPT !.status = "exploring"]
  <2>1. UpdateAndSave(t, r, thread[t], "explore")
    BY <1>6 DEF Boundary
  <2>2. Sound(r, tree, savedSessions) /\ (HasSandbox(run) => HasSandbox(r))
    BY <1>2, OtherStatusIsSound, StatusKeepsSandbox DEF TaskRunStatuses, ActiveStatuses
  <2> HIDE DEF r
  <2> QED  BY <1>1, <1>2, <1>3, <1>4, <2>1, <2>2, UpdatingIsGood
<1> QED  BY <1>5, <1>6

\* A thread makes the next proposal in a sandbox that exists.
LEMMA MakingIsGood ==
  ASSUME Good, Counted', NEW t \in Threads, NEW p \in NextProposal,
         NEW s \in Sandboxes, tree[s] # NoContent, NEW attempt \in 0..MaxRepairs,
         NEW f \in Thread, f.fresh = p, f.record = thread[t].record,
         f.sandbox = thread[t].sandbox, f.proposal = thread[t].proposal,
         f.next = thread[t].next,
         sessions' = [sessions EXCEPT ![p] = NewSession(s, attempt)],
         At(t, f, "keep_fresh"), UNCHANGED <<run, saved, savedSessions, tree>>
  PROVE  Good'
<1> DEFINE new == NewSession(s, attempt)
<1>1. /\ tree \in Files /\ sessions \in [Proposals -> Session]
      /\ savedSessions \in [Proposals -> Session] /\ p \in Proposals
      /\ Sound(run, tree, savedSessions) /\ Sound(saved, tree, savedSessions)
  BY DEF Good, NextProposal
<1>2. tree[s] \in Contents /\ s \in 0..MaxSandboxes /\ s # 0
  BY <1>1 DEF Files, Sandboxes
<1>3. NoSession \in Session
  BY TaskRunAssumption DEF NoSession, Session, Contents
<1>4. new \in Session /\ new.made /\ new.sandbox = s
  BY <1>2, <1>3 DEF NewSession, Session
<1> HIDE DEF new
<1>5. ASSUME NEW q \in Proposals
      PROVE  /\ sessions'[q] = IF q = p THEN new ELSE sessions[q]
             /\ sessions[q].made => q # p
  BY <1>1 DEF NextProposal, new
<1>6. /\ SessionsGrow(sessions, sessions') /\ AttemptsStay(sessions, sessions')
      /\ SessionsGrow(savedSessions, savedSessions') /\ FilesGrow(tree, tree')
  BY <1>5, NothingIsLost DEF SessionsGrow, AttemptsStay, FilesGrow
<1>7. \A q \in Proposals : Placed(sessions'[q], tree') /\
                           Placed(savedSessions'[q], tree')
  BY <1>2, <1>4, <1>5 DEF Good, Placed
<1>8. sessions' \in [Proposals -> Session] /\ savedSessions' \in [Proposals -> Session]
  BY <1>1, <1>4 DEF new
<1>9. Holds(f, tree', sessions', savedSessions')
  <2>1. Holds(thread[t], tree', sessions', savedSessions')
    BY <1>6, FrameIsGood, HoldsStays
  <2>2. sessions'[p].made
    BY <1>1, <1>4, <1>5
  <2> QED  BY <2>1, <2>2 DEF Holds
<1>10. /\ f.next \notin Saving \union {"keep_fresh"} /\ "keep_fresh" \in Points
       /\ "keep_fresh" \notin Saving
  BY FrameIsGood DEF Points, Saving
<1>11. CanBeAt(f, "keep_fresh", run', sessions', savedSessions')
  BY <1>1 DEF CanBeAt, WorkerPoints, ProposalPoints, Proposals
<1>12. CanBeAt(f, IF "keep_fresh" \in Saving THEN f.next ELSE "keep_fresh", run',
               sessions', savedSessions')
  BY <1>10, <1>11
<1>13. /\ Sound(run', tree', savedSessions') /\ Sound(saved', tree', savedSessions')
       /\ tree' \in Files /\ (HasSandbox(run) => HasSandbox(run'))
  BY <1>1
<1> QED  BY <1>6, <1>7, <1>8, <1>9, <1>10, <1>12, <1>13, StepIsGood

LEMMA ExploreIsGood ==
  ASSUME Good, NEW t \in Threads, Explore(t)  PROVE Good'
<1>1. /\ thread[t] \in Thread /\ Holds(thread[t], tree, sessions, savedSessions)
      /\ CanBeAt(thread[t], "explore", run, sessions, savedSessions)
      /\ thread[t].next \notin Saving \union {"keep_fresh"}
  BY FrameIsGood DEF Explore, Step, Saving
<1>2. UNCHANGED <<run, saved, savedSessions, tree, restarts, requests>>
  BY DEF Explore, Step
<1>3. CASE \E p \in NextProposal :
             /\ sessions' = [sessions EXCEPT ![p] = NewSession(thread[t].sandbox, 0)]
             /\ At(t, [thread[t] EXCEPT !.fresh = p, !.outcome = "proposal"],
                   "keep_fresh")
             /\ UNCHANGED asked
  <2>1. PICK p \in NextProposal :
             /\ sessions' = [sessions EXCEPT ![p] = NewSession(thread[t].sandbox, 0)]
             /\ At(t, [thread[t] EXCEPT !.fresh = p, !.outcome = "proposal"],
                   "keep_fresh")
             /\ UNCHANGED asked
    BY <1>3
  <2> DEFINE f == [thread[t] EXCEPT !.fresh = p, !.outcome = "proposal"]
             s == thread[t].sandbox
  <2>2. s \in Sandboxes /\ tree[s] # NoContent
    BY <1>1 DEF CanBeAt, Holds, Thread, Sandboxes
  <2>3. p \in 0..MaxProposals /\ "proposal" \in Outcomes /\ 0 \in 0..MaxRepairs
    BY TaskRunAssumption DEF NextProposal, Proposals, Outcomes
  <2>4. /\ f \in Thread /\ f.fresh = p /\ f.record = thread[t].record
        /\ f.sandbox = thread[t].sandbox /\ f.proposal = thread[t].proposal
        /\ f.next = thread[t].next
    BY <1>1, <2>3 DEF Thread
  <2>5. Counted'
    BY <1>2, <2>1, CountsStay
  <2> HIDE DEF f
  <2>6. At(t, f, "keep_fresh")
    BY <2>1 DEF f
  <2> QED  BY <1>2, <2>1, <2>2, <2>3, <2>4, <2>5, <2>6, MakingIsGood
<1>4. CASE \E outcome \in {"approval", "input", "nothing"} :
             /\ asked' = (asked \/ outcome = "input")
             /\ At(t, [thread[t] EXCEPT !.outcome = outcome], "settle")
             /\ UNCHANGED sessions
  <2>1. PICK outcome \in {"approval", "input", "nothing"} :
             /\ asked' = (asked \/ outcome = "input")
             /\ At(t, [thread[t] EXCEPT !.outcome = outcome], "settle")
             /\ UNCHANGED sessions
    BY <1>4
  <2> DEFINE f == [thread[t] EXCEPT !.outcome = outcome]
  <2>2. /\ f \in Thread /\ f.fresh = thread[t].fresh /\ f.record = thread[t].record
        /\ f.sandbox = thread[t].sandbox /\ f.proposal = thread[t].proposal
        /\ f.next = thread[t].next /\ f.reuse = thread[t].reuse
    BY <1>1 DEF Thread, Outcomes
  <2>3. Counted'
    BY <1>2, <2>1 DEF Counted, Good
  <2> HIDE DEF f
  <2>4. At(t, f, "settle")
    BY <2>1 DEF f
  <2>5. Holds(f, tree, sessions, savedSessions)
    BY <1>1, <2>2 DEF Holds
  <2>6. /\ CanBeAt(f, "settle", run, sessions, savedSessions)
        /\ "settle" \in Points /\ "settle" \notin Saving
    BY <1>1, <2>2 DEF CanBeAt, WorkerPoints, ProposalPoints, Points, Saving
  <2>7. CanBeAt(f, IF "settle" \in Saving THEN f.next ELSE "settle", run, sessions,
                savedSessions)
    BY <2>6
  <2> QED  BY <1>1, <1>2, <2>1, <2>2, <2>3, <2>4, <2>5, <2>6, <2>7, GoingIsGood
<1> QED  BY <1>3, <1>4 DEF Explore

\* A thread that is done relies on nothing.
LEMMA CanBeDone ==
  ASSUME NEW f, NEW point, NEW r, NEW objects, NEW rows,
         CanBeAt(f, point, r, objects, rows), point # "keep_fresh"
  PROVE  /\ \A r2 : CanBeAt(f, "idle", r2, objects, rows)
         /\ "idle" \in Destinations
  BY DEF CanBeAt, WorkerPoints, ProposalPoints, Destinations, Points, Saving

LEMMA SettleIsGood ==
  ASSUME Good, NEW t \in Threads, Settle(t)  PROVE Good'
<1>1. /\ thread[t] \in Thread /\ Holds(thread[t], tree, sessions, savedSessions)
      /\ CanBeAt(thread[t], "settle", run, sessions, savedSessions)
  BY FrameIsGood DEF Settle, Step, Saving
<1>2. /\ Counted' /\ UNCHANGED <<saved, sessions, savedSessions, tree>>
      /\ Sound(run, tree, savedSessions) /\ run \in RunRecord
  BY CountsStay DEF Settle, Step, Good, Sound
<1> DEFINE named == [run EXCEPT !.proposal = thread[t].fresh]
<1>3. PICK exhausted \in BOOLEAN :
        UpdateAndSave(t, SettledRun(named, thread[t].outcome, exhausted), thread[t],
                      "idle")
  BY DEF Settle
<1>4. /\ thread[t].fresh \in 0..MaxProposals
      /\ thread[t].fresh # 0 => savedSessions[thread[t].fresh].made
  BY <1>1 DEF CanBeAt, Thread
<1>5. Sound(named, tree, savedSessions) /\ HasSandbox(named) = HasSandbox(run)
  BY <1>2, <1>4, NamingIsSound DEF HasSandbox, RunRecord
<1> HIDE DEF named
<1> DEFINE r == SettledRun(named, thread[t].outcome, exhausted)
<1>6. Sound(r, tree, savedSessions)
  BY <1>5, SettlingIsSound
<1>7. HasSandbox(run) => HasSandbox(r)
  BY <1>5 DEF SettledRun, StoppedAt, HasSandbox, Sound, RunRecord
<1>8. UpdateAndSave(t, r, thread[t], "idle")
  BY <1>3
<1> HIDE DEF r
<1>9. CanBeAt(thread[t], "idle", r, sessions, savedSessions) /\ "idle" \in Destinations
  BY <1>1, CanBeDone
<1> QED  BY <1>1, <1>2, <1>6, <1>7, <1>8, <1>9, UpdatingIsGood

\* A handler that names a status and saves the run is done.
LEMMA EndingIsGood ==
  ASSUME Good, NEW t \in Threads, NEW status, NEW point,
         status \in TaskRunStatuses \ {"pausing", "paused", "interrupted"},
         Step(t, point), point \notin Saving \union {"keep_fresh"},
         UpdateAndSave(t, [run EXCEPT !.status = status], thread[t], "idle"),
         UNCHANGED <<saved, sessions, savedSessions, tree, asked, restarts>>
  PROVE  Good'
<1> DEFINE r == [run EXCEPT !.status = status]
<1>1. /\ Holds(thread[t], tree, sessions, savedSessions)
      /\ CanBeAt(thread[t], point, run, sessions, savedSessions)
  BY FrameIsGood DEF Step
<1>2. /\ Counted' /\ Sound(run, tree, savedSessions) /\ run \in RunRecord
  BY CountsStay DEF Step, Good, Sound
<1>3. Sound(r, tree, savedSessions) /\ (HasSandbox(run) => HasSandbox(r))
  BY <1>2, OtherStatusIsSound, StatusKeepsSandbox
<1> HIDE DEF r
<1>4. CanBeAt(thread[t], "idle", r, sessions, savedSessions) /\ "idle" \in Destinations
  BY <1>1, CanBeDone
<1>5. UpdateAndSave(t, r, thread[t], "idle")
  BY DEF r
<1> QED  BY <1>1, <1>2, <1>3, <1>4, <1>5, UpdatingIsGood

LEMMA WorkerFailsIsGood ==
  ASSUME Good, NEW t \in Threads, WorkerFails(t)  PROVE Good'
<1> DEFINE point == thread[t].at
<1>1. /\ Step(t, point) /\ point \notin Saving \union {"keep_fresh"}
      /\ "failed" \in TaskRunStatuses \ {"pausing", "paused", "interrupted"}
      /\ UpdateAndSave(t, [run EXCEPT !.status = "failed"], thread[t], "idle")
      /\ UNCHANGED <<saved, sessions, savedSessions, tree, asked, restarts>>
  BY DEF WorkerFails, Step, Saving, TaskRunStatuses, ResumableStatuses
<1> HIDE DEF point
<1> QED  BY <1>1, EndingIsGood

-----------------------------------------------------------------------------
(* Apply.                                                                  *)

\* A request of a thread that is free about a proposal of this run.
LEMMA RequestFrame ==
  ASSUME Good, NEW t \in Threads, thread[t].at = "idle", NEW p \in Proposals,
         sessions[p].made, NEW f, f = [thread[t] EXCEPT !.proposal = p]
  PROVE  /\ Holds(f, tree, sessions, savedSessions)
         /\ f.next = "idle"
         /\ \A point, r : point \in {"capture", "revert", "repair"} =>
              CanBeAt(f, point, r, sessions, savedSessions)
<1>1. thread[t] = Idle /\ Holds(Idle, tree, sessions, savedSessions)
  BY FrameIsGood
<1>2. f \in Thread /\ p # 0
  BY <1>1, IdleIsTyped DEF Thread, Proposals
<1>3. /\ f.record = Queued /\ f.sandbox = 0 /\ f.proposal = p /\ f.fresh = 0
      /\ f.next = "idle"
  BY <1>1 DEF Idle
<1>4. Sound(Queued, tree, savedSessions)
  BY QueuedIsSound
<1>5. Holds(f, tree, sessions, savedSessions)
  BY <1>2, <1>3, <1>4 DEF Holds
<1>6. ASSUME NEW point, NEW r, point \in {"capture", "revert", "repair"}
      PROVE  CanBeAt(f, point, r, sessions, savedSessions)
  BY <1>2, <1>3, <1>6 DEF CanBeAt, WorkerPoints, ProposalPoints
<1> QED  BY <1>3, <1>5, <1>6

LEMMA IdleFrame ==
  ASSUME Good, NEW t \in Threads, thread[t].at = "idle"
  PROVE  /\ thread[t] = Idle
         /\ Holds(thread[t], tree, sessions, savedSessions)
         /\ \A r : CanBeAt(thread[t], "idle", r, sessions, savedSessions)
         /\ "idle" \in Destinations
  BY FrameIsGood DEF CanBeAt, Idle, WorkerPoints, ProposalPoints, Destinations,
                     Points, Saving

LEMMA ApplyIsGood ==
  ASSUME Good, NEW t \in Threads, Apply(t)  PROVE Good'
<1>1. thread[t].at = "idle" /\ UNCHANGED <<saved, sessions, savedSessions, tree>>
  BY DEF Apply, Request
<1>2. /\ Counted' /\ Sound(run, tree, savedSessions) /\ run \in RunRecord
  BY CountsStay DEF Apply, Good, Sound
<1>3. PICK p \in Proposals :
       /\ OfThisRun(p)
       /\ \/ UpdateAndSave(t, [run EXCEPT !.status = "awaiting_approval"],
                           thread[t], "idle")
          \/ UpdateAndSave(t, [run EXCEPT !.status = "applying"],
                           [thread[t] EXCEPT !.proposal = p], "capture")
  BY DEF Apply
<1>4. CASE UpdateAndSave(t, [run EXCEPT !.status = "awaiting_approval"], thread[t],
                         "idle")
  <2> DEFINE r == [run EXCEPT !.status = "awaiting_approval"]
  <2>1. Sound(r, tree, savedSessions) /\ (HasSandbox(run) => HasSandbox(r))
    BY <1>2, OtherStatusIsSound, StatusKeepsSandbox DEF TaskRunStatuses
  <2>2. UpdateAndSave(t, r, thread[t], "idle")
    BY <1>4
  <2> HIDE DEF r
  <2> QED  BY <1>1, <1>2, <2>1, <2>2, IdleFrame, UpdatingIsGood
<1>5. CASE UpdateAndSave(t, [run EXCEPT !.status = "applying"],
                         [thread[t] EXCEPT !.proposal = p], "capture")
  <2> DEFINE r == [run EXCEPT !.status = "applying"]
             f == [thread[t] EXCEPT !.proposal = p]
  <2>1. Sound(r, tree, savedSessions) /\ (HasSandbox(run) => HasSandbox(r))
    BY <1>2, OtherStatusIsSound, StatusKeepsSandbox DEF TaskRunStatuses, ActiveStatuses
  <2>2. UpdateAndSave(t, r, f, "capture") /\ sessions[p].made
    BY <1>3, <1>5 DEF OfThisRun
  <2>3. f = [thread[t] EXCEPT !.proposal = p]
    OBVIOUS
  <2> HIDE DEF r, f
  <2>4. /\ Holds(f, tree, sessions, savedSessions)
        /\ CanBeAt(f, "capture", r, sessions, savedSessions)
    BY <1>1, <2>2, <2>3, RequestFrame
  <2>5. "capture" \in Destinations
    BY DEF Destinations, Points, Saving
  <2> QED  BY <1>1, <1>2, <2>1, <2>2, <2>4, <2>5, UpdatingIsGood
<1> QED  BY <1>3, <1>4, <1>5

\* The points of a thread about its proposal ask no more than one another, but
\* for a repair's.
PlainPoints == {"check", "patch", "blocked", "validate", "conclude", "respond",
                "restore", "reverted", "repair", "stop_run", "raised", "report",
                "idle"}

LEMMA PlainPointsFollow ==
  ASSUME NEW f, NEW point, NEW r, NEW objects, NEW rows,
         CanBeAt(f, point, r, objects, rows), point \in ProposalPoints
  PROVE  \A next, r2 : next \in PlainPoints => CanBeAt(f, next, r2, objects, rows)
  BY DEF CanBeAt, PlainPoints, WorkerPoints, ProposalPoints

LEMMA PlainPointsAreDestinations ==
  /\ PlainPoints \subseteq Destinations /\ PlainPoints \subseteq Points
  /\ PlainPoints \intersect Saving = {} /\ ProposalPoints \intersect Saving = {}
  BY DEF PlainPoints, Destinations, Points, Saving, ProposalPoints

\* What a thread with a proposal of its own finds.
LEMMA ProposalFrame ==
  ASSUME Good, NEW t \in Threads, NEW point \in ProposalPoints, Step(t, point)
  PROVE  /\ Holds(thread[t], tree, sessions, savedSessions)
         /\ thread[t].next \notin Saving \union {"keep_fresh"}
         /\ thread[t] \in Thread
         /\ CanBeAt(thread[t], point, run, sessions, savedSessions)
         /\ \A next, r : next \in PlainPoints =>
              CanBeAt(thread[t], next, r, sessions, savedSessions)
         /\ thread[t].proposal \in Proposals
         /\ sessions[thread[t].proposal] \in Session
         /\ sessions[thread[t].proposal].made
         /\ sessions[thread[t].proposal].sandbox \in Sandboxes
         /\ Content(t) \in Contents
<1>1. thread[t].at = point /\ point \notin Saving
  BY PlainPointsAreDestinations DEF Step
<1>2. CanBeAt(thread[t], point, run, sessions, savedSessions)
  BY <1>1, FrameIsGood
<1>3. thread[t].proposal # 0
  BY <1>2 DEF CanBeAt
<1>4. /\ thread[t].proposal \in Proposals
      /\ sessions[thread[t].proposal] \in Session
      /\ sessions[thread[t].proposal].made
      /\ sessions[thread[t].proposal].sandbox \in Sandboxes
      /\ tree[sessions[thread[t].proposal].sandbox] # NoContent
  BY <1>3, FrameIsGood DEF Placed, Session, Sandboxes
<1>5. Content(t) \in Contents
  BY <1>4 DEF Content, Good, Files
<1> QED  BY <1>2, <1>4, <1>5, PlainPointsFollow, FrameIsGood

\* Moving between such points, perhaps after noting an outcome or a content.
LEMMA MovingIsGood ==
  ASSUME Good, NEW t \in Threads, NEW point \in ProposalPoints, Step(t, point),
         NEW next \in PlainPoints, NEW f \in Thread, At(t, f, next),
         f.record = thread[t].record, f.sandbox = thread[t].sandbox,
         f.proposal = thread[t].proposal, f.fresh = thread[t].fresh,
         f.next = thread[t].next,
         UNCHANGED <<run, saved, sessions, savedSessions, tree, asked, restarts>>
  PROVE  Good'
<1>1. /\ Holds(thread[t], tree, sessions, savedSessions)
      /\ thread[t].next \notin Saving \union {"keep_fresh"}
      /\ CanBeAt(thread[t], next, run, sessions, savedSessions)
  BY ProposalFrame
<1>2. Holds(f, tree, sessions, savedSessions)
  BY <1>1 DEF Holds
<1>3. CanBeAt(f, next, run, sessions, savedSessions)
  BY <1>1 DEF CanBeAt, PlainPoints
<1>4. next \in Points /\ next \notin Saving
  BY PlainPointsAreDestinations
<1>5. CanBeAt(f, IF next \in Saving THEN f.next ELSE next, run, sessions,
              savedSessions)
  BY <1>3, <1>4
<1>6. Counted'
  BY CountsStay DEF Step
<1> QED  BY <1>1, <1>2, <1>4, <1>5, <1>6, GoingIsGood

LEMMA GoingOnIsGood ==
  ASSUME Good, NEW t \in Threads, NEW point \in ProposalPoints, Step(t, point),
         NEW next \in PlainPoints, GoOn(t, next),
         UNCHANGED <<run, saved, sessions, savedSessions, tree, asked, restarts>>
  PROVE  Good'
<1>1. thread[t] \in Thread /\ At(t, thread[t], next)
  BY FrameIsGood DEF GoOn
<1> QED  BY <1>1, MovingIsGood

\* A thread with a proposal updates the run and saves it.
LEMMA UpdatingOnIsGood ==
  ASSUME Good, NEW t \in Threads, NEW point \in ProposalPoints, Step(t, point),
         NEW next \in PlainPoints, NEW record, UpdateAndSave(t, record, thread[t], next),
         Sound(record, tree, savedSessions), HasSandbox(run) => HasSandbox(record),
         UNCHANGED <<saved, sessions, savedSessions, tree, asked, restarts>>
  PROVE  Good'
<1>1. /\ Holds(thread[t], tree, sessions, savedSessions)
      /\ CanBeAt(thread[t], next, record, sessions, savedSessions)
      /\ next \in Destinations
  BY ProposalFrame, PlainPointsAreDestinations
<1>2. Counted'
  BY CountsStay DEF Step
<1> QED  BY <1>1, <1>2, UpdatingIsGood

LEMMA NamingStatusIsGood ==
  ASSUME Good, NEW t \in Threads, NEW point \in ProposalPoints, Step(t, point),
         NEW next \in PlainPoints,
         NEW status, status \in TaskRunStatuses \ {"pausing", "paused", "interrupted"},
         UpdateAndSave(t, [run EXCEPT !.status = status], thread[t], next),
         UNCHANGED <<saved, sessions, savedSessions, tree, asked, restarts>>
  PROVE  Good'
<1> DEFINE r == [run EXCEPT !.status = status]
<1>1. Sound(run, tree, savedSessions) /\ run \in RunRecord
  BY DEF Good, Sound
<1>2. Sound(r, tree, savedSessions) /\ (HasSandbox(run) => HasSandbox(r))
  BY <1>1, OtherStatusIsSound, StatusKeepsSandbox
<1>3. UpdateAndSave(t, r, thread[t], next)
  OBVIOUS
<1> HIDE DEF r
<1> QED  BY <1>2, <1>3, UpdatingOnIsGood

LEMMA StoppingIsGood ==
  ASSUME Good, NEW t \in Threads, NEW point \in ProposalPoints, Step(t, point),
         NEW next \in PlainPoints, NEW state,
         UpdateAndSave(t, StoppedAt(run, state), thread[t], next),
         UNCHANGED <<saved, sessions, savedSessions, tree, asked, restarts>>
  PROVE  Good'
<1> DEFINE r == StoppedAt(run, state)
<1>1. Sound(run, tree, savedSessions) /\ run \in RunRecord
  BY DEF Good, Sound
<1>2. Sound(r, tree, savedSessions) /\ (HasSandbox(run) => HasSandbox(r))
  BY <1>1, StoppingIsSound, StatusKeepsSandbox
<1>3. UpdateAndSave(t, r, thread[t], next)
  OBVIOUS
<1> HIDE DEF r
<1> QED  BY <1>2, <1>3, UpdatingOnIsGood

\* A thread keeps the session of its proposal as it is.
LEMMA KeepingIsGood ==
  ASSUME Good, NEW t \in Threads, NEW point \in ProposalPoints, Step(t, point),
         NEW next \in PlainPoints, NEW f, f = thread[t],
         At(t, [f EXCEPT !.next = next], "keep"),
         UNCHANGED <<run, saved, sessions, savedSessions, tree, asked, restarts>>
  PROVE  Good'
<1> DEFINE g == [f EXCEPT !.next = next]
<1>1. /\ Holds(f, tree, sessions, savedSessions) /\ f \in Thread
      /\ CanBeAt(f, next, run, sessions, savedSessions)
      /\ next \in Destinations
  BY ProposalFrame, PlainPointsAreDestinations
<1>2. /\ g \in Thread /\ g.next = next /\ g.record = f.record
      /\ g.sandbox = f.sandbox /\ g.proposal = f.proposal
      /\ g.fresh = f.fresh /\ g.reuse = f.reuse
  BY <1>1 DEF Thread, Destinations
<1>3. At(t, g, "keep")
  OBVIOUS
<1> HIDE DEF g
<1>4. Holds(g, tree, sessions, savedSessions)
  BY <1>1, <1>2 DEF Holds
<1>5. CanBeAt(g, next, run, sessions, savedSessions)
  BY <1>1, <1>2 DEF CanBeAt
<1>6. /\ "keep" \in Points /\ "keep" \in Saving
      /\ g.next \notin Saving \union {"keep_fresh"}
  BY <1>1, <1>2 DEF Points, Saving, Destinations
<1>7. CanBeAt(g, IF "keep" \in Saving THEN g.next ELSE "keep", run, sessions,
              savedSessions)
  BY <1>2, <1>5, <1>6
<1>8. Counted'
  BY CountsStay DEF Step
<1> QED  BY <1>3, <1>4, <1>6, <1>7, <1>8, GoingIsGood

LEMMA CaptureIsGood ==
  ASSUME Good, NEW t \in Threads, Capture(t)  PROVE Good'
<1> DEFINE f    == [thread[t] EXCEPT !.original = Content(t)]
           next == IF Structured[thread[t].proposal] THEN "check" ELSE "patch"
<1>1. /\ Step(t, "capture") /\ "capture" \in ProposalPoints
      /\ UNCHANGED <<run, saved, sessions, savedSessions, tree, asked, restarts>>
      /\ At(t, f, next)
  BY DEF Capture, ProposalPoints
<1>2. thread[t] \in Thread /\ Content(t) \in Contents
  BY <1>1, ProposalFrame
<1>3. /\ f \in Thread /\ f.record = thread[t].record /\ f.next = thread[t].next
      /\ f.sandbox = thread[t].sandbox /\ f.proposal = thread[t].proposal
      /\ f.fresh = thread[t].fresh
  BY <1>2 DEF Thread
<1>4. next \in PlainPoints
  BY DEF PlainPoints
<1> HIDE DEF f, next
<1> QED  BY <1>1, <1>3, <1>4, MovingIsGood

LEMMA ApplyFailsIsGood ==
  ASSUME Good, NEW t \in Threads, NEW point \in ProposalPoints, Step(t, point),
         ApplyFails(t), UNCHANGED <<saved, savedSessions, asked, restarts>>
  PROVE  Good'
<1>1. /\ "failed" \in TaskRunStatuses \ {"pausing", "paused", "interrupted"}
      /\ "idle" \in PlainPoints
  BY DEF TaskRunStatuses, ResumableStatuses, PlainPoints
<1>2. /\ UpdateAndSave(t, [run EXCEPT !.status = "failed"], thread[t], "idle")
      /\ UNCHANGED <<saved, sessions, savedSessions, tree, asked, restarts>>
  BY DEF ApplyFails
<1> QED  BY <1>1, <1>2, NamingStatusIsGood

LEMMA CheckHashIsGood ==
  ASSUME Good, NEW t \in Threads, CheckHash(t)  PROVE Good'
<1>1. /\ Step(t, "check") /\ "check" \in ProposalPoints /\ "patch" \in PlainPoints
      /\ UNCHANGED <<saved, savedSessions, asked, restarts>>
  BY DEF CheckHash, ProposalPoints, PlainPoints
<1>2. CASE Conflicts(t)
  <2>1. ApplyFails(t)
    BY <1>2 DEF CheckHash
  <2> QED  BY <1>1, <2>1, ApplyFailsIsGood
<1>3. CASE ~Conflicts(t)
  <2>1. /\ GoOn(t, "patch")
        /\ UNCHANGED <<run, saved, sessions, savedSessions, tree, asked, restarts>>
    BY <1>3 DEF CheckHash
  <2> QED  BY <1>1, <2>1, GoingOnIsGood
<1> QED  BY <1>2, <1>3

LEMMA EditsConflictIsGood ==
  ASSUME Good, NEW t \in Threads, EditsConflict(t)  PROVE Good'
<1>1. /\ Step(t, "patch") /\ "patch" \in ProposalPoints /\ ApplyFails(t)
      /\ UNCHANGED <<saved, savedSessions, asked, restarts>>
  BY DEF EditsConflict, ProposalPoints
<1> QED  BY <1>1, ApplyFailsIsGood

\* A file of the sandbox of a session is written.
LEMMA WritingGrows ==
  ASSUME Good, NEW t \in Threads, NEW point \in ProposalPoints, Step(t, point),
         NEW content \in Contents, WriteFile(t, content)
  PROVE  tree' \in Files /\ FilesGrow(tree, tree')
<1> DEFINE s == sessions[thread[t].proposal].sandbox
<1>1. s \in Sandboxes /\ tree \in Files
  BY ProposalFrame DEF Good
<1>2. tree' = [tree EXCEPT ![s] = content]
  BY DEF WriteFile
<1>3. content # NoContent
  BY TaskRunAssumption DEF Contents, NoContent
<1> HIDE DEF s
<1> QED  BY <1>1, <1>2, <1>3 DEF Files, FilesGrow

LEMMA WriteEditsIsGood ==
  ASSUME Good, NEW t \in Threads, WriteEdits(t)  PROVE Good'
<1> DEFINE p       == thread[t].proposal
           session == [sessions[p] EXCEPT !.applied = TRUE, !.reverted = FALSE,
                         !.rollback = IF Content(t) = p THEN NoContent
                                      ELSE thread[t].original]
<1>1. /\ Step(t, "patch") /\ "patch" \in ProposalPoints
      /\ UNCHANGED <<saved, savedSessions, asked, restarts>>
      /\ WriteFile(t, p)
      /\ Sound(run, tree, savedSessions) /\ run \in RunRecord
      /\ sessions \in [Proposals -> Session]
  BY DEF WriteEdits, ProposalPoints, Good, Sound
<1>2. /\ Holds(thread[t], tree, sessions, savedSessions) /\ thread[t] \in Thread
      /\ \A next, r : next \in PlainPoints =>
           CanBeAt(thread[t], next, r, sessions, savedSessions)
      /\ p \in Proposals /\ sessions[p] \in Session /\ sessions[p].made
  BY <1>1, ProposalFrame
<1>3. tree' \in Files /\ FilesGrow(tree, tree')
  <2>1. p \in Contents
    BY <1>2 DEF Proposals, Contents
  <2> QED  BY <1>1, <2>1, WritingGrows
<1>4. sessions' = [sessions EXCEPT ![p] = session]
  <2>1. sessions' = [sessions EXCEPT
           ![p].applied = TRUE, ![p].reverted = FALSE,
           ![p].rollback = IF Content(t) = p THEN NoContent
                           ELSE thread[t].original]
    BY DEF WriteEdits
  <2> QED  BY <1>1, <1>2, <2>1 DEF Session
<1>5. /\ session \in Session /\ session.made /\ session.sandbox = sessions[p].sandbox
      /\ session.attempt = sessions[p].attempt
  BY <1>2 DEF Session, Thread
<1>6. Counted'
  BY <1>1, CountsStay DEF Step
<1>7. PlainPoints \subseteq Destinations
  BY PlainPointsAreDestinations
<1> HIDE DEF session
<1>8. CASE HasValidation
  <2> DEFINE r == [run EXCEPT !.status = "validating"]
  <2>1. Sound(r, tree, savedSessions) /\ (HasSandbox(run) => HasSandbox(r))
    BY <1>1, OtherStatusIsSound, StatusKeepsSandbox DEF TaskRunStatuses, ActiveStatuses
  <2>2. run' = r /\ At(t, [thread[t] EXCEPT !.next = "validate"], "save")
    BY <1>8 DEF WriteEdits, UpdateAndSave
  <2>3. "validate" \in PlainPoints /\ "save" \in {"save", "keep"}
    BY DEF PlainPoints
  <2>4. /\ Sound(run', tree, savedSessions) /\ (HasSandbox(run) => HasSandbox(run'))
        /\ CanBeAt(thread[t], "validate", run', sessions, savedSessions)
    BY <1>2, <2>1, <2>2, <2>3
  <2> HIDE DEF p, r
  <2> QED  BY <1>1, <1>2, <1>3, <1>4, <1>5, <1>6, <1>7, <2>2, <2>3, <2>4,
              ChangingIsGood
<1>9. CASE ~HasValidation
  <2>1. run' = run /\ At(t, [thread[t] EXCEPT !.next = "conclude"], "keep")
    BY <1>9 DEF WriteEdits
  <2>2. "conclude" \in PlainPoints /\ "keep" \in {"save", "keep"}
    BY DEF PlainPoints
  <2>3. /\ Sound(run', tree, savedSessions) /\ (HasSandbox(run) => HasSandbox(run'))
        /\ CanBeAt(thread[t], "conclude", run', sessions, savedSessions)
    BY <1>1, <1>2, <2>1, <2>2
  <2> HIDE DEF p
  <2> QED  BY <1>1, <1>2, <1>3, <1>4, <1>5, <1>6, <1>7, <2>1, <2>2, <2>3,
              ChangingIsGood
<1> QED  BY <1>8, <1>9

LEMMA SafetyBlocksIsGood ==
  ASSUME Good, NEW t \in Threads, SafetyBlocks(t)  PROVE Good'
<1> DEFINE f == thread[t]
<1>1. /\ Step(t, "patch") /\ "patch" \in ProposalPoints /\ "blocked" \in PlainPoints
      /\ At(t, [f EXCEPT !.next = "blocked"], "keep") /\ f = thread[t]
      /\ UNCHANGED <<run, saved, sessions, savedSessions, tree, asked, restarts>>
  BY DEF SafetyBlocks, ProposalPoints, PlainPoints
<1> HIDE DEF f
<1> QED  BY <1>1, KeepingIsGood

LEMMA BlockedIsGood ==
  ASSUME Good, NEW t \in Threads, Blocked(t)  PROVE Good'
<1>1. /\ Step(t, "blocked") /\ "blocked" \in ProposalPoints /\ "idle" \in PlainPoints
      /\ UpdateAndSave(t, [run EXCEPT !.status = "awaiting_approval"], thread[t],
                       "idle")
      /\ UNCHANGED <<saved, sessions, savedSessions, tree, asked, restarts>>
      /\ "awaiting_approval" \in
           TaskRunStatuses \ {"pausing", "paused", "interrupted"}
  BY DEF Blocked, ProposalPoints, PlainPoints, TaskRunStatuses
<1> QED  BY <1>1, NamingStatusIsGood

\* A thread changes its session, keeping where it was made and its attempt.
LEMMA SessionIsGood ==
  ASSUME Good, NEW t \in Threads, NEW point \in ProposalPoints, Step(t, point),
         NEW next \in PlainPoints, NEW p, p = thread[t].proposal,
         NEW session \in Session, session.made,
         session.sandbox = sessions[p].sandbox,
         session.attempt = sessions[p].attempt,
         NEW f \in Thread, f.record = thread[t].record, f.sandbox = thread[t].sandbox,
         f.proposal = thread[t].proposal, f.fresh = thread[t].fresh,
         UpdateAndKeep(t, p, session, f, next),
         UNCHANGED <<run, saved, savedSessions, asked, restarts>>,
         tree' \in Files, FilesGrow(tree, tree')
  PROVE  Good'
<1>1. /\ Holds(thread[t], tree, sessions, savedSessions)
      /\ \A r : CanBeAt(thread[t], next, r, sessions, savedSessions)
      /\ p \in Proposals /\ sessions[p].made
  BY ProposalFrame
<1>2. Holds(f, tree, sessions, savedSessions)
  BY <1>1 DEF Holds
<1>3. \A r : CanBeAt(f, next, r, sessions, savedSessions)
  BY <1>1 DEF CanBeAt, PlainPoints
<1>4. /\ sessions' = [sessions EXCEPT ![p] = session]
      /\ At(t, [f EXCEPT !.next = next], "keep") /\ "keep" \in {"save", "keep"}
      /\ next \in Destinations
  BY PlainPointsAreDestinations DEF UpdateAndKeep
<1>5. Sound(run', tree, savedSessions) /\ (HasSandbox(run) => HasSandbox(run'))
  BY DEF Good
<1>6. Counted'
  BY CountsStay DEF Step
<1>7. CanBeAt(f, next, run', sessions, savedSessions)
  BY <1>3
<1> QED  BY <1>1, <1>2, <1>4, <1>5, <1>6, <1>7, ChangingIsGood

LEMMA ValidateIsGood ==
  ASSUME Good, NEW t \in Threads, Validate(t)  PROVE Good'
<1> DEFINE p == thread[t].proposal
<1>1. /\ Step(t, "validate") /\ "validate" \in ProposalPoints
      /\ "conclude" \in PlainPoints
      /\ UNCHANGED <<run, saved, savedSessions, tree, asked, restarts>>
  BY DEF Validate, ProposalPoints, PlainPoints
<1>2. /\ thread[t] \in Thread /\ sessions[p] \in Session /\ sessions[p].made
  BY <1>1, ProposalFrame
<1>3. PICK passed \in BOOLEAN, stops \in BOOLEAN :
        UpdateAndKeep(t, p,
          [[sessions[p] EXCEPT !.feedback = ~passed] EXCEPT !.stopped = stops],
          [thread[t] EXCEPT !.outcome = IF passed THEN "passed" ELSE "failed"],
          "conclude")
  <2>1. PICK passed \in BOOLEAN, repeated \in BOOLEAN :
         LET session == [sessions[p] EXCEPT !.feedback = ~passed]
             stops   == IF passed THEN session.stopped /\ session.attempt = 0
                        ELSE repeated \/ RepairsExhausted(session)
         IN  UpdateAndKeep(t, p, [session EXCEPT !.stopped = stops],
               [thread[t] EXCEPT !.outcome = IF passed THEN "passed" ELSE "failed"],
               "conclude")
    BY DEF Validate
  <2> DEFINE session == [sessions[p] EXCEPT !.feedback = ~passed]
             stops   == IF passed THEN session.stopped /\ session.attempt = 0
                        ELSE repeated \/ RepairsExhausted(session)
  <2>2. UpdateAndKeep(t, p, [session EXCEPT !.stopped = stops],
               [thread[t] EXCEPT !.outcome = IF passed THEN "passed" ELSE "failed"],
               "conclude")
    BY <2>1
  <2>3. stops \in BOOLEAN
    BY <1>2 DEF RepairsExhausted, Session
  <2> QED  BY <2>2, <2>3
<1> DEFINE f       == [thread[t] EXCEPT !.outcome = IF passed THEN "passed"
                                                    ELSE "failed"]
           session == [[sessions[p] EXCEPT !.feedback = ~passed]
                         EXCEPT !.stopped = stops]
<1>4. /\ f \in Thread /\ f.record = thread[t].record /\ f.fresh = thread[t].fresh
      /\ f.sandbox = thread[t].sandbox /\ f.proposal = thread[t].proposal
  BY <1>2 DEF Thread, Outcomes
<1>5. /\ session \in Session /\ session.made
      /\ session.sandbox = sessions[p].sandbox
      /\ session.attempt = sessions[p].attempt
  BY <1>2 DEF Session
<1>6. UpdateAndKeep(t, p, session, f, "conclude")
  BY <1>3
<1>7. tree' \in Files /\ FilesGrow(tree, tree')
  BY <1>1 DEF Good, FilesGrow
<1>8. p = thread[t].proposal
  OBVIOUS
<1> HIDE DEF f, session, p
<1> QED  BY <1>1, <1>4, <1>5, <1>6, <1>7, <1>8, SessionIsGood

LEMMA ConcludeIsGood ==
  ASSUME Good, NEW t \in Threads, Conclude(t)  PROVE Good'
<1>1. /\ Step(t, "conclude") /\ "conclude" \in ProposalPoints
      /\ "idle" \in PlainPoints /\ "respond" \in PlainPoints
      /\ UNCHANGED <<saved, sessions, savedSessions, tree, asked, restarts>>
      /\ Sound(run, tree, savedSessions) /\ run \in RunRecord
  BY DEF Conclude, ProposalPoints, PlainPoints, Good, Sound
<1>2. PICK status \in Conclusions(t) :
        \/ UpdateAndSave(t, StoppedAt(run, "repair_pending"), thread[t], "idle")
        \/ UpdateAndSave(t, [run EXCEPT !.status = status, !.pause = FALSE], thread[t],
                         IF status = "diagnosing" THEN "respond" ELSE "idle")
  BY DEF Conclude
<1>3. CASE UpdateAndSave(t, StoppedAt(run, "repair_pending"), thread[t], "idle")
  BY <1>1, <1>3, StoppingIsGood
<1>4. CASE UpdateAndSave(t, [run EXCEPT !.status = status, !.pause = FALSE], thread[t],
                         IF status = "diagnosing" THEN "respond" ELSE "idle")
  <2> DEFINE r    == [run EXCEPT !.status = status, !.pause = FALSE]
             next == IF status = "diagnosing" THEN "respond" ELSE "idle"
  <2>1. status \in TaskRunStatuses \ {"pausing", "paused", "interrupted"}
    BY DEF Conclusions, TaskRunStatuses, ActiveStatuses, ResumableStatuses
  <2>2. Sound(r, tree, savedSessions) /\ (HasSandbox(run) => HasSandbox(r))
    BY <1>1, <2>1, OtherStatusIsSound, StatusKeepsSandbox
  <2>3. UpdateAndSave(t, r, thread[t], next) /\ next \in PlainPoints
    BY <1>1, <1>4
  <2> HIDE DEF r, next
  <2> QED  BY <1>1, <2>2, <2>3, UpdatingOnIsGood
<1> QED  BY <1>2, <1>3, <1>4

LEMMA RespondIsGood ==
  ASSUME Good, NEW t \in Threads, Respond(t)  PROVE Good'
<1> DEFINE f == [thread[t] EXCEPT !.auto = TRUE, !.outcome = "none", !.original = 0]
<1>1. /\ Step(t, "respond") /\ "respond" \in ProposalPoints
      /\ "repair" \in PlainPoints /\ At(t, f, "repair")
      /\ UNCHANGED <<run, saved, sessions, savedSessions, tree, asked, restarts>>
  BY DEF Respond, ProposalPoints, PlainPoints
<1>2. thread[t] \in Thread /\ 0 \in Contents /\ "none" \in Outcomes
  BY <1>1, ProposalFrame, TaskRunAssumption DEF Contents, Outcomes
<1>3. /\ f \in Thread /\ f.record = thread[t].record /\ f.next = thread[t].next
      /\ f.sandbox = thread[t].sandbox /\ f.proposal = thread[t].proposal
      /\ f.fresh = thread[t].fresh
  BY <1>2 DEF Thread
<1> HIDE DEF f
<1> QED  BY <1>1, <1>3, MovingIsGood

LEMMA ClientGoneIsGood ==
  ASSUME Good, NEW t \in Threads, ClientGone(t)  PROVE Good'
<1>1. /\ Step(t, "respond") /\ "respond" \in ProposalPoints
      /\ "idle" \in PlainPoints /\ GoOn(t, "idle")
      /\ UNCHANGED <<run, saved, sessions, savedSessions, tree, asked, restarts>>
  BY DEF ClientGone, ProposalPoints, PlainPoints
<1> QED  BY <1>1, GoingOnIsGood

-----------------------------------------------------------------------------
(* Revert.                                                                 *)

\* A request about a proposal that changes nothing before its first check.
LEMMA RequestIsGood ==
  ASSUME Good, NEW t \in Threads, Request(t), NEW p \in Proposals, OfThisRun(p),
         NEW f, f = [thread[t] EXCEPT !.proposal = p],
         NEW next \in {"revert", "repair"}, At(t, f, next),
         UNCHANGED <<run, saved, sessions, savedSessions, tree, asked, restarts>>
  PROVE  Good'
<1>1. thread[t].at = "idle" /\ sessions[p].made
  BY DEF Request, OfThisRun
<1>2. /\ Holds(f, tree, sessions, savedSessions) /\ f.next = "idle"
      /\ CanBeAt(f, next, run, sessions, savedSessions)
  <2>1. /\ Holds(f, tree, sessions, savedSessions)
        /\ f.next = "idle"
        /\ \A point, r : point \in {"capture", "revert", "repair"} =>
             CanBeAt(f, point, r, sessions, savedSessions)
    <3>1. f = [thread[t] EXCEPT !.proposal = p]
      OBVIOUS
    <3>2. \A g : g = [thread[t] EXCEPT !.proposal = p] =>
            /\ Holds(g, tree, sessions, savedSessions)
            /\ g.next = "idle"
            /\ \A point, r : point \in {"capture", "revert", "repair"} =>
                 CanBeAt(g, point, r, sessions, savedSessions)
      BY <1>1, RequestFrame
    <3> QED  BY <3>1, <3>2
  <2>2. next \in {"capture", "revert", "repair"}
    OBVIOUS
  <2> QED  BY <2>1, <2>2
<1>3. next \in Points /\ next \notin Saving /\ f.next \notin Saving \union {"keep_fresh"}
  BY <1>2 DEF Points, Saving
<1>4. CanBeAt(f, IF next \in Saving THEN f.next ELSE next, run, sessions,
              savedSessions)
  BY <1>2, <1>3
<1>5. Counted'
  BY CountsStay
<1> QED  BY <1>2, <1>3, <1>4, <1>5, GoingIsGood

LEMMA RevertIsGood ==
  ASSUME Good, NEW t \in Threads, Revert(t)  PROVE Good'
<1>1. PICK p \in Proposals :
        OfThisRun(p) /\ At(t, [thread[t] EXCEPT !.proposal = p], "revert")
  BY DEF Revert
<1> DEFINE f == [thread[t] EXCEPT !.proposal = p]
<1>2. /\ Request(t) /\ f = [thread[t] EXCEPT !.proposal = p]
      /\ At(t, f, "revert") /\ "revert" \in {"revert", "repair"}
      /\ UNCHANGED <<run, saved, sessions, savedSessions, tree, asked, restarts>>
  BY <1>1 DEF Revert
<1> HIDE DEF f
<1> QED  BY <1>1, <1>2, RequestIsGood

LEMMA CheckRevertIsGood ==
  ASSUME Good, NEW t \in Threads, CheckRevert(t)  PROVE Good'
<1> DEFINE g        == thread[t]
           rollback == sessions[thread[t].proposal].rollback
           f        == [thread[t] EXCEPT !.original = rollback]
<1>1. /\ Step(t, "revert") /\ "revert" \in ProposalPoints
      /\ "restore" \in PlainPoints /\ "idle" \in PlainPoints
      /\ UNCHANGED <<run, saved, sessions, savedSessions, tree, asked, restarts>>
      /\ g = thread[t]
  BY DEF CheckRevert, ProposalPoints, PlainPoints
<1>2. At(t, f, "restore") \/ At(t, [g EXCEPT !.next = "idle"], "keep")
  <2>1. CASE rollback = NoContent \/ Content(t) = thread[t].proposal
    BY <2>1 DEF CheckRevert
  <2>2. CASE ~(rollback = NoContent \/ Content(t) = thread[t].proposal)
    BY <2>2 DEF CheckRevert
  <2> QED  BY <2>1, <2>2
<1>3. CASE At(t, f, "restore")
  <2>1. thread[t] \in Thread /\ rollback \in Contents \union {NoContent}
    BY <1>1, ProposalFrame DEF Session
  <2>2. /\ f \in Thread /\ f.record = thread[t].record /\ f.next = thread[t].next
        /\ f.sandbox = thread[t].sandbox /\ f.proposal = thread[t].proposal
        /\ f.fresh = thread[t].fresh
    BY <2>1 DEF Thread
  <2> HIDE DEF f
  <2> QED  BY <1>1, <1>3, <2>2, MovingIsGood
<1>4. CASE At(t, [g EXCEPT !.next = "idle"], "keep")
  <2> HIDE DEF g
  <2> QED  BY <1>1, <1>4, KeepingIsGood
<1> QED  BY <1>2, <1>3, <1>4

LEMMA RestoreIsGood ==
  ASSUME Good, NEW t \in Threads, Restore(t)  PROVE Good'
<1> DEFINE p       == thread[t].proposal
           session == [sessions[p] EXCEPT !.applied = FALSE, !.reverted = TRUE,
                                          !.feedback = FALSE]
           f       == thread[t]
<1>1. /\ Step(t, "restore") /\ "restore" \in ProposalPoints
      /\ "reverted" \in PlainPoints /\ p = thread[t].proposal
      /\ UpdateAndKeep(t, p, session, f, "reverted")
      /\ UNCHANGED <<run, saved, savedSessions, asked, restarts>>
  BY DEF Restore, ProposalPoints, PlainPoints
<1>2. f \in Thread /\ sessions[p] \in Session /\ sessions[p].made
  BY <1>1, ProposalFrame
<1>3. /\ session \in Session /\ session.made
      /\ session.sandbox = sessions[p].sandbox
      /\ session.attempt = sessions[p].attempt
  BY <1>2 DEF Session
<1>4. tree' \in Files /\ FilesGrow(tree, tree')
  <2>1. CASE thread[t].original = NoContent
    BY <2>1 DEF Restore, Good, FilesGrow
  <2>2. CASE thread[t].original # NoContent
    <3>1. thread[t].original \in Contents /\ WriteFile(t, thread[t].original)
      BY <1>2, <2>2 DEF Restore, Thread
    <3> QED  BY <1>1, <3>1, WritingGrows
  <2> QED  BY <2>1, <2>2
<1>5. /\ f.record = thread[t].record /\ f.fresh = thread[t].fresh
      /\ f.sandbox = thread[t].sandbox /\ f.proposal = thread[t].proposal
  OBVIOUS
<1> HIDE DEF p, session, f
<1> QED  BY <1>1, <1>2, <1>3, <1>4, <1>5, SessionIsGood

LEMMA RevertedIsGood ==
  ASSUME Good, NEW t \in Threads, Reverted(t)  PROVE Good'
<1>1. /\ Step(t, "reverted") /\ "reverted" \in ProposalPoints
      /\ "idle" \in PlainPoints
      /\ UpdateAndSave(t, [run EXCEPT !.status = "cancelled"], thread[t], "idle")
      /\ UNCHANGED <<saved, sessions, savedSessions, tree, asked, restarts>>
      /\ "cancelled" \in TaskRunStatuses \ {"pausing", "paused", "interrupted"}
  BY DEF Reverted, ProposalPoints, PlainPoints, TaskRunStatuses, ResumableStatuses
<1> QED  BY <1>1, NamingStatusIsGood

-----------------------------------------------------------------------------
(* Repair.                                                                 *)

LEMMA RepairIsGood ==
  ASSUME Good, NEW t \in Threads, Repair(t)  PROVE Good'
<1>1. PICK p \in Proposals :
        OfThisRun(p) /\ At(t, [thread[t] EXCEPT !.proposal = p], "repair")
  BY DEF Repair
<1> DEFINE f == [thread[t] EXCEPT !.proposal = p]
<1>2. /\ Request(t) /\ f = [thread[t] EXCEPT !.proposal = p]
      /\ At(t, f, "repair") /\ "repair" \in {"revert", "repair"}
      /\ UNCHANGED <<run, saved, sessions, savedSessions, tree, asked, restarts>>
  BY <1>1 DEF Repair
<1> HIDE DEF f
<1> QED  BY <1>1, <1>2, RequestIsGood

LEMMA StopLoopIsGood ==
  ASSUME Good, NEW t \in Threads, NEW point \in ProposalPoints, Step(t, point),
         NEW outcome \in Outcomes, StopLoop(t, outcome),
         UNCHANGED <<saved, savedSessions, tree, asked, restarts>>
  PROVE  Good'
<1> DEFINE p       == thread[t].proposal
           session == [sessions[p] EXCEPT !.stopped = TRUE]
           f       == [thread[t] EXCEPT !.outcome = outcome]
<1>1. /\ UpdateAndKeep(t, p, session, f, "stop_run") /\ "stop_run" \in PlainPoints
      /\ UNCHANGED <<run, saved, savedSessions, asked, restarts>>
      /\ p = thread[t].proposal
  BY DEF StopLoop, PlainPoints
<1>2. thread[t] \in Thread /\ sessions[p] \in Session /\ sessions[p].made
  BY ProposalFrame
<1>3. /\ session \in Session /\ session.made
      /\ session.sandbox = sessions[p].sandbox
      /\ session.attempt = sessions[p].attempt
  BY <1>2 DEF Session
<1>4. /\ f \in Thread /\ f.record = thread[t].record /\ f.fresh = thread[t].fresh
      /\ f.sandbox = thread[t].sandbox /\ f.proposal = thread[t].proposal
  BY <1>2 DEF Thread
<1>5. tree' \in Files /\ FilesGrow(tree, tree')
  BY DEF Good, FilesGrow
<1> HIDE DEF p, session, f
<1> QED  BY <1>1, <1>3, <1>4, <1>5, SessionIsGood

\* A repair goes on towards a new proposal while its session has attempts left.
LEMMA RepairingIsGood ==
  ASSUME Good, NEW t \in Threads, NEW point \in ProposalPoints, Step(t, point),
         NEW next \in {"diagnosed", "replan"},
         sessions[thread[t].proposal].attempt < MaxRepairs,
         NEW status, status \in TaskRunStatuses \ {"pausing", "paused", "interrupted"},
         UpdateAndSave(t, [run EXCEPT !.status = status], thread[t], next),
         UNCHANGED <<saved, sessions, savedSessions, tree, asked, restarts>>
  PROVE  Good'
<1> DEFINE r == [run EXCEPT !.status = status]
<1>1. Sound(run, tree, savedSessions) /\ run \in RunRecord
  BY DEF Good, Sound
<1>2. Sound(r, tree, savedSessions) /\ (HasSandbox(run) => HasSandbox(r))
  BY <1>1, OtherStatusIsSound, StatusKeepsSandbox
<1>3. UpdateAndSave(t, r, thread[t], next)
  OBVIOUS
<1> HIDE DEF r
<1>4. /\ Holds(thread[t], tree, sessions, savedSessions)
      /\ CanBeAt(thread[t], point, run, sessions, savedSessions)
      /\ point # "keep_fresh"
  BY ProposalFrame DEF ProposalPoints
<1>5. CanBeAt(thread[t], next, r, sessions, savedSessions)
  BY <1>4 DEF CanBeAt, WorkerPoints, ProposalPoints
<1>6. next \in Destinations
  BY DEF Destinations, Points, Saving
<1>7. Counted'
  BY CountsStay DEF Step
<1> QED  BY <1>2, <1>3, <1>4, <1>5, <1>6, <1>7, UpdatingIsGood

LEMMA BeginRepairIsGood ==
  ASSUME Good, NEW t \in Threads, BeginRepair(t)  PROVE Good'
<1> DEFINE session == sessions[thread[t].proposal]
<1>1. /\ Step(t, "repair") /\ "repair" \in ProposalPoints
      /\ "idle" \in PlainPoints /\ "raised" \in PlainPoints /\ "none" \in Outcomes
      /\ UNCHANGED <<saved, savedSessions, tree, asked, restarts>>
  BY DEF BeginRepair, ProposalPoints, PlainPoints, Outcomes
<1>2. \/ GoOn(t, "idle") /\ UNCHANGED <<run, sessions>>
      \/ StopLoop(t, "none")
      \/ GoOn(t, "raised") /\ UNCHANGED <<run, sessions>>
      \/ /\ session.feedback /\ ~RepairsExhausted(session)
         /\ UpdateAndSave(t, [run EXCEPT !.status = "diagnosing"], thread[t],
                          "diagnosed")
         /\ UNCHANGED sessions
  BY DEF BeginRepair
<1>3. CASE GoOn(t, "idle") /\ UNCHANGED <<run, sessions>>
  BY <1>1, <1>3, GoingOnIsGood
<1>4. CASE StopLoop(t, "none")
  BY <1>1, <1>4, StopLoopIsGood
<1>5. CASE GoOn(t, "raised") /\ UNCHANGED <<run, sessions>>
  BY <1>1, <1>5, GoingOnIsGood
<1>6. CASE /\ session.feedback /\ ~RepairsExhausted(session)
           /\ UpdateAndSave(t, [run EXCEPT !.status = "diagnosing"], thread[t],
                            "diagnosed")
           /\ UNCHANGED sessions
  <2>1. session \in Session
    BY <1>1, ProposalFrame
  <2>2. session.attempt < MaxRepairs
    BY <1>6, <2>1, TaskRunAssumption DEF RepairsExhausted, Session
  <2>3. /\ "diagnosing" \in TaskRunStatuses \ {"pausing", "paused", "interrupted"}
        /\ "diagnosed" \in {"diagnosed", "replan"}
    BY DEF TaskRunStatuses, ActiveStatuses
  <2> QED  BY <1>1, <1>6, <2>2, <2>3, RepairingIsGood
<1> QED  BY <1>2, <1>3, <1>4, <1>5, <1>6

LEMMA StopRunIsGood ==
  ASSUME Good, NEW t \in Threads, StopRun(t)  PROVE Good'
<1> DEFINE next == IF thread[t].outcome = "analysed" THEN "report" ELSE "idle"
<1>1. /\ Step(t, "stop_run") /\ "stop_run" \in ProposalPoints /\ next \in PlainPoints
      /\ UpdateAndSave(t, [run EXCEPT !.status = "failed"], thread[t], next)
      /\ UNCHANGED <<saved, sessions, savedSessions, tree, asked, restarts>>
      /\ "failed" \in TaskRunStatuses \ {"pausing", "paused", "interrupted"}
  BY DEF StopRun, ProposalPoints, PlainPoints, TaskRunStatuses, ResumableStatuses
<1> HIDE DEF next
<1> QED  BY <1>1, NamingStatusIsGood

\* A thread about to end saves the run as it is, or under another status.
LEMMA LastSaveIsGood ==
  ASSUME Good, NEW t \in Threads, NEW point \in {"report", "raised", "readiness",
                                                 "prepare"}, Step(t, point),
         NEW r, Sound(r, tree, savedSessions), HasSandbox(run) => HasSandbox(r),
         UpdateAndSave(t, r, thread[t], "idle"),
         UNCHANGED <<saved, sessions, savedSessions, tree, asked, restarts>>
  PROVE  Good'
<1>1. point \notin Saving /\ point # "keep_fresh"
  BY DEF Saving
<1>2. /\ Holds(thread[t], tree, sessions, savedSessions)
      /\ CanBeAt(thread[t], point, run, sessions, savedSessions)
  BY <1>1, FrameIsGood DEF Step
<1>3. CanBeAt(thread[t], "idle", r, sessions, savedSessions) /\ "idle" \in Destinations
  BY <1>1, <1>2, CanBeDone
<1>4. Counted'
  BY CountsStay DEF Step
<1> QED  BY <1>2, <1>3, <1>4, UpdatingIsGood

LEMMA ReportIsGood ==
  ASSUME Good, NEW t \in Threads, Report(t)  PROVE Good'
<1>1. /\ Step(t, "report") /\ UpdateAndSave(t, run, thread[t], "idle")
      /\ UNCHANGED <<saved, sessions, savedSessions, tree, asked, restarts>>
      /\ Sound(run, tree, savedSessions)
  BY DEF Report, Good
<1> QED  BY <1>1, LastSaveIsGood

LEMMA DiagnosedIsGood ==
  ASSUME Good, NEW t \in Threads, Diagnosed(t)  PROVE Good'
<1>1. /\ Step(t, "diagnosed") /\ "diagnosed" \in ProposalPoints
      /\ "raised" \in PlainPoints
      /\ UNCHANGED <<saved, sessions, savedSessions, tree, asked, restarts>>
  BY DEF Diagnosed, ProposalPoints, PlainPoints
<1>2. CASE MustStop(run)
  <2>1. UpdateAndSave(t, StoppedAt(run, "repair_pending"), thread[t], "raised")
    BY <1>2 DEF Diagnosed
  <2> QED  BY <1>1, <2>1, StoppingIsGood
<1>3. CASE ~MustStop(run)
  <2>1. UpdateAndSave(t, [run EXCEPT !.status = "replanning"], thread[t], "replan")
    BY <1>3 DEF Diagnosed
  <2>2. CanBeAt(thread[t], "diagnosed", run, sessions, savedSessions)
    BY <1>1, ProposalFrame
  <2>3. /\ sessions[thread[t].proposal].attempt < MaxRepairs
        /\ "replanning" \in TaskRunStatuses \ {"pausing", "paused", "interrupted"}
        /\ "replan" \in {"diagnosed", "replan"}
    BY <2>2 DEF CanBeAt, TaskRunStatuses, ActiveStatuses
  <2> QED  BY <1>1, <2>1, <2>3, RepairingIsGood
<1> QED  BY <1>2, <1>3

LEMMA ReplanIsGood ==
  ASSUME Good, NEW t \in Threads, Replan(t)  PROVE Good'
<1> DEFINE session == sessions[thread[t].proposal]
<1>1. /\ Step(t, "replan") /\ "replan" \in ProposalPoints
      /\ "raised" \in PlainPoints /\ "analysed" \in Outcomes
      /\ UNCHANGED <<saved, savedSessions, tree, asked, restarts>>
  BY DEF Replan, ProposalPoints, PlainPoints, Outcomes
<1>2. \/ /\ UpdateAndSave(t, StoppedAt(run, "repair_pending"), thread[t], "raised")
         /\ UNCHANGED sessions
      \/ StopLoop(t, "analysed")
      \/ \E p \in NextProposal :
           /\ sessions' = [sessions EXCEPT ![p] =
                NewSession(session.sandbox, session.attempt + 1)]
           /\ At(t, [thread[t] EXCEPT !.fresh = p], "keep_fresh")
           /\ UNCHANGED run
  BY DEF Replan
<1>3. CASE /\ UpdateAndSave(t, StoppedAt(run, "repair_pending"), thread[t], "raised")
           /\ UNCHANGED sessions
  BY <1>1, <1>3, StoppingIsGood
<1>4. CASE StopLoop(t, "analysed")
  BY <1>1, <1>4, StopLoopIsGood
<1>5. CASE \E p \in NextProposal :
           /\ sessions' = [sessions EXCEPT ![p] =
                NewSession(session.sandbox, session.attempt + 1)]
           /\ At(t, [thread[t] EXCEPT !.fresh = p], "keep_fresh")
           /\ UNCHANGED run
  <2>1. PICK p \in NextProposal :
           /\ sessions' = [sessions EXCEPT ![p] =
                NewSession(session.sandbox, session.attempt + 1)]
           /\ At(t, [thread[t] EXCEPT !.fresh = p], "keep_fresh")
           /\ UNCHANGED run
    BY <1>5
  <2> DEFINE f       == [thread[t] EXCEPT !.fresh = p]
             s       == session.sandbox
             attempt == session.attempt + 1
  <2>2. /\ thread[t] \in Thread /\ session \in Session /\ s \in Sandboxes
        /\ CanBeAt(thread[t], "replan", run, sessions, savedSessions)
        /\ Content(t) \in Contents
    BY <1>1, ProposalFrame
  <2>3. attempt \in 0..MaxRepairs
    BY <2>2, TaskRunAssumption DEF CanBeAt, Session
  <2>4. tree[s] # NoContent
    BY <2>2, TaskRunAssumption DEF Content, Contents, NoContent
  <2>5. p \in 0..MaxProposals
    BY TaskRunAssumption DEF NextProposal, Proposals
  <2>6. /\ f \in Thread /\ f.fresh = p /\ f.record = thread[t].record
        /\ f.sandbox = thread[t].sandbox /\ f.proposal = thread[t].proposal
        /\ f.next = thread[t].next
    BY <2>2, <2>5 DEF Thread
  <2>7. Counted'
    BY <1>1, CountsStay DEF Step
  <2>8. /\ At(t, f, "keep_fresh")
        /\ sessions' = [sessions EXCEPT ![p] = NewSession(s, attempt)]
    BY <2>1
  <2>9. UNCHANGED <<run, saved, savedSessions, tree>>
    BY <1>1, <2>1
  <2>10. s \in Sandboxes
    BY <2>2
  <2> HIDE DEF f, s, attempt
  <2> QED  BY <2>3, <2>4, <2>6, <2>7, <2>8, <2>9, <2>10, MakingIsGood
<1> QED  BY <1>2, <1>3, <1>4, <1>5

LEMMA ReplanFailsIsGood ==
  ASSUME Good, NEW t \in Threads, ReplanFails(t)  PROVE Good'
<1>1. /\ Step(t, "replan") /\ "replan" \in ProposalPoints
      /\ "idle" \in PlainPoints /\ "raised" \in PlainPoints
      /\ GoOn(t, "raised") \/ GoOn(t, "idle")
      /\ UNCHANGED <<run, saved, sessions, savedSessions, tree, asked, restarts>>
  BY DEF ReplanFails, ProposalPoints, PlainPoints
<1> QED  BY <1>1, GoingOnIsGood

LEMMA PublishIsGood ==
  ASSUME Good, NEW t \in Threads, Publish(t)  PROVE Good'
<1> DEFINE named == [run EXCEPT !.proposal = thread[t].fresh]
           r     == IF MustStop(run) THEN StoppedAt(named, "awaiting_approval")
                    ELSE [named EXCEPT !.status = "awaiting_approval"]
<1>1. /\ Step(t, "publish") /\ "publish" \in ProposalPoints /\ "idle" \in PlainPoints
      /\ UpdateAndSave(t, r, thread[t], "idle")
      /\ UNCHANGED <<saved, sessions, savedSessions, tree, asked, restarts>>
      /\ Sound(run, tree, savedSessions) /\ run \in RunRecord
  BY DEF Publish, ProposalPoints, PlainPoints, Good, Sound
<1>2. /\ thread[t].fresh \in 0..MaxProposals
      /\ thread[t].fresh # 0 => savedSessions[thread[t].fresh].made
  BY <1>1, ProposalFrame DEF CanBeAt, Thread
<1>3. Sound(named, tree, savedSessions) /\ HasSandbox(named) = HasSandbox(run)
  BY <1>1, <1>2, NamingIsSound DEF HasSandbox, RunRecord
<1> HIDE DEF named
<1>4. "awaiting_approval" \in TaskRunStatuses \ {"pausing", "paused", "interrupted"}
  BY DEF TaskRunStatuses
<1>5. named \in RunRecord
  BY <1>3 DEF Sound
<1>6. /\ Sound(StoppedAt(named, "awaiting_approval"), tree, savedSessions)
      /\ Sound([named EXCEPT !.status = "awaiting_approval"], tree, savedSessions)
      /\ HasSandbox(StoppedAt(named, "awaiting_approval")) = HasSandbox(named)
      /\ HasSandbox([named EXCEPT !.status = "awaiting_approval"]) = HasSandbox(named)
  BY <1>3, <1>4, <1>5, StoppingIsSound, OtherStatusIsSound, StatusKeepsSandbox
<1>7. Sound(r, tree, savedSessions) /\ (HasSandbox(run) => HasSandbox(r))
  BY <1>3, <1>6
<1> HIDE DEF r
<1> QED  BY <1>1, <1>7, UpdatingOnIsGood

LEMMA RaisedIsGood ==
  ASSUME Good, NEW t \in Threads, Raised(t)  PROVE Good'
<1>1. /\ Step(t, "raised")
      /\ UNCHANGED <<saved, sessions, savedSessions, tree, asked, restarts>>
      /\ Sound(run, tree, savedSessions) /\ run \in RunRecord
  BY DEF Raised, Good, Sound
<1>2. CASE GoOn(t, "idle") /\ UNCHANGED run
  <2>1. /\ Holds(thread[t], tree, sessions, savedSessions)
        /\ thread[t].next \notin Saving \union {"keep_fresh"}
        /\ CanBeAt(thread[t], "raised", run, sessions, savedSessions)
    BY <1>1, FrameIsGood DEF Step, Saving
  <2>2. "idle" \in Points /\ "idle" \notin Saving
    BY DEF Points, Saving
  <2>3. CanBeAt(thread[t], "idle", run, sessions, savedSessions)
    BY <2>1, CanBeDone
  <2>4. CanBeAt(thread[t], IF "idle" \in Saving THEN thread[t].next ELSE "idle", run,
                sessions, savedSessions)
    BY <2>2, <2>3
  <2>5. Counted' /\ At(t, thread[t], "idle")
    BY <1>1, <1>2, CountsStay DEF Step, GoOn
  <2> QED  BY <1>1, <1>2, <2>1, <2>2, <2>4, <2>5, GoingIsGood
<1>3. CASE UpdateAndSave(t, [run EXCEPT !.status = "repair_pending"], thread[t],
                         "idle")
  <2> DEFINE r == [run EXCEPT !.status = "repair_pending"]
  <2>1. Sound(r, tree, savedSessions) /\ (HasSandbox(run) => HasSandbox(r))
    BY <1>1, OtherStatusIsSound, StatusKeepsSandbox DEF TaskRunStatuses
  <2>2. UpdateAndSave(t, r, thread[t], "idle")
    BY <1>3
  <2> HIDE DEF r
  <2> QED  BY <1>1, <2>1, <2>2, LastSaveIsGood
<1>4. \/ GoOn(t, "idle") /\ UNCHANGED run
      \/ UpdateAndSave(t, [run EXCEPT !.status = "repair_pending"], thread[t], "idle")
  <2>1. CASE run.status \in LeftAlone(thread[t].auto)
    BY <2>1 DEF Raised
  <2>2. CASE run.status \notin LeftAlone(thread[t].auto)
    BY <2>2 DEF Raised
  <2> QED  BY <2>1, <2>2
<1> QED  BY <1>2, <1>3, <1>4

-----------------------------------------------------------------------------
(* Pause, cancel, resume and restart.                                      *)

\* A request that updates the run and saves it.
LEMMA RunRequestIsGood ==
  ASSUME Good, NEW t \in Threads, Request(t), NEW r,
         Sound(r, tree, savedSessions), HasSandbox(run) => HasSandbox(r),
         UpdateAndSave(t, r, thread[t], "idle"),
         UNCHANGED <<saved, sessions, savedSessions, tree, asked, restarts>>
  PROVE  Good'
<1>1. thread[t].at = "idle"
  BY DEF Request
<1>2. Counted'
  BY CountsStay
<1>3. /\ Holds(thread[t], tree, sessions, savedSessions)
      /\ CanBeAt(thread[t], "idle", r, sessions, savedSessions)
      /\ "idle" \in Destinations
  BY <1>1, IdleFrame
<1> QED  BY <1>2, <1>3, UpdatingIsGood

LEMMA PauseIsGood ==
  ASSUME Good, NEW t \in Threads, Pause(t)  PROVE Good'
<1> DEFINE r == PauseRequested(run)
<1>1. /\ Request(t) /\ UpdateAndSave(t, r, thread[t], "idle")
      /\ UNCHANGED <<saved, sessions, savedSessions, tree, asked, restarts>>
      /\ Sound(run, tree, savedSessions) /\ run \in RunRecord
  BY DEF Pause, Good, Sound
<1>2. Sound(r, tree, savedSessions) /\ (HasSandbox(run) => HasSandbox(r))
  BY <1>1, RequestsAreSound, StatusKeepsSandbox
<1> HIDE DEF r
<1> QED  BY <1>1, <1>2, RunRequestIsGood

LEMMA CancelIsGood ==
  ASSUME Good, NEW t \in Threads, Cancel(t)  PROVE Good'
<1> DEFINE r == CancelRequested(run)
<1>1. /\ Request(t) /\ UpdateAndSave(t, r, thread[t], "idle")
      /\ UNCHANGED <<saved, sessions, savedSessions, tree, asked, restarts>>
      /\ Sound(run, tree, savedSessions) /\ run \in RunRecord
  BY DEF Cancel, Good, Sound
<1>2. Sound(r, tree, savedSessions) /\ (HasSandbox(run) => HasSandbox(r))
  BY <1>1, RequestsAreSound, StatusKeepsSandbox
<1> HIDE DEF r
<1> QED  BY <1>1, <1>2, RunRequestIsGood

\* A run is planned to go back to its sandbox only when it has one.
LEMMA PlansAreSafe ==
  ASSUME NEW r, NEW files, NEW rows, Sound(r, files, rows)
  PROVE  /\ PlannedCheckpoint(r) \in Checkpoints
         /\ PlannedCheckpoint(r) \in SandboxCheckpoints => HasSandbox(r)
<1>1. r \in RunRecord
  BY DEF Sound
<1>2. /\ CheckpointFor(r, r.status) \in Checkpoints \ {"none"}
      /\ CheckpointFor(r, r.status) \in SandboxCheckpoints => HasSandbox(r)
  BY <1>1, CheckpointsAreSafe
<1> QED  BY <1>1, <1>2 DEF PlannedCheckpoint, Sound, RunRecord

LEMMA ResumeIsGood ==
  ASSUME Good, NEW t \in Threads, Resume(t)  PROVE Good'
<1> DEFINE wanted == PlannedCheckpoint(run)
           f      == [thread[t] EXCEPT !.wanted = wanted]
<1>1. /\ thread[t].at = "idle" /\ Counted' /\ At(t, f, "readiness")
      /\ UNCHANGED <<run, saved, sessions, savedSessions, tree>>
  BY CountsStay DEF Resume, Request
<1>2. wanted \in Checkpoints
  BY PlansAreSafe DEF Good
<1> HIDE DEF wanted
<1>3. /\ thread[t] = Idle /\ Idle \in Thread
      /\ Holds(thread[t], tree, sessions, savedSessions)
  BY <1>1, FrameIsGood, IdleIsTyped
<1>4. f \in Thread
  BY <1>2, <1>3 DEF Thread
<1>5. /\ f.record = thread[t].record /\ f.sandbox = thread[t].sandbox
      /\ f.proposal = 0 /\ f.fresh = 0 /\ thread[t].proposal = 0
      /\ thread[t].fresh = 0 /\ f.next = "idle"
  BY <1>3 DEF Idle
<1> HIDE DEF f
<1>6. Holds(f, tree, sessions, savedSessions)
  BY <1>3, <1>4, <1>5 DEF Holds
<1>7. /\ CanBeAt(f, "readiness", run, sessions, savedSessions)
      /\ "readiness" \in Points /\ "readiness" \notin Saving
      /\ f.next \notin Saving \union {"keep_fresh"}
  BY <1>5 DEF CanBeAt, WorkerPoints, ProposalPoints, Points, Saving
<1>8. CanBeAt(f, IF "readiness" \in Saving THEN f.next ELSE "readiness", run,
              sessions, savedSessions)
  BY <1>7
<1> QED  BY <1>1, <1>6, <1>7, <1>8, GoingIsGood

LEMMA CheckReadinessIsGood ==
  ASSUME Good, NEW t \in Threads, CheckReadiness(t)  PROVE Good'
<1>1. /\ Step(t, "readiness")
      /\ UNCHANGED <<saved, sessions, savedSessions, tree, asked, restarts>>
      /\ Sound(run, tree, savedSessions) /\ run \in RunRecord
  BY DEF CheckReadiness, Good, Sound
<1>2. CASE UpdateAndSave(t, [run EXCEPT !.status = "awaiting_input"], thread[t], "idle")
  <2> DEFINE r == [run EXCEPT !.status = "awaiting_input"]
  <2>1. Sound(r, tree, savedSessions) /\ (HasSandbox(run) => HasSandbox(r))
    BY <1>1, OtherStatusIsSound, StatusKeepsSandbox DEF TaskRunStatuses
  <2>2. UpdateAndSave(t, r, thread[t], "idle")
    BY <1>2
  <2> HIDE DEF r
  <2> QED  BY <1>1, <2>1, <2>2, LastSaveIsGood
<1>3. CASE GoOn(t, "prepare") /\ UNCHANGED run
  <2>1. /\ Holds(thread[t], tree, sessions, savedSessions)
        /\ thread[t].next \notin Saving \union {"keep_fresh"}
        /\ CanBeAt(thread[t], "readiness", run, sessions, savedSessions)
    BY <1>1, FrameIsGood DEF Step, Saving
  <2>2. /\ CanBeAt(thread[t], "prepare", run, sessions, savedSessions)
        /\ "prepare" \in Points /\ "prepare" \notin Saving
    BY <2>1 DEF CanBeAt, WorkerPoints, ProposalPoints, Points, Saving
  <2>3. CanBeAt(thread[t], IF "prepare" \in Saving THEN thread[t].next ELSE "prepare",
                run, sessions, savedSessions)
    BY <2>2
  <2>4. Counted' /\ At(t, thread[t], "prepare")
    BY <1>1, <1>3, CountsStay DEF Step, GoOn
  <2> QED  BY <1>1, <1>3, <2>1, <2>2, <2>3, <2>4, GoingIsGood
<1> QED  BY <1>2, <1>3 DEF CheckReadiness

LEMMA RefuseResumeIsGood ==
  ASSUME Good, NEW t \in Threads, RefuseResume(t)  PROVE Good'
<1>1. /\ Step(t, "readiness") /\ UpdateAndSave(t, run, thread[t], "idle")
      /\ UNCHANGED <<saved, sessions, savedSessions, tree, asked, restarts>>
      /\ Sound(run, tree, savedSessions)
  BY DEF RefuseResume, Good
<1> QED  BY <1>1, LastSaveIsGood

LEMMA PrepareIsGood ==
  ASSUME Good, NEW t \in Threads, Prepare(t)  PROVE Good'
<1>1. /\ Step(t, "prepare")
      /\ UNCHANGED <<saved, sessions, savedSessions, tree, asked, restarts>>
      /\ Sound(run, tree, savedSessions) /\ run \in RunRecord
  BY DEF Prepare, Good, Sound
<1>2. CASE ~StillPlanned(t)
  <2>1. UpdateAndSave(t, run, thread[t], "idle")
    BY <1>2 DEF Prepare
  <2> QED  BY <1>1, <2>1, LastSaveIsGood
<1>3. CASE StillPlanned(t)
  <2> DEFINE r    == Prepared(run)
             f    == [thread[t] EXCEPT !.reuse =
                                         thread[t].wanted \in SandboxCheckpoints]
  <2>1. UpdateAndSave(t, r, f, "prepared")
    BY <1>3 DEF Prepare
  <2>2. Sound(r, tree, savedSessions) /\ HasSandbox(r) = HasSandbox(run)
    BY <1>1, PreparingIsSound, StatusKeepsSandbox
  <2>3. thread[t].wanted \in SandboxCheckpoints => HasSandbox(run)
    BY <1>1, <1>3, PlansAreSafe DEF StillPlanned
  <2>4. /\ thread[t] \in Thread /\ Holds(thread[t], tree, sessions, savedSessions)
        /\ CanBeAt(thread[t], "prepare", run, sessions, savedSessions)
    BY <1>1, FrameIsGood DEF Step, Saving
  <2>5. /\ f \in Thread /\ f.record = thread[t].record /\ f.fresh = thread[t].fresh
        /\ f.sandbox = thread[t].sandbox /\ f.proposal = thread[t].proposal
        /\ f.reuse = (thread[t].wanted \in SandboxCheckpoints)
    <3>1. (thread[t].wanted \in SandboxCheckpoints) \in BOOLEAN
      OBVIOUS
    <3> DEFINE reuse == thread[t].wanted \in SandboxCheckpoints
    <3>2. reuse \in BOOLEAN
      BY <3>1
    <3> HIDE DEF reuse
    <3>3. [thread[t] EXCEPT !.reuse = reuse] \in Thread
      BY <2>4, <3>2 DEF Thread
    <3> QED  BY <2>4, <3>3 DEF Thread, reuse
  <2>6. "prepared" \in Destinations
    BY DEF Destinations, Points, Saving
  <2>7. Counted'
    BY <1>1, CountsStay DEF Step
  <2> HIDE DEF r, f
  <2>8. Holds(f, tree, sessions, savedSessions)
    BY <2>4, <2>5 DEF Holds
  <2>9. CanBeAt(f, "prepared", r, sessions, savedSessions)
    BY <2>2, <2>3, <2>4, <2>5 DEF CanBeAt, WorkerPoints, ProposalPoints
  <2> QED  BY <1>1, <2>1, <2>2, <2>6, <2>7, <2>8, <2>9, UpdatingIsGood
<1> QED  BY <1>2, <1>3

LEMMA LaunchPreparedIsGood ==
  ASSUME Good, NEW t \in Threads, LaunchPrepared(t)  PROVE Good'
<1> DEFINE next == IF run.status \in {"awaiting_approval", "repair_pending"}
                   THEN "idle" ELSE "launched"
<1>1. /\ Step(t, "prepared") /\ At(t, thread[t], next)
      /\ UNCHANGED <<run, saved, sessions, savedSessions, tree, asked, restarts>>
  BY DEF LaunchPrepared, GoOn
<1>2. /\ Holds(thread[t], tree, sessions, savedSessions)
      /\ thread[t].next \notin Saving \union {"keep_fresh"}
      /\ CanBeAt(thread[t], "prepared", run, sessions, savedSessions)
  BY <1>1, FrameIsGood DEF Step, Saving
<1>3. /\ CanBeAt(thread[t], next, run, sessions, savedSessions)
      /\ next \in Points /\ next \notin Saving
  BY <1>2 DEF CanBeAt, WorkerPoints, ProposalPoints, Points, Saving
<1> HIDE DEF next
<1>4. CanBeAt(thread[t], IF next \in Saving THEN thread[t].next ELSE next, run,
              sessions, savedSessions)
  BY <1>3
<1>5. Counted'
  BY <1>1, CountsStay DEF Step
<1> QED  BY <1>1, <1>2, <1>3, <1>4, <1>5, GoingIsGood

\* A restart leaves what the rows say, and no thread.
LEMMA RestartIsGood ==
  ASSUME Good, Restart  PROVE Good'
<1>1. /\ run' = Restored(saved) /\ saved' = Restored(saved)
      /\ sessions' = savedSessions /\ thread' = [t \in Threads |-> Idle]
      /\ UNCHANGED <<savedSessions, tree, asked, requests>>
      /\ restarts < MaxRestarts /\ restarts' = restarts + 1
  BY DEF Restart
<1>2. Counted'
  BY <1>1, TaskRunAssumption DEF Counted, Good
<1>3. Sound(Restored(saved), tree, savedSessions)
  BY RestoringIsSound DEF Good
<1>4. Sound(run', tree', savedSessions') /\ Sound(saved', tree', savedSessions')
  BY <1>1, <1>3
<1>5. Framed(Idle, run', tree', sessions', savedSessions')
  BY IdleIsFramed
<1>6. thread' \in [Threads -> Thread]
  BY <1>1, IdleIsTyped
<1>7. /\ tree' \in Files
      /\ sessions' \in [Proposals -> Session]
      /\ savedSessions' \in [Proposals -> Session]
      /\ \A p \in Proposals : Placed(sessions'[p], tree') /\
                              Placed(savedSessions'[p], tree')
  BY <1>1 DEF Good
<1>8. \A t \in Threads : Framed(thread'[t], run', tree', sessions', savedSessions')
  BY <1>1, <1>5
<1> QED  BY <1>2, <1>4, <1>6, <1>7, <1>8 DEF Good

-----------------------------------------------------------------------------
(* The invariant holds.                                                    *)

LEMMA InitIsGood == Init => Good
<1> SUFFICES ASSUME Init PROVE Good
  OBVIOUS
<1>1. PICK t \in Threads :
        thread = [u \in Threads |-> IF u = t THEN [Idle EXCEPT !.at = "launched"]
                                    ELSE Idle]
  BY DEF Init
<1>2. /\ tree \in Files /\ Counted
  <2>1. /\ tree = [s \in Sandboxes |-> NoContent]
        /\ asked = FALSE /\ requests = 0 /\ restarts = 0
    BY DEF Init
  <2>2. tree \in Files
    BY <2>1 DEF Files
  <2>3. 0 \in 0..MaxRequests /\ 0 \in 0..MaxRestarts
    BY TaskRunAssumption
  <2>4. Counted
    BY <2>1, <2>3 DEF Counted
  <2> QED  BY <2>2, <2>4
<1>3. Sound(run, tree, savedSessions) /\ Sound(saved, tree, savedSessions)
  BY QueuedIsSound DEF Init
<1>4. NoSession \in Session /\ ~NoSession.made
  BY TaskRunAssumption DEF NoSession, Session, Contents
<1>5. /\ sessions \in [Proposals -> Session]
      /\ savedSessions \in [Proposals -> Session]
      /\ \A p \in Proposals : Placed(sessions[p], tree) /\ Placed(savedSessions[p], tree)
  BY <1>4 DEF Init, Placed
<1> DEFINE f == [Idle EXCEPT !.at = "launched"]
<1>6. /\ f \in Thread /\ f.at = "launched" /\ f.next = "idle" /\ f.record = Queued
      /\ f.sandbox = 0 /\ f.proposal = 0 /\ f.fresh = 0 /\ f.reuse = FALSE
  <2>1. "launched" \in Points
    BY DEF Points
  <2>2. f \in Thread
    BY <2>1, IdleIsTyped DEF Thread
  <2> QED  BY <2>2 DEF Idle
<1> HIDE DEF f
<1>7. Framed(f, run, tree, sessions, savedSessions)
  <2>1. Holds(f, tree, sessions, savedSessions)
    BY <1>6, QueuedIsSound DEF Holds
  <2>2. Head(f) = "launched"
    BY <1>6 DEF Head, Saving
  <2>3. CanBeAt(f, "launched", run, sessions, savedSessions)
    BY <1>6 DEF CanBeAt, ProposalPoints
  <2> QED  BY <1>6, <2>1, <2>2, <2>3 DEF Framed, Saving
<1>8. Framed(Idle, run, tree, sessions, savedSessions)
  BY IdleIsFramed
<1>9. thread \in [Threads -> Thread]
  BY <1>1, <1>6, IdleIsTyped DEF f
<1>10. \A u \in Threads : Framed(thread[u], run, tree, sessions, savedSessions)
  BY <1>1, <1>7, <1>8 DEF f
<1> QED  BY <1>2, <1>3, <1>5, <1>9, <1>10 DEF Good

LEMMA WorkIsGood ==
  ASSUME Good, NEW t \in Threads, Work(t)  PROVE Good'
  BY SaveIsGood, WriteIsGood, KeepIsGood, KeepFreshIsGood, LaunchIsGood,
     CreateSandboxIsGood, SandboxReadyIsGood, BoundaryIsGood, ExploreIsGood,
     SettleIsGood, WorkerFailsIsGood, CaptureIsGood, CheckHashIsGood,
     WriteEditsIsGood, EditsConflictIsGood, SafetyBlocksIsGood, BlockedIsGood,
     ValidateIsGood, ConcludeIsGood, RespondIsGood, ClientGoneIsGood,
     CheckRevertIsGood, RestoreIsGood, RevertedIsGood, BeginRepairIsGood,
     StopRunIsGood, ReportIsGood, DiagnosedIsGood, ReplanIsGood, ReplanFailsIsGood,
     PublishIsGood, RaisedIsGood, CheckReadinessIsGood, RefuseResumeIsGood,
     PrepareIsGood, LaunchPreparedIsGood DEF Work

LEMMA NextIsGood == Good /\ [Next]_vars => Good'
<1> SUFFICES ASSUME Good, [Next]_vars PROVE Good'
  OBVIOUS
<1>1. CASE UNCHANGED vars
  BY <1>1 DEF vars, Good, Counted
<1>2. CASE Restart
  BY <1>2, RestartIsGood
<1>3. ASSUME NEW t \in Threads,
             \/ Work(t) \/ Apply(t) \/ Revert(t) \/ Repair(t)
             \/ Pause(t) \/ Cancel(t) \/ Resume(t)
      PROVE  Good'
  BY <1>3, WorkIsGood, ApplyIsGood, RevertIsGood, RepairIsGood, PauseIsGood,
     CancelIsGood, ResumeIsGood
<1> QED  BY <1>1, <1>2, <1>3 DEF Next

LEMMA GoodHolds == Spec => []Good
<1> QED  BY InitIsGood, NextIsGood, PTL DEF Spec

\* Every variable keeps its type; among the types, no session has an attempt beyond
\* the configured number of repairs, however manual and automatic repairs, restarts
\* and stale writes interleave (web_server.py, _generate_repair_proposal).
THEOREM TypesHold == Spec => []TypeOK
<1>1. Good => TypeOK
  BY DEF Good, TypeOK, Sound, Counted, Files
<1> QED  BY <1>1, GoodHolds, PTL

\* A run that has to stop, in memory or in its row, always has a checkpoint to go
\* back to (task_runs.py), so a restart never finds a run it cannot place.
THEOREM StopsKeepACheckpoint == Spec => []StopsWithCheckpoint
<1>1. Good => StopsWithCheckpoint
  BY DEF Good, StopsWithCheckpoint, Sound
<1> QED  BY <1>1, GoodHolds, PTL

\* The session of the proposal a run names, in memory or in its row, was saved
\* before, so it survives a restart (web_server.py, _persist_session).
THEOREM NamedProposalsAreKept == Spec => []NamedProposalIsKept
<1>1. Good => NamedProposalIsKept
  BY DEF Good, NamedProposalIsKept, Sound
<1> QED  BY <1>1, GoodHolds, PTL

-----------------------------------------------------------------------------
(* Work is done by a thread.  A repair passes keep_fresh too, but goes on  *)
(* to publish and leaves the status "exploring" to nobody: only a thread   *)
(* without a proposal of its own counts there.                             *)

WorkingStatuses == {"queued", "creating_sandbox", "exploring", "applying",
                    "validating"}
WorksAt(point, proposal, status) ==
  /\ status \in WorkingStatuses
  /\ point \in WorkingPoints[status]
  /\ point = "keep_fresh" => proposal = 0
WorksOn(f, status) == WorksAt(Head(f), f.proposal, status)
Attended ==
  run.status \in WorkingStatuses => \E t \in Threads : WorksOn(thread[t], run.status)

LEMMA WorkingPointsAre ==
  /\ DOMAIN WorkingPoints = WorkingStatuses
  /\ WorkingPoints["queued"] = {"prepared", "launched", "boundary"}
  /\ WorkingPoints["creating_sandbox"] = {"create", "ready", "boundary"}
  /\ WorkingPoints["exploring"] = {"explore", "keep_fresh", "settle"}
  /\ WorkingPoints["applying"] = {"capture", "check", "patch", "blocked", "conclude"}
  /\ WorkingPoints["validating"] = {"validate", "conclude"}
  BY DEF WorkingPoints, WorkingStatuses

\* Which points count for which status.
LEMMA WorkingPairs ==
  ASSUME NEW point, NEW proposal, NEW status
  PROVE  WorksAt(point, proposal, status) <=>
           \/ status = "queued" /\ point \in {"prepared", "launched", "boundary"}
           \/ status = "creating_sandbox" /\ point \in {"create", "ready", "boundary"}
           \/ status = "exploring" /\ point \in {"explore", "settle"}
           \/ status = "exploring" /\ point = "keep_fresh" /\ proposal = 0
           \/ status = "applying" /\
              point \in {"capture", "check", "patch", "blocked", "conclude"}
           \/ status = "validating" /\ point \in {"validate", "conclude"}
  BY WorkingPointsAre DEF WorksAt, WorkingStatuses

LEMMA AttendedIsWork == Attended => WorkHasAThread
<1>1. \A t \in Threads : HeadingFor(t) = Head(thread[t])
  BY DEF HeadingFor, Head, Saving
<1> QED  BY <1>1, WorkingPointsAre DEF Attended, WorkHasAThread, WorksOn, WorksAt

\* A step of one thread leaves the others where they are.
LEMMA OthersStay ==
  ASSUME Good, NEW t \in Threads, NEW f, NEW point, At(t, f, point)
  PROVE  /\ \A u \in Threads : u # t => thread'[u] = thread[u]
         /\ thread'[t] = IF point = "idle" THEN Idle ELSE [f EXCEPT !.at = point]
  BY DEF At, Good

\* The status stays, and the thread that moved still works on what it worked on.
LEMMA WorkGoesOn ==
  ASSUME Good, Attended, NEW t \in Threads, NEW f, NEW point, At(t, f, point),
         run'.status = run.status,
         NEW head, head = Head(thread[t]), NEW next, next = Head(thread'[t]),
         NEW p, p = thread[t].proposal, NEW q, q = thread'[t].proposal,
         \A status : WorksAt(head, p, status) => WorksAt(next, q, status)
  PROVE  Attended'
<1> SUFFICES ASSUME run'.status \in WorkingStatuses
             PROVE  \E u \in Threads : WorksOn(thread'[u], run'.status)
  BY DEF Attended
<1>1. PICK u \in Threads : WorksOn(thread[u], run.status)
  BY DEF Attended
<1>2. \A v \in Threads : v # t => thread'[v] = thread[v]
  BY OthersStay
<1>3. CASE u # t
  BY <1>1, <1>2, <1>3 DEF WorksOn
<1>4. CASE u = t
  <2>1. WorksAt(next, q, run.status)
    BY <1>1, <1>4 DEF WorksOn
  <2>2. WorksOn(thread'[t], run'.status)
    BY <2>1 DEF WorksOn
  <2> QED  BY <2>2
<1> QED  BY <1>3, <1>4

\* A thread at a point that counts for no status moves, and the status stays.
LEMMA BystandersDoNotCount ==
  ASSUME Good, Attended, NEW t \in Threads, NEW f, NEW point, At(t, f, point),
         run'.status = run.status,
         thread[t].at \in {"idle", "respond", "revert", "restore", "repair", "replan", "report",
                           "raised", "readiness", "prepare"}
  PROVE  Attended'
<1>1. /\ Head(thread[t]) = thread[t].at
      /\ \A p, status : ~WorksAt(thread[t].at, p, status)
  BY WorkingPairs DEF Head, Saving
<1> DEFINE head == Head(thread[t])
           next == Head(thread'[t])
           p    == thread[t].proposal
           q    == thread'[t].proposal
<1>2. /\ head = Head(thread[t]) /\ next = Head(thread'[t])
      /\ p = thread[t].proposal /\ q = thread'[t].proposal
      /\ \A status : WorksAt(head, p, status) => WorksAt(next, q, status)
  BY <1>1
<1> HIDE DEF head, next, p, q
<1> QED  BY <1>2, WorkGoesOn

\* A thread sets the status it is going to work on, or one that needs no thread.
LEMMA WorkIsTakenUp ==
  ASSUME Good, NEW t \in Threads, NEW record, NEW f \in Thread,
         NEW point \in Destinations, UpdateAndSave(t, record, f, point),
         record.status \in WorkingStatuses => WorksAt(point, f.proposal, record.status)
  PROVE  Attended'
<1> SUFFICES ASSUME run'.status \in WorkingStatuses
             PROVE  \E u \in Threads : WorksOn(thread'[u], run'.status)
  BY DEF Attended
<1> DEFINE g == [f EXCEPT !.next = point]
<1>1. /\ run' = record /\ At(t, g, "save") /\ g \in Thread
      /\ g.next = point /\ g.proposal = f.proposal
      /\ "save" \in Points /\ "save" \in Saving
  BY DEF UpdateAndSave, Thread, Destinations, Points, Saving
<1> HIDE DEF g
<1>2. thread'[t] = [g EXCEPT !.at = "save"]
  BY <1>1, OthersStay
<1>3. Head(thread'[t]) = point /\ thread'[t].proposal = f.proposal
  BY <1>1, <1>2 DEF Head, Thread
<1>4. WorksOn(thread'[t], run'.status)
  BY <1>1, <1>3 DEF WorksOn
<1> QED  BY <1>4

\* Saving the run or keeping a session is on the way to where the thread heads.
LEMMA HeadingIsAttended ==
  ASSUME Good, Attended, NEW t \in Threads, NEW f, NEW point, At(t, f, point),
         run'.status = run.status, Head(thread'[t]) = Head(thread[t]),
         thread'[t] # Idle => thread'[t].proposal = thread[t].proposal
  PROVE  Attended'
<1> DEFINE head == Head(thread[t])
           next == Head(thread'[t])
           p    == thread[t].proposal
           q    == thread'[t].proposal
<1>1. thread'[t] = Idle => next = "idle"
  BY DEF Head, Idle, Saving
<1>2. /\ head = Head(thread[t]) /\ next = Head(thread'[t])
      /\ p = thread[t].proposal /\ q = thread'[t].proposal
      /\ \A status : WorksAt(head, p, status) => WorksAt(next, q, status)
  BY <1>1, WorkingPairs
<1> HIDE DEF head, next, p, q
<1> QED  BY <1>2, WorkGoesOn

LEMMA SavingIsAttended ==
  ASSUME Good, Attended, NEW t \in Threads,
         Save(t) \/ Write(t) \/ Keep(t)
  PROVE  Attended'
<1>1. thread[t] \in Thread /\ thread[t].next \notin Saving
  BY FrameIsGood
<1>2. CASE Save(t)
  <2> DEFINE f == [thread[t] EXCEPT !.record = run]
  <2>1. thread[t].at = "save" /\ run' = run /\ At(t, f, "write")
    BY <1>2 DEF Save, Step
  <2> HIDE DEF f
  <2>2. thread'[t] = [f EXCEPT !.at = "write"]
    BY <2>1, OthersStay
  <2>3. /\ Head(thread'[t]) = Head(thread[t])
        /\ thread'[t] # Idle => thread'[t].proposal = thread[t].proposal
    BY <1>1, <2>1, <2>2 DEF f, Head, Thread, Saving, Idle
  <2> QED  BY <2>1, <2>3, HeadingIsAttended
<1>3. CASE Write(t)
  <2> DEFINE f == [thread[t] EXCEPT !.record = Queued, !.next = "idle"]
  <2>1. thread[t].at = "write" /\ run' = run /\ At(t, f, thread[t].next)
    BY <1>3 DEF Write, Step
  <2> HIDE DEF f
  <2>2. thread'[t] = IF thread[t].next = "idle" THEN Idle
                     ELSE [f EXCEPT !.at = thread[t].next]
    BY <2>1, OthersStay
  <2>3. /\ Head(thread'[t]) = Head(thread[t])
        /\ thread'[t] # Idle => thread'[t].proposal = thread[t].proposal
    BY <1>1, <2>1, <2>2 DEF f, Head, Thread, Saving, Idle
  <2> QED  BY <2>1, <2>3, HeadingIsAttended
<1>4. CASE Keep(t)
  <2> DEFINE f == [thread[t] EXCEPT !.next = "idle"]
  <2>1. thread[t].at = "keep" /\ run' = run /\ At(t, f, thread[t].next)
    BY <1>4 DEF Keep, Step
  <2> HIDE DEF f
  <2>2. thread'[t] = IF thread[t].next = "idle" THEN Idle
                     ELSE [f EXCEPT !.at = thread[t].next]
    BY <2>1, OthersStay
  <2>3. /\ Head(thread'[t]) = Head(thread[t])
        /\ thread'[t] # Idle => thread'[t].proposal = thread[t].proposal
    BY <1>1, <2>1, <2>2 DEF f, Head, Thread, Saving, Idle
  <2> QED  BY <2>1, <2>3, HeadingIsAttended
<1> QED  BY <1>2, <1>3, <1>4

\* A thread goes on from one point of its work to the next.
LEMMA WorkingOnIsAttended ==
  ASSUME Good, Attended, NEW t \in Threads,
         NEW f, NEW point, At(t, f, point), run'.status = run.status,
         NEW from, Step(t, from), from \notin Saving,
         NEW next, next = Head(thread'[t]),
         thread'[t].proposal = thread[t].proposal,
         \/ from = "launched" /\ next = "boundary"
         \/ from = "ready" /\ next = "boundary"
         \/ from = "explore" /\ next = "settle"
         \/ from = "explore" /\ next = "keep_fresh" /\ thread[t].proposal = 0
         \/ from = "keep_fresh" /\ next = "settle"
         \/ from = "keep_fresh" /\ thread[t].proposal # 0
         \/ from \in {"capture", "check", "patch"} /\
            next \in {"check", "patch", "blocked", "conclude"}
         \/ from = "validate" /\ next = "conclude"
  PROVE  Attended'
<1> DEFINE head == Head(thread[t])
           p    == thread[t].proposal
           q    == thread'[t].proposal
<1>1. head = from /\ q = p
  BY DEF Head, Step
<1>2. \A status : WorksAt(from, p, status) => WorksAt(next, p, status)
  BY WorkingPairs
<1>3. /\ head = Head(thread[t]) /\ p = thread[t].proposal /\ q = thread'[t].proposal
      /\ \A status : WorksAt(head, p, status) => WorksAt(next, q, status)
  BY <1>1, <1>2
<1> HIDE DEF head, p, q
<1> QED  BY <1>3, WorkGoesOn

\* What stops or settles a run leaves it no work to show.
NobodyNeeded(r) == r.status \notin WorkingStatuses

LEMMA QuietStatuses ==
  ASSUME NEW r \in RunRecord
  PROVE  /\ \A state : NobodyNeeded(StoppedAt(r, state))
         /\ \A outcome, exhausted : NobodyNeeded(SettledRun(r, outcome, exhausted))
         /\ NobodyNeeded(PauseRequested(r)) /\ NobodyNeeded(CancelRequested(r))
         /\ NobodyNeeded(Restored(r))
<1>1. \A s \in RunRecord : \A state : NobodyNeeded(StoppedAt(s, state))
  BY DEF StoppedAt, RunRecord, NobodyNeeded, WorkingStatuses
<1>2. ASSUME NEW outcome, NEW exhausted
      PROVE  NobodyNeeded(SettledRun(r, outcome, exhausted))
  <2> DEFINE waiting == outcome \in {"proposal", "approval", "input"}
             state   == IF outcome = "input" THEN "awaiting_input"
                        ELSE IF waiting THEN "awaiting_approval" ELSE "completed"
  <2>1. \/ SettledRun(r, outcome, exhausted) = StoppedAt(r, state)
        \/ SettledRun(r, outcome, exhausted) = [r EXCEPT !.status = "failed"]
        \/ SettledRun(r, outcome, exhausted) = [r EXCEPT !.status = state,
                                                         !.pause = FALSE]
    BY DEF SettledRun
  <2>2. /\ NobodyNeeded([r EXCEPT !.status = "failed"])
        /\ NobodyNeeded([r EXCEPT !.status = state, !.pause = FALSE])
    BY DEF RunRecord, NobodyNeeded, WorkingStatuses
  <2>3. NobodyNeeded(StoppedAt(r, state))
    BY <1>1
  <2> QED  BY <2>1, <2>2, <2>3
<1>3. /\ NobodyNeeded(PauseRequested(r)) /\ NobodyNeeded(CancelRequested(r))
  BY DEF PauseRequested, CancelRequested, RunRecord, NobodyNeeded, WorkingStatuses
<1>4. NobodyNeeded(Restored(r))
  BY DEF Restored, Interrupted, RunRecord, NobodyNeeded, WorkingStatuses,
         ActiveStatuses
<1> QED  BY <1>1, <1>2, <1>3, <1>4

\* A thread saves a run that shows no work.
LEMMA QuietIsAttended ==
  ASSUME Good, NEW r, NobodyNeeded(r), run' = r
  PROVE  Attended'
  BY DEF Attended, NobodyNeeded

\* A thread names a status that shows no work.
QuietNames == {"awaiting_approval", "awaiting_input", "repair_pending", "completed",
               "failed", "cancelled", "diagnosing", "replanning"}

LEMMA NamingIsAttended ==
  ASSUME Good, NEW status \in QuietNames,
         \/ run' = [run EXCEPT !.status = status]
         \/ run' = [run EXCEPT !.status = status, !.pause = FALSE]
  PROVE  Attended'
<1>1. run \in RunRecord
  BY DEF Good, Sound
<1>2. run'.status = status
  BY <1>1 DEF RunRecord
<1> QED  BY <1>2 DEF Attended, WorkingStatuses, QuietNames

LEMMA WorkerIsAttended ==
  ASSUME Good, Attended, NEW t \in Threads,
         \/ KeepFresh(t) \/ Launch(t) \/ CreateSandbox(t) \/ SandboxReady(t)
         \/ Boundary(t) \/ Explore(t) \/ Settle(t) \/ WorkerFails(t)
  PROVE  Attended'
<1>1. /\ thread[t] \in Thread /\ run \in RunRecord
      /\ thread[t].at \notin Saving =>
           CanBeAt(thread[t], thread[t].at, run, sessions, savedSessions)
  BY FrameIsGood DEF Good, Sound
<1>2. CASE KeepFresh(t)
  <2>1. Step(t, "keep_fresh") /\ "keep_fresh" \notin Saving /\ run' = run
    BY <1>2 DEF KeepFresh, Saving
  <2>2. CASE thread[t].proposal = 0
    <3>1. At(t, thread[t], "settle")
      BY <1>2, <2>2 DEF KeepFresh, GoOn
    <3>2. thread'[t] = [thread[t] EXCEPT !.at = "settle"]
      BY <3>1, OthersStay
    <3>3. Head(thread'[t]) = "settle" /\ thread'[t].proposal = thread[t].proposal
      BY <1>1, <3>2 DEF Head, Thread, Saving
    <3> QED  BY <2>1, <3>1, <3>3, WorkingOnIsAttended
  <2>3. CASE thread[t].proposal # 0
    <3> DEFINE f == [thread[t] EXCEPT !.next = "publish"]
    <3>1. At(t, f, "keep")
      BY <1>2, <2>3 DEF KeepFresh
    <3> HIDE DEF f
    <3>2. thread'[t] = [f EXCEPT !.at = "keep"]
      BY <3>1, OthersStay
    <3>3. thread'[t].proposal = thread[t].proposal
      BY <1>1, <3>2 DEF f, Thread
    <3> DEFINE next == Head(thread'[t])
    <3>4. next = Head(thread'[t])
      OBVIOUS
    <3> HIDE DEF next
    <3> QED  BY <2>1, <2>3, <3>1, <3>3, <3>4, WorkingOnIsAttended
  <2> QED  BY <2>2, <2>3
<1>3. CASE Launch(t)
  <2>1. Step(t, "launched") /\ "launched" \notin Saving
    BY <1>3 DEF Launch, Saving
  <2>2. CASE thread[t].reuse
    <3> DEFINE f == [[thread[t] EXCEPT !.sandbox = run.sandbox]
                       EXCEPT !.next = "boundary"]
    <3>1. At(t, f, "save") /\ run' = run
      BY <1>3, <2>2 DEF Launch, UpdateAndSave
    <3> HIDE DEF f
    <3>2. thread'[t] = [f EXCEPT !.at = "save"]
      BY <3>1, OthersStay
    <3>3. Head(thread'[t]) = "boundary" /\ thread'[t].proposal = thread[t].proposal
      BY <1>1, <3>2 DEF f, Head, Thread, Saving
    <3> QED  BY <2>1, <3>1, <3>3, WorkingOnIsAttended
  <2>3. CASE ~thread[t].reuse
    <3> DEFINE r == [run EXCEPT !.status = "creating_sandbox"]
    <3>1. UpdateAndSave(t, r, thread[t], "create") /\ r.status = "creating_sandbox"
      BY <1>1, <1>3, <2>3 DEF Launch, RunRecord
    <3>2. /\ \A p : WorksAt("create", p, "creating_sandbox")
          /\ "create" \in Destinations
      BY WorkingPairs DEF Destinations, Points, Saving
    <3> HIDE DEF r
    <3> QED  BY <1>1, <3>1, <3>2, WorkIsTakenUp
  <2> QED  BY <2>2, <2>3
<1>4. CASE CreateSandbox(t)
  <2>1. PICK s \in Sandboxes :
          UpdateAndSave(t, [run EXCEPT !.status = "creating_sandbox", !.sandbox = s],
                        [thread[t] EXCEPT !.sandbox = s], "ready")
    BY <1>4 DEF CreateSandbox
  <2> DEFINE r == [run EXCEPT !.status = "creating_sandbox", !.sandbox = s]
             f == [thread[t] EXCEPT !.sandbox = s]
  <2>2. r.status = "creating_sandbox"
    BY <1>1 DEF RunRecord
  <2>3. f \in Thread
    <3>1. s \in 0..MaxSandboxes
      BY DEF Sandboxes
    <3> QED  BY <1>1, <3>1 DEF Thread
  <2>4. /\ \A p : WorksAt("ready", p, "creating_sandbox")
        /\ "ready" \in Destinations
    BY WorkingPairs DEF Destinations, Points, Saving
  <2>5. UpdateAndSave(t, r, f, "ready")
    BY <2>1
  <2> HIDE DEF r, f
  <2> QED  BY <2>2, <2>3, <2>4, <2>5, WorkIsTakenUp
<1>5. CASE SandboxReady(t)
  <2> DEFINE f == [thread[t] EXCEPT !.next = "boundary"]
  <2>1. /\ Step(t, "ready") /\ "ready" \notin Saving
        /\ At(t, f, "save") /\ run' = run
    BY <1>5 DEF SandboxReady, UpdateAndSave, Saving
  <2> HIDE DEF f
  <2>2. thread'[t] = [f EXCEPT !.at = "save"]
    BY <2>1, OthersStay
  <2>3. Head(thread'[t]) = "boundary" /\ thread'[t].proposal = thread[t].proposal
    BY <1>1, <2>2 DEF f, Head, Thread, Saving
  <2> QED  BY <2>1, <2>3, WorkingOnIsAttended
<1>6. CASE Boundary(t)
  <2>1. CASE MustStop(run)
    <3>1. run' = StoppedAt(run, "exploring")
      BY <1>6, <2>1 DEF Boundary, UpdateAndSave
    <3> QED  BY <1>1, <3>1, QuietStatuses, QuietIsAttended
  <2>2. CASE ~MustStop(run)
    <3> DEFINE r == [run EXCEPT !.status = "exploring"]
    <3>1. UpdateAndSave(t, r, thread[t], "explore") /\ r.status = "exploring"
      BY <1>1, <1>6, <2>2 DEF Boundary, RunRecord
    <3>2. /\ \A p : WorksAt("explore", p, "exploring")
          /\ "explore" \in Destinations
      BY WorkingPairs DEF Destinations, Points, Saving
    <3> HIDE DEF r
    <3> QED  BY <1>1, <3>1, <3>2, WorkIsTakenUp
  <2> QED  BY <2>1, <2>2
<1>7. CASE Explore(t)
  <2>1. Step(t, "explore") /\ "explore" \notin Saving /\ run' = run
    BY <1>7 DEF Explore, Saving
  <2>2. thread[t].proposal = 0
    BY <1>1, <2>1 DEF Step, CanBeAt, WorkerPoints
  <2>3. CASE \E p \in NextProposal :
               At(t, [thread[t] EXCEPT !.fresh = p, !.outcome = "proposal"],
                  "keep_fresh")
    <3>1. PICK p \in NextProposal :
            At(t, [thread[t] EXCEPT !.fresh = p, !.outcome = "proposal"], "keep_fresh")
      BY <2>3
    <3> DEFINE f == [thread[t] EXCEPT !.fresh = p, !.outcome = "proposal"]
    <3>2. At(t, f, "keep_fresh")
      BY <3>1
    <3> HIDE DEF f
    <3>3. thread'[t] = [f EXCEPT !.at = "keep_fresh"]
      BY <3>2, OthersStay
    <3>4. Head(thread'[t]) = "keep_fresh" /\ thread'[t].proposal = thread[t].proposal
      BY <1>1, <3>3 DEF f, Head, Thread, Saving
    <3> QED  BY <2>1, <2>2, <3>2, <3>4, WorkingOnIsAttended
  <2>4. CASE \E outcome \in {"approval", "input", "nothing"} :
               At(t, [thread[t] EXCEPT !.outcome = outcome], "settle")
    <3>1. PICK outcome \in {"approval", "input", "nothing"} :
            At(t, [thread[t] EXCEPT !.outcome = outcome], "settle")
      BY <2>4
    <3> DEFINE f == [thread[t] EXCEPT !.outcome = outcome]
    <3>2. At(t, f, "settle")
      BY <3>1
    <3> HIDE DEF f
    <3>3. thread'[t] = [f EXCEPT !.at = "settle"]
      BY <3>2, OthersStay
    <3>4. Head(thread'[t]) = "settle" /\ thread'[t].proposal = thread[t].proposal
      BY <1>1, <3>3 DEF f, Head, Thread, Saving
    <3> QED  BY <2>1, <3>2, <3>4, WorkingOnIsAttended
  <2> QED  BY <1>7, <2>3, <2>4 DEF Explore
<1>8. CASE Settle(t)
  <2> DEFINE named == [run EXCEPT !.proposal = thread[t].fresh]
  <2>1. PICK exhausted \in BOOLEAN :
          run' = SettledRun(named, thread[t].outcome, exhausted)
    BY <1>8 DEF Settle, UpdateAndSave
  <2>2. named \in RunRecord
    BY <1>1 DEF RunRecord, Thread
  <2> HIDE DEF named
  <2> QED  BY <2>1, <2>2, QuietStatuses, QuietIsAttended
<1>9. CASE WorkerFails(t)
  <2>1. run' = [run EXCEPT !.status = "failed"] /\ "failed" \in QuietNames
    BY <1>9 DEF WorkerFails, UpdateAndSave, QuietNames
  <2> QED  BY <2>1, NamingIsAttended
<1> QED  BY <1>2, <1>3, <1>4, <1>5, <1>6, <1>7, <1>8, <1>9

\* A point of an apply follows another.
LEMMA ApplyingOnIsAttended ==
  ASSUME Good, Attended, NEW t \in Threads, NEW f, f \in Thread,
         f.proposal = thread[t].proposal,
         NEW from \in {"capture", "check", "patch", "validate"}, Step(t, from),
         run' = run,
         NEW next, from = "validate" => next = "conclude",
         from # "validate" => next \in {"check", "patch", "blocked", "conclude"},
         \/ At(t, f, next)
         \/ At(t, [f EXCEPT !.next = next], "keep")
  PROVE  Attended'
<1>1. from \notin Saving
  BY DEF Saving
<1>2. CASE At(t, f, next)
  <2>1. thread'[t] = [f EXCEPT !.at = next]
    BY <1>2, OthersStay
  <2>2. Head(thread'[t]) = next /\ thread'[t].proposal = thread[t].proposal
    BY <2>1 DEF Head, Thread, Saving
  <2> QED  BY <1>1, <1>2, <2>2, WorkingOnIsAttended
<1>3. CASE At(t, [f EXCEPT !.next = next], "keep")
  <2> DEFINE g == [f EXCEPT !.next = next]
  <2>1. At(t, g, "keep")
    BY <1>3
  <2> HIDE DEF g
  <2>2. thread'[t] = [g EXCEPT !.at = "keep"]
    BY <2>1, OthersStay
  <2>3. Head(thread'[t]) = next /\ thread'[t].proposal = thread[t].proposal
    BY <2>2 DEF g, Head, Thread, Saving
  <2> QED  BY <1>1, <2>1, <2>3, WorkingOnIsAttended
<1> QED  BY <1>2, <1>3

LEMMA ApplyIsAttended ==
  ASSUME Good, Attended, NEW t \in Threads, Apply(t)
  PROVE  Attended'
<1>1. PICK p \in Proposals :
        \/ run' = [run EXCEPT !.status = "awaiting_approval"]
        \/ UpdateAndSave(t, [run EXCEPT !.status = "applying"],
                         [thread[t] EXCEPT !.proposal = p], "capture")
  BY DEF Apply, UpdateAndSave
<1>2. CASE run' = [run EXCEPT !.status = "awaiting_approval"]
  <2>1. "awaiting_approval" \in QuietNames
    BY DEF QuietNames
  <2> QED  BY <1>2, <2>1, NamingIsAttended
<1>3. CASE UpdateAndSave(t, [run EXCEPT !.status = "applying"],
                         [thread[t] EXCEPT !.proposal = p], "capture")
  <2> DEFINE r == [run EXCEPT !.status = "applying"]
             f == [thread[t] EXCEPT !.proposal = p]
  <2>1. r.status = "applying" /\ UpdateAndSave(t, r, f, "capture")
    BY <1>3 DEF Good, Sound, RunRecord
  <2>2. f \in Thread
    BY FrameIsGood DEF Thread, Proposals
  <2>3. /\ \A q : WorksAt("capture", q, "applying")
        /\ "capture" \in Destinations
    BY WorkingPairs DEF Destinations, Points, Saving
  <2> HIDE DEF r, f
  <2> QED  BY <2>1, <2>2, <2>3, WorkIsTakenUp
<1> QED  BY <1>1, <1>2, <1>3

LEMMA ApplyingIsAttended ==
  ASSUME Good, Attended, NEW t \in Threads,
         \/ Capture(t) \/ CheckHash(t) \/ WriteEdits(t) \/ EditsConflict(t)
         \/ SafetyBlocks(t) \/ Blocked(t) \/ Validate(t) \/ Conclude(t)
         \/ Respond(t) \/ ClientGone(t)
  PROVE  Attended'
<1>1. thread[t] \in Thread /\ run \in RunRecord
  BY FrameIsGood DEF Good, Sound
<1>2. /\ {"failed", "awaiting_approval", "completed", "diagnosing",
          "repair_pending"} \subseteq QuietNames
  BY DEF QuietNames
<1>3. CASE Capture(t)
  <2> DEFINE f    == [thread[t] EXCEPT !.original = Content(t)]
             next == IF Structured[thread[t].proposal] THEN "check" ELSE "patch"
  <2>1. Step(t, "capture") /\ At(t, f, next) /\ run' = run
    BY <1>3 DEF Capture
  <2>2. Content(t) \in Contents
    BY <2>1, ProposalFrame DEF ProposalPoints
  <2>3. f \in Thread /\ f.proposal = thread[t].proposal
    BY <1>1, <2>2 DEF Thread
  <2>4. next \in {"check", "patch"}
    OBVIOUS
  <2> HIDE DEF f, next
  <2> QED  BY <2>1, <2>3, <2>4, ApplyingOnIsAttended
<1>4. CASE CheckHash(t)
  <2>1. CASE Conflicts(t)
    <3>1. run' = [run EXCEPT !.status = "failed"]
      BY <1>4, <2>1 DEF CheckHash, ApplyFails, UpdateAndSave
    <3> QED  BY <1>2, <3>1, NamingIsAttended
  <2>2. CASE ~Conflicts(t)
    <3>1. Step(t, "check") /\ At(t, thread[t], "patch") /\ run' = run
      BY <1>4, <2>2 DEF CheckHash, GoOn
    <3> QED  BY <1>1, <3>1, ApplyingOnIsAttended
  <2> QED  BY <2>1, <2>2
<1>5. CASE WriteEdits(t)
  <2>1. CASE HasValidation
    <3> DEFINE r == [run EXCEPT !.status = "validating"]
    <3>1. r.status = "validating" /\ UpdateAndSave(t, r, thread[t], "validate")
      BY <1>1, <1>5, <2>1 DEF WriteEdits, RunRecord
    <3>2. /\ \A q : WorksAt("validate", q, "validating")
          /\ "validate" \in Destinations
      BY WorkingPairs DEF Destinations, Points, Saving
    <3> HIDE DEF r
    <3> QED  BY <1>1, <3>1, <3>2, WorkIsTakenUp
  <2>2. CASE ~HasValidation
    <3>1. /\ Step(t, "patch") /\ run' = run
          /\ At(t, [thread[t] EXCEPT !.next = "conclude"], "keep")
      BY <1>5, <2>2 DEF WriteEdits
    <3> DEFINE f == thread[t]
    <3>2. /\ f \in Thread /\ f.proposal = thread[t].proposal
          /\ At(t, [f EXCEPT !.next = "conclude"], "keep")
      BY <1>1, <3>1
    <3> HIDE DEF f
    <3> QED  BY <3>1, <3>2, ApplyingOnIsAttended
  <2> QED  BY <2>1, <2>2
<1>6. CASE EditsConflict(t)
  <2>1. run' = [run EXCEPT !.status = "failed"]
    BY <1>6 DEF EditsConflict, ApplyFails, UpdateAndSave
  <2> QED  BY <1>2, <2>1, NamingIsAttended
<1>7. CASE SafetyBlocks(t)
  <2> DEFINE f == thread[t]
  <2>1. /\ Step(t, "patch") /\ run' = run /\ f \in Thread
        /\ f.proposal = thread[t].proposal
        /\ At(t, [f EXCEPT !.next = "blocked"], "keep")
    BY <1>1, <1>7 DEF SafetyBlocks
  <2> HIDE DEF f
  <2> QED  BY <2>1, ApplyingOnIsAttended
<1>8. CASE Blocked(t)
  <2>1. run' = [run EXCEPT !.status = "awaiting_approval"]
    BY <1>8 DEF Blocked, UpdateAndSave
  <2> QED  BY <1>2, <2>1, NamingIsAttended
<1>9. CASE Validate(t)
  <2>1. Step(t, "validate") /\ run' = run
    BY <1>9 DEF Validate
  <2>2. PICK outcome \in {"passed", "failed"} :
          At(t, [[thread[t] EXCEPT !.outcome = outcome] EXCEPT !.next = "conclude"],
             "keep")
    BY <1>9 DEF Validate, UpdateAndKeep
  <2> DEFINE f == [thread[t] EXCEPT !.outcome = outcome]
  <2>3. /\ f \in Thread /\ f.proposal = thread[t].proposal
        /\ At(t, [f EXCEPT !.next = "conclude"], "keep")
    BY <1>1, <2>2 DEF Thread, Outcomes
  <2> HIDE DEF f
  <2> QED  BY <2>1, <2>3, ApplyingOnIsAttended
<1>10. CASE Conclude(t)
  <2>1. PICK status \in Conclusions(t) :
          \/ run' = StoppedAt(run, "repair_pending")
          \/ run' = [run EXCEPT !.status = status, !.pause = FALSE]
    BY <1>10 DEF Conclude, UpdateAndSave
  <2>2. status \in QuietNames
    BY <1>2 DEF Conclusions
  <2>3. CASE run' = StoppedAt(run, "repair_pending")
    BY <1>1, <2>3, QuietStatuses, QuietIsAttended
  <2>4. CASE run' = [run EXCEPT !.status = status, !.pause = FALSE]
    BY <2>2, <2>4, NamingIsAttended
  <2> QED  BY <2>1, <2>3, <2>4
<1>11. CASE Respond(t)
  <2> DEFINE f == [thread[t] EXCEPT !.auto = TRUE, !.outcome = "none", !.original = 0]
  <2>1. thread[t].at = "respond" /\ At(t, f, "repair") /\ run' = run
    BY <1>11 DEF Respond, Step
  <2> HIDE DEF f
  <2> QED  BY <2>1, BystandersDoNotCount
<1>12. CASE ClientGone(t)
  <2>1. thread[t].at = "respond" /\ At(t, thread[t], "idle") /\ run' = run
    BY <1>12 DEF ClientGone, Step, GoOn
  <2> QED  BY <2>1, BystandersDoNotCount
<1> QED  BY <1>3, <1>4, <1>5, <1>6, <1>7, <1>8, <1>9, <1>10, <1>11, <1>12

\* A thread at a point that counts for no status changes a session, or saves the
\* run as it is.
LEMMA BystandersSave ==
  ASSUME Good, Attended, NEW t \in Threads, NEW f, NEW point,
         \/ UpdateAndSave(t, run, f, point)
         \/ \E p, session : UpdateAndKeep(t, p, session, f, point) /\ run' = run,
         thread[t].at \in {"idle", "respond", "revert", "restore", "repair", "replan",
                           "report", "raised", "readiness", "prepare"}
  PROVE  Attended'
<1> DEFINE g == [f EXCEPT !.next = point]
<1>1. (At(t, g, "save") \/ At(t, g, "keep")) /\ run' = run
  BY DEF UpdateAndSave, UpdateAndKeep
<1> HIDE DEF g
<1> QED  BY <1>1, BystandersDoNotCount

LEMMA RepairingIsAttended ==
  ASSUME Good, Attended, NEW t \in Threads,
         \/ BeginRepair(t) \/ StopRun(t) \/ Report(t) \/ Diagnosed(t) \/ Replan(t)
         \/ ReplanFails(t) \/ Publish(t) \/ Raised(t)
  PROVE  Attended'
<1>1. thread[t] \in Thread /\ run \in RunRecord
  BY FrameIsGood DEF Good, Sound
<1>2. {"failed", "diagnosing", "replanning", "awaiting_approval",
       "repair_pending"} \subseteq QuietNames
  BY DEF QuietNames
<1>3. CASE BeginRepair(t)
  <2>1. /\ thread[t].at = "repair"
        /\ \/ GoOn(t, "idle") /\ run' = run
           \/ StopLoop(t, "none")
           \/ GoOn(t, "raised") /\ run' = run
           \/ run' = [run EXCEPT !.status = "diagnosing"]
    BY <1>3 DEF BeginRepair, Step, UpdateAndSave
  <2>2. CASE GoOn(t, "idle") /\ run' = run
    BY <2>1, <2>2, BystandersDoNotCount DEF GoOn
  <2>3. CASE StopLoop(t, "none")
    BY <2>1, <2>3, BystandersSave DEF StopLoop
  <2>4. CASE GoOn(t, "raised") /\ run' = run
    BY <2>1, <2>4, BystandersDoNotCount DEF GoOn
  <2>5. CASE run' = [run EXCEPT !.status = "diagnosing"]
    BY <1>2, <2>5, NamingIsAttended
  <2> QED  BY <2>1, <2>2, <2>3, <2>4, <2>5
<1>4. CASE StopRun(t)
  <2>1. run' = [run EXCEPT !.status = "failed"]
    BY <1>4 DEF StopRun, UpdateAndSave
  <2> QED  BY <1>2, <2>1, NamingIsAttended
<1>5. CASE Report(t)
  <2>1. thread[t].at = "report" /\ UpdateAndSave(t, run, thread[t], "idle")
    BY <1>5 DEF Report, Step
  <2> QED  BY <2>1, BystandersSave
<1>6. CASE Diagnosed(t)
  <2>1. CASE MustStop(run)
    <3>1. run' = StoppedAt(run, "repair_pending")
      BY <1>6, <2>1 DEF Diagnosed, UpdateAndSave
    <3> QED  BY <1>1, <3>1, QuietStatuses, QuietIsAttended
  <2>2. CASE ~MustStop(run)
    <3>1. run' = [run EXCEPT !.status = "replanning"]
      BY <1>6, <2>2 DEF Diagnosed, UpdateAndSave
    <3> QED  BY <1>2, <3>1, NamingIsAttended
  <2> QED  BY <2>1, <2>2
<1>7. CASE Replan(t)
  <2>1. /\ thread[t].at = "replan"
        /\ \/ run' = StoppedAt(run, "repair_pending")
           \/ StopLoop(t, "analysed")
           \/ \E p \in NextProposal :
                At(t, [thread[t] EXCEPT !.fresh = p], "keep_fresh") /\ run' = run
    BY <1>7 DEF Replan, Step, UpdateAndSave
  <2>2. CASE run' = StoppedAt(run, "repair_pending")
    BY <1>1, <2>2, QuietStatuses, QuietIsAttended
  <2>3. CASE StopLoop(t, "analysed")
    BY <2>1, <2>3, BystandersSave DEF StopLoop
  <2>4. CASE \E p \in NextProposal :
               At(t, [thread[t] EXCEPT !.fresh = p], "keep_fresh") /\ run' = run
    <3>1. PICK p \in NextProposal :
            At(t, [thread[t] EXCEPT !.fresh = p], "keep_fresh") /\ run' = run
      BY <2>4
    <3> DEFINE f == [thread[t] EXCEPT !.fresh = p]
    <3>2. At(t, f, "keep_fresh")
      BY <3>1
    <3> HIDE DEF f
    <3> QED  BY <2>1, <3>1, <3>2, BystandersDoNotCount
  <2> QED  BY <2>1, <2>2, <2>3, <2>4
<1>8. CASE ReplanFails(t)
  <2>1. /\ thread[t].at = "replan" /\ run' = run
        /\ At(t, thread[t], "raised") \/ At(t, thread[t], "idle")
    BY <1>8 DEF ReplanFails, Step, GoOn
  <2> QED  BY <2>1, BystandersDoNotCount
<1>9. CASE Publish(t)
  <2> DEFINE named == [run EXCEPT !.proposal = thread[t].fresh]
  <2>1. named \in RunRecord
    BY <1>1 DEF RunRecord, Thread
  <2>2. run' = IF MustStop(run) THEN StoppedAt(named, "awaiting_approval")
               ELSE [named EXCEPT !.status = "awaiting_approval"]
    BY <1>9 DEF Publish, UpdateAndSave
  <2> HIDE DEF named
  <2>3. /\ NobodyNeeded(StoppedAt(named, "awaiting_approval"))
        /\ NobodyNeeded([named EXCEPT !.status = "awaiting_approval"])
    BY <2>1, QuietStatuses DEF NobodyNeeded, RunRecord, WorkingStatuses
  <2>4. NobodyNeeded(run')
    BY <2>2, <2>3
  <2> QED  BY <2>4 DEF NobodyNeeded, Attended
<1>10. CASE Raised(t)
  <2>1. thread[t].at = "raised"
    BY <1>10 DEF Raised, Step
  <2>2. CASE run.status \in LeftAlone(thread[t].auto)
    <3>1. At(t, thread[t], "idle") /\ run' = run
      BY <1>10, <2>2 DEF Raised, GoOn
    <3> QED  BY <2>1, <3>1, BystandersDoNotCount
  <2>3. CASE run.status \notin LeftAlone(thread[t].auto)
    <3>1. run' = [run EXCEPT !.status = "repair_pending"]
      BY <1>10, <2>3 DEF Raised, UpdateAndSave
    <3> QED  BY <1>2, <3>1, NamingIsAttended
  <2> QED  BY <2>2, <2>3
<1> QED  BY <1>3, <1>4, <1>5, <1>6, <1>7, <1>8, <1>9, <1>10

LEMMA RequestsAreAttended ==
  ASSUME Good, Attended, NEW t \in Threads,
         \/ Revert(t) \/ CheckRevert(t) \/ Restore(t) \/ Reverted(t) \/ Repair(t)
         \/ Pause(t) \/ Cancel(t) \/ Resume(t)
  PROVE  Attended'
<1>1. thread[t] \in Thread /\ run \in RunRecord
  BY FrameIsGood DEF Good, Sound
<1>2. CASE Revert(t) \/ Repair(t)
  <2>1. PICK p \in Proposals, next \in {"revert", "repair"} :
          At(t, [thread[t] EXCEPT !.proposal = p], next)
    BY <1>2 DEF Revert, Repair
  <2>2. thread[t].at = "idle" /\ run' = run
    BY <1>2 DEF Revert, Repair, Request
  <2> DEFINE f == [thread[t] EXCEPT !.proposal = p]
  <2>3. At(t, f, next)
    BY <2>1
  <2> HIDE DEF f
  <2> QED  BY <2>2, <2>3, BystandersDoNotCount
<1>3. CASE CheckRevert(t)
  <2> DEFINE f == [thread[t] EXCEPT !.original =
                                      sessions[thread[t].proposal].rollback]
             g == [thread[t] EXCEPT !.next = "idle"]
  <2>1. thread[t].at = "revert" /\ run' = run
    BY <1>3 DEF CheckRevert, Step
  <2>2. At(t, f, "restore") \/ At(t, g, "keep")
    <3> DEFINE rollback == sessions[thread[t].proposal].rollback
    <3>1. CASE rollback = NoContent \/ Content(t) = thread[t].proposal
      BY <1>3, <3>1 DEF CheckRevert
    <3>2. CASE ~(rollback = NoContent \/ Content(t) = thread[t].proposal)
      BY <1>3, <3>2 DEF CheckRevert
    <3> QED  BY <3>1, <3>2
  <2> HIDE DEF f, g
  <2> QED  BY <2>1, <2>2, BystandersDoNotCount
<1>4. CASE Restore(t)
  <2>1. /\ thread[t].at = "restore" /\ run' = run
        /\ \E p, session : UpdateAndKeep(t, p, session, thread[t], "reverted")
    BY <1>4 DEF Restore, Step
  <2> QED  BY <2>1, BystandersSave
<1>5. CASE Reverted(t)
  <2>1. run' = [run EXCEPT !.status = "cancelled"] /\ "cancelled" \in QuietNames
    BY <1>5 DEF Reverted, UpdateAndSave, QuietNames
  <2> QED  BY <2>1, NamingIsAttended
<1>6. CASE Pause(t)
  <2>1. run' = PauseRequested(run)
    BY <1>6 DEF Pause, UpdateAndSave
  <2> QED  BY <1>1, <2>1, QuietStatuses, QuietIsAttended
<1>7. CASE Cancel(t)
  <2>1. run' = CancelRequested(run)
    BY <1>7 DEF Cancel, UpdateAndSave
  <2> QED  BY <1>1, <2>1, QuietStatuses, QuietIsAttended
<1>8. CASE Resume(t)
  <2> DEFINE f == [thread[t] EXCEPT !.wanted = PlannedCheckpoint(run)]
  <2>1. thread[t].at = "idle" /\ run' = run /\ At(t, f, "readiness")
    BY <1>8 DEF Resume, Request
  <2> HIDE DEF f
  <2> QED  BY <2>1, BystandersDoNotCount
<1> QED  BY <1>2, <1>3, <1>4, <1>5, <1>6, <1>7, <1>8

LEMMA ResumingIsAttended ==
  ASSUME Good, Attended, NEW t \in Threads,
         \/ CheckReadiness(t) \/ RefuseResume(t)
         \/ Prepare(t) \/ LaunchPrepared(t)
  PROVE  Attended'
<1>1. thread[t] \in Thread /\ run \in RunRecord
  BY FrameIsGood DEF Good, Sound
<1>2. CASE CheckReadiness(t)
  <2>1. CASE run' = [run EXCEPT !.status = "awaiting_input"]
    <3>1. "awaiting_input" \in QuietNames
      BY DEF QuietNames
    <3> QED  BY <2>1, <3>1, NamingIsAttended
  <2>2. CASE At(t, thread[t], "prepare") /\ run' = run
    <3>1. thread[t].at = "readiness"
      BY <1>2 DEF CheckReadiness, Step
    <3> QED  BY <2>2, <3>1, BystandersDoNotCount
  <2> QED  BY <1>2, <2>1, <2>2 DEF CheckReadiness, GoOn, UpdateAndSave
<1>3. CASE RefuseResume(t)
  <2>1. thread[t].at = "readiness" /\ UpdateAndSave(t, run, thread[t], "idle")
    BY <1>3 DEF RefuseResume, Step
  <2> QED  BY <2>1, BystandersSave
<1>4. CASE Prepare(t)
  <2>1. thread[t].at = "prepare"
    BY <1>4 DEF Prepare, Step
  <2>2. CASE ~StillPlanned(t)
    <3>1. UpdateAndSave(t, run, thread[t], "idle")
      BY <1>4, <2>2 DEF Prepare
    <3> QED  BY <2>1, <3>1, BystandersSave
  <2>3. CASE StillPlanned(t)
    <3> DEFINE r    == Prepared(run)
               f    == [thread[t] EXCEPT !.reuse =
                                           thread[t].wanted \in SandboxCheckpoints]
    <3>1. UpdateAndSave(t, r, f, "prepared")
      BY <1>4, <2>3 DEF Prepare
    <3>2. f \in Thread
      <4> DEFINE reuse == thread[t].wanted \in SandboxCheckpoints
      <4>1. reuse \in BOOLEAN
        OBVIOUS
      <4> HIDE DEF reuse
      <4>2. [thread[t] EXCEPT !.reuse = reuse] \in Thread
        BY <1>1, <4>1 DEF Thread
      <4> QED  BY <4>2 DEF reuse
    <3>3. /\ r.status \in {"queued", "awaiting_approval", "repair_pending"}
          /\ "prepared" \in Destinations
      BY <1>1 DEF Prepared, RunRecord, Destinations, Points, Saving
    <3>4. r.status \in WorkingStatuses => r.status = "queued"
      BY <3>3 DEF WorkingStatuses
    <3>5. \A p : WorksAt("prepared", p, "queued")
      BY WorkingPairs
    <3> HIDE DEF r, f
    <3> QED  BY <3>1, <3>2, <3>3, <3>4, <3>5, WorkIsTakenUp
  <2> QED  BY <2>2, <2>3
<1>5. CASE LaunchPrepared(t)
  <2> DEFINE point == IF run.status \in {"awaiting_approval", "repair_pending"}
                      THEN "idle" ELSE "launched"
  <2>1. /\ thread[t].at = "prepared" /\ run' = run /\ At(t, thread[t], point)
        /\ run.status = "queued" => point = "launched"
        /\ point \in {"idle", "launched"}
    BY <1>5 DEF LaunchPrepared, GoOn, Step
  <2> HIDE DEF point
  <2>2. thread'[t] = IF point = "idle" THEN Idle ELSE [thread[t] EXCEPT !.at = point]
    BY <2>1, OthersStay
  <2>3. CASE run.status = "queued"
    <3>1. Head(thread'[t]) = "launched"
      BY <1>1, <2>1, <2>2, <2>3 DEF Head, Thread, Saving
    <3>2. WorksOn(thread'[t], run'.status)
      BY <2>1, <2>3, <3>1, WorkingPairs DEF WorksOn
    <3> QED  BY <3>2 DEF Attended
  <2>4. CASE run.status # "queued"
    <3>1. Head(thread[t]) = "prepared"
      BY <2>1 DEF Head, Saving
    <3>2. ~WorksOn(thread[t], run.status)
      BY <2>4, <3>1, WorkingPairs DEF WorksOn
    <3>3. \A u \in Threads : u # t => thread'[u] = thread[u]
      BY <2>1, OthersStay
    <3> QED  BY <2>1, <3>2, <3>3 DEF Attended
  <2> QED  BY <2>3, <2>4
<1> QED  BY <1>2, <1>3, <1>4, <1>5

LEMMA InitIsAttended == Init => Attended
<1> SUFFICES ASSUME Init PROVE Attended
  OBVIOUS
<1>1. PICK t \in Threads :
        thread = [u \in Threads |-> IF u = t THEN [Idle EXCEPT !.at = "launched"]
                                    ELSE Idle]
  BY DEF Init
<1>2. Head(thread[t]) = "launched"
  BY <1>1 DEF Head, Idle, Saving
<1>3. run.status = "queued"
  BY DEF Init, Queued
<1>4. WorksOn(thread[t], run.status)
  BY <1>2, <1>3, WorkingPairs DEF WorksOn
<1> QED  BY <1>4 DEF Attended

LEMMA NextIsAttended == Good /\ Attended /\ [Next]_vars => Attended'
<1> SUFFICES ASSUME Good, Attended, [Next]_vars PROVE Attended'
  OBVIOUS
<1>1. CASE UNCHANGED vars
  <2>1. UNCHANGED <<run, thread>>
    BY <1>1 DEF vars
  <2> QED  BY <2>1 DEF Attended
<1>2. CASE Restart
  <2>1. run' = Restored(saved) /\ saved \in RunRecord
    BY <1>2 DEF Restart, Good, Sound
  <2> QED  BY <2>1, QuietStatuses, QuietIsAttended
<1>3. ASSUME NEW t \in Threads, Work(t)
      PROVE  Attended'
  BY <1>3, SavingIsAttended, WorkerIsAttended, ApplyingIsAttended,
     RepairingIsAttended, RequestsAreAttended, ResumingIsAttended DEF Work
<1>4. ASSUME NEW t \in Threads,
             \/ Apply(t) \/ Revert(t) \/ Repair(t)
             \/ Pause(t) \/ Cancel(t) \/ Resume(t)
      PROVE  Attended'
  BY <1>4, ApplyIsAttended, RequestsAreAttended
<1> QED  BY <1>1, <1>2, <1>3, <1>4 DEF Next

\* A run that shows work going on has a thread of this server process doing it,
\* however many requests, workers and restarts there are: the interface never waits
\* for work that nobody does (web_server.py, _execute_task_run and _handle_apply).
THEOREM WorkIsAttended == Spec => []WorkHasAThread
<1>1. Spec => []Attended
  BY InitIsAttended, NextIsAttended, GoodHolds, PTL DEF Spec
<1> QED  BY <1>1, AttendedIsWork, PTL
=============================================================================
