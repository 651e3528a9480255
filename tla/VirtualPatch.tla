---------------------------- MODULE VirtualPatch ----------------------------
(***************************************************************************)
(* The in-memory overlay of proposed edits (runtime/virtual_patch.py).     *)
(* A patch names the file, the content it was written for (its expected    *)
(* SHA-256) and the content its hunks lead to.  Parsing, hunk matching,    *)
(* syntax checks and the diff text are left out, and the limit of twelve   *)
(* files, which exceeds Paths.                                             *)
(***************************************************************************)
EXTENDS WorkingState

Entry(base, current) == [base |-> base, current |-> current,
                         status |-> "proposed"]

(* The result of a tool: its status, what it says of the edits, and        *)
(* whether it changed the file.                                            *)
Obs(status, report, edits, changed) ==
  [status |-> status, report |-> report, edits |-> edits,
   changed |-> changed]
Plain(status) == Obs(status, "none", NoEdits, FALSE)

Stale(overlay, disk, p) == overlay[p] # NoEdit /\ overlay[p].base # disk[p]

(* VirtualPatchOverlay.propose: the new overlay and the observation.       *)
Propose(overlay, disk, patch) ==
  LET p     == patch.path
      stale == Stale(overlay, disk, p)
      fresh == overlay[p] = NoEdit \/ stale
      base  == IF fresh THEN disk[p] ELSE overlay[p].base
      seen  == IF fresh THEN disk[p] ELSE overlay[p].current
      entry == Entry(base, patch.to)
      \* an entry whose baseline moved is dropped unless the patch is stale too
      reset == IF stale THEN [overlay EXCEPT ![p] = NoEdit] ELSE overlay
      moved == [overlay EXCEPT ![p].status = "conflict"]
      after == [overlay EXCEPT ![p] = entry]
  IN  IF stale /\ patch.from # disk[p]
      THEN <<moved, Obs("conflict", "stale", moved, FALSE)>>
      ELSE IF patch.from # seen THEN <<reset, Plain("conflict")>>
      ELSE IF patch.to = base
           THEN <<[overlay EXCEPT ![p] = NoEdit],
                  Obs("completed", "removed", NoEdits, FALSE)>>
      ELSE <<after, Obs("completed", "proposed", after, FALSE)>>

(* VirtualPatchOverlay.inspect.                                            *)
Inspect(overlay, disk) ==
  LET stale == {p \in Paths : Stale(overlay, disk, p)}
      flagged == [p \in Paths |-> IF p \in stale
                    THEN [overlay[p] EXCEPT !.status = "conflict"]
                    ELSE overlay[p]]
      viewed == [p \in Paths |-> IF overlay[p] = NoEdit THEN NoEdit
                    ELSE [overlay[p] EXCEPT !.status = "inspected"]]
  IN  IF stale # {}
      THEN <<flagged, Obs("conflict", "files", flagged, FALSE)>>
      ELSE <<viewed, Obs("completed", "files", viewed, FALSE)>>
=============================================================================
