--------------------------- MODULE MCAgentRuntime ---------------------------
(* Small instances of AgentRuntime.                                        *)
EXTENDS AgentRuntimeRefinement, TLC

CONSTANTS original, absent, edited   \* contents of the file
CONSTANTS patchA, patchB, edit, command, other   \* actions
CONSTANTS k1, k2, k3, k4

TwoPatches        == [a \in Actions |-> "apply_patch"]
PatchesAndCommand == [a \in Actions |-> IF a = command THEN "run_command" ELSE "apply_patch"]
MixedKinds        == [a \in Actions |-> CASE a = patchA -> "apply_patch"
                                          [] a = edit -> "edit_file"
                                          [] OTHER -> "run_command"]
OwnKeys           == [a \in Actions |-> CASE a = patchA -> k1 [] a = patchB -> k2
                                          [] a = edit -> k3 [] OTHER -> k4]
\* patchA and the command are submitted under one idempotency key.
SharedKey         == [a \in Actions |-> IF a = patchB THEN k2 ELSE k1]
OnOriginal        == [a \in Actions |-> original]
Symmetry          == Permutations(Callers)
=============================================================================
