-------------------------- MODULE MCValidationCycle --------------------------
(* The budget, the configured commands and the patch of the instances.     *)
EXTENDS ValidationCycle, TLC

CONSTANTS w1, w2, e1, e2

(* The agent's contents are interchangeable, and so are the fingerprints.  *)
Alike == Permutations(Writes) \union Permutations(Failures)
TwoCommands == <<"c1", "c2">>
SmallBudget == [steps |-> 4, calls |-> 12, commands |-> 4]
(* Hunks that lead from either content of the agent to the other one, and  *)
(* hunks that lead from both back to the sandbox's first content.          *)
Hunks == [p \in {"swap", "revert"} |-> [c \in Contents |->
            IF c \notin Writes THEN "none"
            ELSE IF p = "revert" THEN Original
            ELSE IF c = w1 THEN w2 ELSE w1]]
=============================================================================
