------------------------------ MODULE MCTaskRun ------------------------------
(* Small instances of TaskRun.                                             *)
EXTENDS TaskRun, TLC

FirstIsStructured == [p \in Proposals |-> p = 1]
Symmetry          == Permutations(Threads)
=============================================================================
