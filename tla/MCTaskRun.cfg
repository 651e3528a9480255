CONSTANTS
  Threads = {t1, t2}
  MaxProposals = 3
  MaxSandboxes = 2
  MaxRequests = 3
  MaxRestarts = 1
  MaxRepairs = 1
  Structured <- FirstIsStructured
  HasValidation = TRUE
SYMMETRY Symmetry
SPECIFICATION Spec
INVARIANTS TypeOK StopsWithCheckpoint WorkHasAThread NamedProposalIsKept
CHECK_DEADLOCK FALSE
