CONSTANTS
  Threads = {t1, t2}
  MaxProposals = 2
  MaxSandboxes = 1
  MaxRequests = 2
  MaxRestarts = 0
  MaxRepairs = 1
  Structured <- FirstIsStructured
  HasValidation = TRUE
SPECIFICATION FairSpec
PROPERTY StopRequestsTakeEffect
CHECK_DEADLOCK FALSE
