SPECIFICATION Spec
CONSTANTS
  w1 = w1
  w2 = w2
  e1 = e1
  e2 = e2
  Writes = {w1, w2}
  Original = "original"
  Outside = "outside"
  Patches = {"swap", "revert"}
  Patched <- Hunks
  Failures = {e1, e2}
  Commands <- TwoCommands
  MaxRepairs = 2
  ReadCosts = {0}
  Budget <- SmallBudget
  MaxStops = 1
  MaxFaults = 0
CHECK_DEADLOCK FALSE
INVARIANT CompletedIsValidated
