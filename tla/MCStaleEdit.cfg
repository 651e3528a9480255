CONSTANTS
  Callers = {c1}
  original = original  absent = absent  edited = edited
  patchA = patchA  patchB = patchB  edit = edit  command = command  other = other
  k1 = k1  k2 = k2  k3 = k3  k4 = k4
  Actions = {edit}
  Keys = {k3, k4}
  Outside = {edited, absent}
  Original = original
  Absent = absent
  Kind <- MixedKinds
  Key <- OwnKeys
  Base <- OnOriginal
  Permitted = {edit}
  TTL = 1
  MaxClock = 1
  MaxCalls = 2
  MaxCrashes = 1
  MaxRaises = 0
  MaxOutsideEdits = 1
  NoAction = NoAction  NoContent = NoContent  NoCaller = NoCaller
SPECIFICATION Spec
INVARIANT ApprovedBaselineIsOverwritten
CHECK_DEADLOCK FALSE
