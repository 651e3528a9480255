CONSTANTS
  Callers = {c1, c2}
  original = original  absent = absent  edited = edited
  patchA = patchA  patchB = patchB  edit = edit  command = command  other = other
  k1 = k1  k2 = k2  k3 = k3  k4 = k4
  Actions = {patchA}
  Keys = {k1}
  Outside = {absent}
  Original = original
  Absent = absent
  Kind <- TwoPatches
  Key <- OwnKeys
  Base <- OnOriginal
  Permitted = {patchA}
  TTL = 1
  MaxClock = 0
  MaxCalls = 4
  MaxCrashes = 0
  MaxRaises = 0
  MaxOutsideEdits = 0
  NoAction = NoAction  NoContent = NoContent  NoCaller = NoCaller
SYMMETRY Symmetry
SPECIFICATION Spec
INVARIANT RejectedNeverRuns
CHECK_DEADLOCK FALSE
