CONSTANTS
  Callers = {c1}
  original = original  absent = absent  edited = edited
  patchA = patchA  patchB = patchB  edit = edit  command = command  other = other
  k1 = k1  k2 = k2  k3 = k3  k4 = k4
  Actions = {edit, patchA, other}
  Keys = {k1, k3, k4}
  Outside = {absent, original}
  Original = original
  Absent = absent
  Kind <- MixedKinds
  Key <- OwnKeys
  Base <- OnOriginal
  Permitted = {edit, patchA}
  TTL = 1
  MaxClock = 1
  MaxCalls = 6
  MaxCrashes = 1
  MaxRaises = 1
  MaxOutsideEdits = 2
  NoAction = NoAction  NoContent = NoContent  NoCaller = NoCaller
SPECIFICATION Spec
INVARIANTS EffectsWereGranted EffectsAreAccountedFor AwaitedApprovalIsPending RejectedNeverRuns
CHECK_DEADLOCK FALSE
