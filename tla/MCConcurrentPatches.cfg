CONSTANTS
  Callers = {c1, c2}
  original = original  absent = absent  edited = edited
  patchA = patchA  patchB = patchB  edit = edit  command = command  other = other
  k1 = k1  k2 = k2  k3 = k3  k4 = k4
  Actions = {patchA, patchB, command}
  Keys = {k1, k2}
  Outside = {absent}
  Original = original
  Absent = absent
  Kind <- PatchesAndCommand
  Key <- SharedKey
  Base <- OnOriginal
  Permitted = {patchA, patchB, command}
  TTL = 1
  MaxClock = 0
  MaxCalls = 4
  MaxCrashes = 1
  MaxRaises = 1
  MaxOutsideEdits = 0
  NoAction = NoAction  NoContent = NoContent  NoCaller = NoCaller
SYMMETRY Symmetry
SPECIFICATION Spec
INVARIANTS TypeOK ReportsAgree PatchesDoNotClobber AtMostOncePerKey
PROPERTIES ImplementsApprovedOnce CompletedIsFinal
CHECK_DEADLOCK FALSE
