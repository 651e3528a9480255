CONSTANTS
  file = file  oldText = oldText  newText = newText  tests = tests  yes = yes
  NoContent = NoContent  NoRef = NoRef  NoUpdate = NoUpdate  NoAction = NoAction
  NoObs = NoObs  NoState = NoState  NoAnswer = NoAnswer
  Paths = {file}
  Contents = {oldText, newText}
  Original = oldText
  Edits <- OneEdit
  Commands <- OneCommand
  Kinds = {"propose_patch", "inspect_proposed_diff", "apply_patch"}
  Intents = {"conclude", "validated"}
  BatchSizes = {2}
  Blocked = {}
  Budget = 3
  MaxSteps = 3
  Answers = {yes}
  MaxRecent = 3
  MaxPlan = 2
  MaxCriteria = 5
  MaxInputs = 1
  MaxDecisions = 4
  MaxCalls = 3
  MaxCrashes = 1
  MaxOutsideEdits = 1
SPECIFICATION Spec
INVARIANTS ActionIdsAreFresh EvidenceWasObserved RecoveryRebuildsState OneActionIsOpen OverlayMatchesState
PROPERTY RequestsShowTheReviewedDiff
CHECK_DEADLOCK FALSE
