CONSTANTS
  file = file  oldText = oldText  newText = newText  tests = tests  yes = yes
  NoContent = NoContent  NoRef = NoRef  NoUpdate = NoUpdate  NoAction = NoAction
  NoObs = NoObs  NoState = NoState  NoAnswer = NoAnswer
  Paths = {file}
  Contents = {oldText, newText}
  Original = oldText
  Edits <- NoFileEdits
  Commands <- NoCommands
  Kinds = {"read_file", "parallel_read", "ask_user", "finish"}
  Intents = {"conclude", "reopen"}
  BatchSizes = {2}
  Blocked = {}
  Budget = 3
  MaxSteps = 3
  Answers = {yes}
  MaxRecent = 3
  MaxPlan = 2
  MaxCriteria = 2
  MaxInputs = 1
  MaxDecisions = 3
  MaxCalls = 3
  MaxCrashes = 1
  MaxOutsideEdits = 0
SPECIFICATION Spec
INVARIANTS TypeOK ActionIdsAreFresh EvidenceWasObserved RecoveryRebuildsState AnswersReachTheModel LastOutcomeIsKnown ToolCallsWithinBudget
PROPERTY LoopFinishIsReady
CHECK_DEADLOCK FALSE
