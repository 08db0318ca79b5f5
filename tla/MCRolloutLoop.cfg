CONSTANTS
  MaxAttempts = 2
  Horizon = 2
  c = c
  Criteria = {c}
  MaxTokens = 2
  MaxRetries = 1
  Capacity = 1
  RecordTurns = TRUE
  DefaultRubric = "heuristic-v1"
  MaxConcurrent = 0
  Answers <- MCAnswers
  Outcomes <- MCOutcomes
  RescoreRubrics = {"coding-v1"}
  Together <- MCTogether
SPECIFICATION LSpec
INVARIANTS LTypeOK StoredIsFinishers WorkspaceLifecycle BudgetRespected TurnsMatchSteps
PROPERTIES LastWord AttemptsEnd
CHECK_DEADLOCK FALSE
