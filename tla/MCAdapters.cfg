SPECIFICATION ASpec
CONSTANTS
  e1 = e1  e2 = e2  s1 = s1
  Evals = {e1, e2}
  Slots = {s1}
  Actors <- MCActors
  Cap = 1
  MaxCost = 1
  Tasks = 2
  Outcomes <- MCOutcomes
  Steps = 1
  MaxAttempts = 2
  EventBuffer = 1
  Requested = {1}
  Together <- MCTogether
INVARIANTS ATypeOK OvershootBounded TrainingRecordTrue PublishedIsDurable ScoreHasReport InlineRunsAccounted
PROPERTY RequestsEnd
CHECK_DEADLOCK FALSE
