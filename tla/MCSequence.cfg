SPECIFICATION Spec
CONSTANTS
  StagesCount = 3
  Stages <- MCStages
  MaxElapsed = 8
  MaxLag = 6
CHECK_DEADLOCK FALSE
INVARIANTS TypeOK RunsKeepPace
PROPERTIES ServedInOrder TimeoutEndsStage
