SPECIFICATION Spec
CONSTANTS
  App = {main}
  MainTask = main
CHECK_DEADLOCK FALSE
PROPERTY ExitEndsSync
