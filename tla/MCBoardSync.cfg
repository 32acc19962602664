SPECIFICATION Spec
CONSTANTS
  App = {main, other}
  MainTask = main
CHECK_DEADLOCK FALSE
INVARIANT TypeOK
PROPERTIES ExitGetsNearer ExitShutsDown AutoSyncGoesOn ManualSyncGoesOn
