SPECIFICATION Spec
CONSTANTS
  Node = {n1, n2, n3, n4}
  Queues = {ready, waiting}
  Nil = Nil
CHECK_DEADLOCK FALSE
INVARIANTS TypeOK WellLinked FreeNodesUnlinked CursorInQueue HaltsOnEmptyOnly
PROPERTY IsDeque
