SPECIFICATION Spec
CONSTANTS
  SendCapacity = 2
  RecvCapacity = 2
  MaxSent = 4
  MaxArrived = 3
  MaxTransfer = 3
INVARIANTS TypeOK SentInOrder DeliveredInOrder NoIdleInterrupt
PROPERTIES EverythingSent SendEnds
