SPECIFICATION Spec
CONSTANTS
  Zero = 0
  Octet = {0, 1}
  Capacity = 4
  LongestBatch = 2
  MaxLastIn = 3
  Batches <- MCBatches
  ChecksAvailable = TRUE
CONSTRAINT LastInBound
INVARIANTS TypeOK IndicesAgree
PROPERTY IsFifo
