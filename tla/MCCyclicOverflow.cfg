SPECIFICATION Spec
CONSTANTS
  Zero = 0
  Octet = {0, 1, 2}
  Capacity = 2
  LongestBatch = 2
  MaxLastIn = 4
  Batches <- MCBatches
  ChecksAvailable = FALSE
CONSTRAINT LastInBound
PROPERTY IsFifo
