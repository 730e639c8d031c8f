\* max_work_per_chunk = 2 is below, equal to and above the estimates' shares;
\* WordSize = 10 makes the larger quotients overflow the conversion.
CONSTANTS
  MaxTokensPerChunk = 3
  MaxWorkPerChunk = 2
  MaxMemoryPerChunk = 3
  WordSize = 10
  MaxPrompt = 6
  MaxEstimate = 5
  Requests <- MCRequests
SPECIFICATION FairSpec
INVARIANTS ChunksPartition ClosedForm CapOnlyCutsSingleTokens SharesWithinEstimate
PROPERTY Terminates
CHECK_DEADLOCK FALSE
