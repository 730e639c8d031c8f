SPECIFICATION OrderlySpec
CONSTANTS
  MaxTokensPerChunk = 1
  MaxWorkPerChunk = 4
  MaxMemoryPerChunk = 4
  Request = {1, 2}
  Worker = {0}
  Tenant = {"t1"}
  Descriptor <- TwinDescriptor
  Capacity <- OneUnit
  Backend <- AnyCpu
  AnyBackend = "any"
  MaxAdmittedRequests = 2
  TenantOutstandingLimit = 2
  TenantTokenLimit = 3
  MaxRequestsPerGroup = 2
  MaxTokensPerGroup = 2
  MaxComputePerGroup = 4
  MaxMemoryPerGroup = 1
  Budget = 1
  DeadlineSlack = 0
  MaxTime = 0
  MaxGeneration = 12
  MaxEpoch = 2
  MaxRegistrations = 2
  AgingCap = 0
PROPERTIES
  EveryRequestEnds
CHECK_DEADLOCK FALSE
