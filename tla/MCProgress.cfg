SPECIFICATION OrderlySpec
CONSTANTS
  MaxTokensPerChunk = 1
  MaxWorkPerChunk = 4
  MaxMemoryPerChunk = 4
  Request = {1, 2}
  Worker = {0, 1}
  Tenant = {"t1"}
  Descriptor <- MixedDescriptor
  Capacity <- OneUnit
  Backend <- AnyCpu
  AnyBackend = "any"
  MaxAdmittedRequests = 2
  TenantOutstandingLimit = 2
  TenantTokenLimit = 3
  MaxRequestsPerGroup = 2
  MaxTokensPerGroup = 2
  MaxComputePerGroup = 4
  MaxMemoryPerGroup = 4
  Budget = 2
  DeadlineSlack = 0
  MaxTime = 0
  MaxGeneration = 12
  MaxEpoch = 2
  MaxRegistrations = 1
  AgingCap = 0
PROPERTIES
  EveryRequestEnds
CHECK_DEADLOCK FALSE
