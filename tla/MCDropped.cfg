SPECIFICATION NetSpec
CONSTANTS
  MaxTokensPerChunk = 2
  MaxWorkPerChunk = 4
  MaxMemoryPerChunk = 4
  Request = {1, 2}
  Worker = {0, 1}
  Tenant = {"t1"}
  Descriptor <- PairDescriptor
  Capacity <- OneUnit
  Backend <- AnyCpu
  AnyBackend = "any"
  MaxAdmittedRequests = 2
  TenantOutstandingLimit = 2
  TenantTokenLimit = 4
  MaxRequestsPerGroup = 2
  MaxTokensPerGroup = 3
  MaxComputePerGroup = 4
  MaxMemoryPerGroup = 4
  Budget = 2
  DeadlineSlack = 0
  MaxTime = 1
  MaxGeneration = 3
  MaxEpoch = 1
  MaxRegistrations = 1
  AgingCap = 0
  Conn = {1}
  WorkerOf <- SameWorker
  Client = {"c1"}
  PromptLengths <- Exact
  DeviceFaults = FALSE
INVARIANTS
  NoResultDropped
CHECK_DEADLOCK FALSE
