SPECIFICATION FairNetSpec
CONSTANTS
  MaxTokensPerChunk = 1
  MaxWorkPerChunk = 4
  MaxMemoryPerChunk = 4
  Request = {1}
  Worker = {0, 1}
  Tenant = {"t1"}
  Descriptor <- OneDescriptor
  Capacity <- OneUnit
  Backend <- AnyCpu
  AnyBackend = "any"
  MaxAdmittedRequests = 1
  TenantOutstandingLimit = 1
  TenantTokenLimit = 1
  MaxRequestsPerGroup = 2
  MaxTokensPerGroup = 2
  MaxComputePerGroup = 4
  MaxMemoryPerGroup = 4
  Budget = 1
  DeadlineSlack = 0
  MaxTime = 0
  MaxGeneration = 3
  MaxEpoch = 1
  MaxRegistrations = 2
  AgingCap = 0
  Conn = {1, 2}
  WorkerOf <- SameWorker
  Client = {"c1"}
  PromptLengths <- Exact
  DeviceFaults = FALSE
INVARIANTS
  NetTypeOK
  InFlightIsAccounted
  
  
PROPERTIES
  ServedRequestsEnd
CHECK_DEADLOCK FALSE
