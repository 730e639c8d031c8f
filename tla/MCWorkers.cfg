SPECIFICATION WorkersSpec
CONSTANTS
  MaxTokensPerChunk = 1
  MaxWorkPerChunk = 4
  MaxMemoryPerChunk = 4
  Request = {1, 2}
  Worker = {0, 1}
  Tenant = {"t1"}
  Descriptor <- PairDescriptor
  Capacity <- OneUnit
  Backend <- AnyCpu
  AnyBackend = "any"
  MaxAdmittedRequests = 2
  TenantOutstandingLimit = 2
  TenantTokenLimit = 3
  MaxRequestsPerGroup = 2
  MaxTokensPerGroup = 2
  MaxComputePerGroup = 4
  MaxMemoryPerGroup = 4
  Budget = 2
  DeadlineSlack = 0
  MaxTime = 0
  MaxGeneration = 3
  MaxEpoch = 2
  MaxRegistrations = 2
  AgingCap = 0
INVARIANTS
  TypeOK
  ReservedIffInFlight
  GroupsConsistent
  UnitsAccounted
  ChunkAppliedOnce
CHECK_DEADLOCK FALSE
