\* The first request uses up the tenant's tokens.
SPECIFICATION RecoverySpec
CONSTANTS
  MaxTokensPerChunk = 2
  MaxWorkPerChunk = 4
  MaxMemoryPerChunk = 1
  Request = {1, 2}
  Worker = {0}
  Tenant = {"t1"}
  Descriptor <- SavedDescriptor
  Capacity <- OneUnit
  Backend <- AnyCpu
  AnyBackend = "any"
  MaxAdmittedRequests = 2
  TenantOutstandingLimit = 2
  TenantTokenLimit = 3
  MaxRequestsPerGroup = 2
  MaxTokensPerGroup = 8
  MaxComputePerGroup = 8
  MaxMemoryPerGroup = 4
  Budget = 4
  DeadlineSlack = 0
  MaxTime = 0
  MaxGeneration = 30
  MaxEpoch = 1
  FirstGenerations = 4
  FirstAttempts = 3
  MaxAttempts = 4
  MaxRegistrations = 0
  AgingCap = 0
INVARIANT TokenLimitEnforced
CHECK_DEADLOCK FALSE
