SPECIFICATION PackSpec
CONSTANTS
  MaxTokensPerChunk = 2
  MaxWorkPerChunk = 4
  MaxMemoryPerChunk = 4
  Request = {1, 2, 3}
  Worker = {0, 1}
  Tenant = {"t1", "t2"}
  Descriptor <- PackDescriptor
  Capacity <- PackCapacity
  Backend <- PackBackend
  AnyBackend = "any"
  MaxAdmittedRequests = 3
  TenantOutstandingLimit = 2
  TenantTokenLimit = 5
  MaxRequestsPerGroup = 2
  MaxTokensPerGroup = 3
  MaxComputePerGroup = 4
  MaxMemoryPerGroup = 2
  Budget = 3
  DeadlineSlack = 0
  MaxTime = 3
  MaxGeneration = 5
  MaxEpoch = 1
  MaxRegistrations = 1
  AgingCap = 1
INVARIANTS
  WithinBudget
  TenantsAccounted
  GroupsWithinLimits
  
PROPERTIES
  TerminalIsFinal
  NoLateDispatch
CHECK_DEADLOCK FALSE
