SPECIFICATION LiveSpec
CONSTANTS
    Pipelines <- MCPipelines
    Jobs <- MCJobs
    Workers <- MCWorkers
    Kinds <- MCKinds
    PipelineOf <- MCPipelineOf
    Position <- MCPosition
    Needs <- MCNeeds
    TenantOf <- MCTenantOf
    PROf <- MCPROf
    Priority <- MCPriority
    Trusted <- MCTrusted
    Capabilities <- MCCapabilities
    Resources <- MCResources
    MaxAttempts <- MCMaxAttempts
    Timeout <- MCTimeout
    WorkerTrusted <- MCWorkerTrusted
    WorkerCaps <- MCWorkerCaps
    WorkerRes <- MCWorkerRes
    Capacity <- MCCapacity
    TenantQuota <- MCTenantQuota
    LeaseTTL = 2
    WorkerTTL = 1
    Retention = 1
    TenantLimit = 2
    MaxQueuedJobs = 5
    DefaultTimeout = 3
    LeasesPerTick = 2
    LiveWorkers = {1}
INVARIANTS
    TypeOK
    AttemptsAgree
    RetryBudget
    PipelineAgrees
    DependencyOrder
    NothingExpiredWhileScheduling
    TenantWithinLimit
PROPERTIES
    TerminalIsFinal
    RefinesLifecycle
    Finishes
