SPECIFICATION FairSpec
CONSTANTS
    Pipelines <- MCPipelines
    Jobs <- MCJobs
    Workers <- MCWorkers
    Kinds <- MCKinds
    PipelineOf <- MCPipelineOf
    Position <- MCPosition
    Needs <- MCNeeds
    TenantOf <- MCTenantOf
    PROf <- MCPROf
    Priority <- MCPriority
    Trusted <- MCTrusted
    Capabilities <- MCCapabilities
    Resources <- MCResources
    MaxAttempts <- MCMaxAttempts
    Timeout <- MCTimeout
    WorkerTrusted <- MCWorkerTrusted
    WorkerCaps <- MCWorkerCaps
    WorkerRes <- MCWorkerRes
    Capacity <- MCCapacity
    TenantQuota <- MCTenantQuota
    LeaseTTL = 1
    WorkerTTL = 1
    Retention = 1
    TenantLimit = 2
    MaxQueuedJobs = 2
    DefaultTimeout = 1
    LeasesPerTick = 2
    LiveWorkers = {}
INVARIANTS
    WorkerWithinCapacity
    WithinResources
    QueueBounded
    NotOvertakenTwice
