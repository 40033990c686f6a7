SPECIFICATION ChecksSpec
CONSTANTS
    Pipelines <- MCPipelines
    Jobs <- MCPipelines
    PipelineOf <- MCPipelineOf
    Needs <- MCNeeds
    Replicas = {h1, h2}
    Manual = {2}
    ListCap = 2
    MaxMishaps = 1
INVARIANTS
    ReportedIsShown
