SPECIFICATION LiveChecksSpec
CONSTANTS
    Pipelines <- MCPipelines
    Jobs <- MCPipelines
    PipelineOf <- MCPipelineOf
    Needs <- MCNeeds
    Replicas = {h1}
    Manual = {2}
    ListCap = 2
    MaxMishaps = 1
INVARIANTS
    NoFalseConclusion
    ReportedIsShown
    OneRunPerMishap
PROPERTIES
    EndIsShown
