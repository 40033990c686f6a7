SPECIFICATION Spec
CONSTANTS
    Jobs <- MCJobs
    Names <- MCNames
    MaxNeeds = 2
    MaxAttempts = 2
    Submissions <- MCSubmissions
INVARIANTS
    AcceptsExactlyDAGs
    OrderIsCanonical
    PreviewRunsTheBuild
