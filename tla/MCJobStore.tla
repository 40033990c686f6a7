----------------------------- MODULE MCJobStore -----------------------------
(***************************************************************************)
(* Two pipelines of one pull request, three parallel jobs and two jobs in  *)
(* sequence, on one live worker that could run three attempts for a tenant *)
(* that may run two: leases, retries and time-outs of one pipeline hold up *)
(* the other.                                                              *)
(***************************************************************************)
EXTENDS JobStore

MCPipelines == {"p", "q"}
MCJobs == {"build", "test", "lint", "scan", "ship"}
MCWorkers == {1}
MCKinds == {"cpu"}
MCPipelineOf == [build |-> "p", test |-> "p", lint |-> "p", scan |-> "q", ship |-> "q"]
MCPosition == [build |-> 1, lint |-> 2, test |-> 3, scan |-> 1, ship |-> 2]
MCNeeds == [j \in MCJobs |-> IF j = "ship" THEN {"scan"} ELSE {}]
MCTenantOf == [p |-> 1, q |-> 1]
MCPROf == [p |-> 7, q |-> 7]
MCPriority == [j \in MCJobs |-> 0]
MCTrusted == MCJobs
MCCapabilities == [j \in MCJobs |-> {}]
MCResources == [j \in MCJobs |-> [k \in MCKinds |-> 1]]
MCMaxAttempts == [j \in MCJobs |-> IF j \in {"build", "lint"} THEN 2 ELSE 1]
MCTimeout == [j \in MCJobs |-> 3]
MCWorkerTrusted == MCWorkers
MCWorkerCaps == [w \in MCWorkers |-> {}]
MCWorkerRes == [w \in MCWorkers |-> [k \in MCKinds |-> 0]]
MCCapacity == [w \in MCWorkers |-> 3]
MCTenantQuota == [k \in MCKinds |-> 3]
=============================================================================
