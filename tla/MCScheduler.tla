---------------------------- MODULE MCScheduler -----------------------------
(***************************************************************************)
(* Three pipelines of one job each, two of them from one tenant, for a     *)
(* worker with two slots and one with a single slot.  The queue is         *)
(* shorter than the submissions, and the tenant's CPU quota, the capacity  *)
(* and the memory of a worker all bind.                                    *)
(***************************************************************************)
EXTENDS FairShare

MCPipelines == {"a1", "a2", "b1"}
MCJobs == MCPipelines
MCWorkers == {1, 2}
MCKinds == {"cpu", "mem"}
MCPipelineOf == [j \in MCJobs |-> j]
MCPosition == [j \in MCJobs |-> 1]
MCNeeds == [j \in MCJobs |-> {}]
MCTenantOf == [a1 |-> 1, a2 |-> 1, b1 |-> 2]
MCPROf == [p \in MCPipelines |-> 0]
MCPriority == [a1 |-> 0, a2 |-> 1, b1 |-> 0]
MCTrusted == MCJobs
MCCapabilities == [j \in MCJobs |-> IF j = "a1" THEN {"buildkit-rootless"} ELSE {}]
MCResources == [a1 |-> [cpu |-> 2, mem |-> 1], a2 |-> [cpu |-> 1, mem |-> 2],
                b1 |-> [cpu |-> 1, mem |-> 2]]
MCMaxAttempts == [j \in MCJobs |-> 1]
MCTimeout == [j \in MCJobs |-> 0]
MCWorkerTrusted == MCWorkers
MCWorkerCaps == [w \in MCWorkers |-> IF w = 1 THEN {"buildkit-rootless"} ELSE {}]
MCWorkerRes == [w \in MCWorkers |-> [cpu |-> 0, mem |-> IF w = 1 THEN 3 ELSE 0]]
MCCapacity == [w \in MCWorkers |-> IF w = 1 THEN 2 ELSE 1]
MCTenantQuota == [cpu |-> 2, mem |-> 3]
=============================================================================
