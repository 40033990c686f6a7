------------------------------ MODULE MCChecks -------------------------------
(***************************************************************************)
(* Three pipelines of one job each, the second without an installation, and*)
(* a list with room for two: the first falls off it when the third is      *)
(* created, and comes back when a later one is pruned.                     *)
(***************************************************************************)
EXTENDS GitHubChecks

MCPipelines == 1 .. 3
MCPipelineOf == [j \in MCPipelines |-> j]
MCNeeds == [j \in MCPipelines |-> {}]
=============================================================================
