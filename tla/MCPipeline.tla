----------------------------- MODULE MCPipeline -----------------------------
(* PcbPipeline with four steps: 1 requirements, 2 selection, 3 connections,   *)
(* which the model proposes and which adds parts to the selection, 4 a gate   *)
(* with a deterministic repair whose failures are owned by the connections.   *)
EXTENDS PcbPipeline

MCPrints == <<{1}, {1}, {1, 2}, {1}>>
MCOwner  == <<0, 0, 0, 3>>
MCMerges == <<{}, {}, {2}, {}>>
MCNone   == <<{}, {}, {}, {}>>

=============================================================================
