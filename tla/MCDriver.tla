------------------------------ MODULE MCDriver ------------------------------
(* The pipeline under runTillHalt: each call asks for one cycle.           *)
EXTENDS MCPipeline, Driver

MCRequests == {1}
=============================================================================
