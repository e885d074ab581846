-------------------------- MODULE MCPthreadObjects --------------------------
(* Instances of PthreadObjects for TLC. *)
EXTENDS PthreadObjects
=============================================================================
