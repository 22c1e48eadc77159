---------------------------- MODULE MCPolicySync ----------------------------
(* Instances of PolicySync for TLC. *)
EXTENDS PolicySync
=============================================================================
