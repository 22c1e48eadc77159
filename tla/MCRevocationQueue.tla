------------------------- MODULE MCRevocationQueue --------------------------
(* Instances of RevocationQueue for TLC. *)
EXTENDS RevocationQueue
=============================================================================
