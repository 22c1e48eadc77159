--------------------------- MODULE MCPanelProcess ---------------------------
(* Instances of PanelProcess: three accounts, two of one name.             *)
EXTENDS PanelProcess, TLC

CONSTANTS u1, u2, u3

MCNameOf == u1 :> "ann" @@ u2 :> "bob" @@ u3 :> "ann"
MCMaxCharges == u1 :> 1 @@ u2 :> 0 @@ u3 :> 1
=============================================================================
