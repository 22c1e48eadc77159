---------------------------- MODULE PanelProcess ----------------------------
(***************************************************************************)
(* What runs side by side in the serving process next to the traffic and   *)
(* policy passes: the requests on user accounts (UserAccounts), the        *)
(* owner's access (OwnerAccess), the calls to the nodes (NodeCalls), the   *)
(* alerts (AlertDelivery) and the live view (LiveView).                    *)
(*                                                                         *)
(* The five share no variable, so a step of one commutes with every step   *)
(* of another and each property is about one of them: a behaviour moves    *)
(* one part, chosen at its start.                                          *)
(***************************************************************************)
EXTENDS UserAccounts, OwnerAccess, NodeCalls, AlertDelivery, LiveView

VARIABLE part  \* the part that moves

panelVars == <<part, accVars, ownVars, nodeCallVars, alertVars, liveView>>

Chosen(S) == CHOOSE x \in S : TRUE

\* The parts that do not move stay in one of their initial states.
PanelInit ==
    /\ part \in {"accounts", "access", "calls", "alerts", "view"}
    /\ AccInit
    /\ part = "accounts" \/ live[Chosen(Accounts)] # NoRow
    /\ OwnInit
    /\ part = "access" \/ owner.secret = NoSecret
    /\ NodeInit
    /\ part = "calls" \/ (/\ \A p \in Places : shows[p] = Chosen(Certs)
                          /\ nodes[1].pin = NoPin)
    /\ AlertInit
    /\ part = "alerts" \/ (topic = "node" /\ bot = "works")
    /\ LiveInit
    /\ part = "view" \/ registered = {}

AccountsMove ==
    /\ part = "accounts" /\ AccNext
    /\ UNCHANGED <<part, ownVars, nodeCallVars, alertVars, liveView>>

AccessMoves ==
    /\ part = "access" /\ OwnNext
    /\ UNCHANGED <<part, accVars, nodeCallVars, alertVars, liveView>>

CallsMove ==
    /\ part = "calls" /\ NodeNext
    /\ UNCHANGED <<part, accVars, ownVars, alertVars, liveView>>

AlertsMove ==
    /\ part = "alerts" /\ AlertNext
    /\ UNCHANGED <<part, accVars, ownVars, nodeCallVars, liveView>>

ViewMoves ==
    /\ part = "view" /\ LiveNext
    /\ UNCHANGED <<part, accVars, ownVars, nodeCallVars, alertVars>>

PanelNext == AccountsMove \/ AccessMoves \/ CallsMove \/ AlertsMove \/ ViewMoves

\* The live worker ticks, a pass that began ends, the cooldown runs out.
PanelFairness ==
    /\ WF_alertVars(part = "alerts" /\ Collect(Worker))
    /\ \A c \in Collectors : WF_alertVars(part = "alerts" /\ PassMoves(c))
    /\ WF_alertVars(part = "alerts" /\ CooldownEnds)

PanelSpec == PanelInit /\ [][PanelNext]_panelVars /\ PanelFairness

PanelTypeOK == AccTypeOK /\ OwnTypeOK /\ NodeTypeOK /\ AlertTypeOK /\ LiveTypeOK
=============================================================================
