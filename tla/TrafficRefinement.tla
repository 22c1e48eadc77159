------------------------- MODULE TrafficRefinement -------------------------
(* The accounting pass implements the meter. *)
EXTENDS TrafficSync

Meter == INSTANCE UsageMeter WITH Sources <- Nodes, carried <- sent,
                                  used <- row.used

\* Only so many nodes were ever registered.
ASSUME NodesFinite == IsFiniteSet(Nodes)

\* Passes, retries, resets, restarts and node removals together are a meter:
\* users.used moves only by the sum of single charges for carried bytes, or
\* back to 0.
ImplementsMeter == Meter!MeterSpec

\* Why the figure moves by the sum: what a pass is about to add to used is what
\* it is about to charge, in whatever order it took the answers.
DueInv ==
    \A p \in Passes : pass[p].pc = "charging" =>
       /\ pass[p].delta = Meter!Total(pass[p].due)
       /\ \A n \in pass[p].todo : pass[p].due[n] = 0
=============================================================================
