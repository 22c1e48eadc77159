---------------------------- MODULE UsageMeter -----------------------------
(***************************************************************************)
(* What traffic accounting promises of one user: a meter over several      *)
(* sources.  Each source is charged for bytes it really carried and for    *)
(* each of them once, the usage figure is the sum of the charges since it  *)
(* was last forgiven, and nothing else ever moves it.                      *)
(***************************************************************************)
EXTENDS Integers, Functions

CONSTANT Sources

VARIABLES
    carried,    \* bytes each source carried
    charged,    \* bytes each source was charged for
    used        \* the usage figure

meterVars == <<carried, charged, used>>

MeterTypeOK ==
    /\ carried \in [Sources -> Nat]
    /\ charged \in [Sources -> Nat]
    /\ used \in Nat

MeterInit ==
    /\ carried = [s \in Sources |-> 0]
    /\ charged = [s \in Sources |-> 0]
    /\ used = 0

Carry(s) ==
    /\ carried' = [carried EXCEPT ![s] = @ + 1]
    /\ UNCHANGED <<charged, used>>

\* The sum of a function's values.
Total(f) == FoldFunction(+, 0, f)

\* Any part of what is outstanding, from any sources, is charged at once.
Charge ==
    /\ charged' \in [Sources -> Nat]
    /\ \A s \in Sources : charged'[s] \in charged[s] .. carried[s]
    /\ used' = used + Total([s \in Sources |-> charged'[s] - charged[s]])
    /\ UNCHANGED carried

Forgive ==
    /\ used' = 0
    /\ UNCHANGED <<carried, charged>>

MeterNext == (\E s \in Sources : Carry(s)) \/ Charge \/ Forgive

MeterSpec == MeterInit /\ [][MeterNext]_meterVars
=============================================================================
