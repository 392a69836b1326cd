------------------------ MODULE MC_BillingContract -------------------------
(* Instances of BillingContract for TLC.                                   *)
EXTENDS BillingContract, TLC, Functions

\* Counting units and folding with + give the same total.
ASSUME TallyIsSum ==
    \A S \in SUBSET {1, 2, 3} : \A f \in [S -> 0..3] :
        Total(f) = SumFunction(f)

Symmetry == Permutations(Address) \cup Permutations(PubKey)

Rates == {-1, 1, 3}
FreeRates == {0, 1}
Amounts == {0, 2}
============================================================================
