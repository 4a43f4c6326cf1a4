-------------------------- MODULE MCRouterLease --------------------------
(* Small instances of RouterLease: three stores, on one host or on two.    *)
EXTENDS RouterLease, TLC

CONSTANTS w1, w2, w3, here, there

OneHost == [w \in Writers |-> here]

TwoHosts == [w \in Writers |-> IF w = w1 THEN here ELSE there]

Interchangeable == Permutations(Writers) \cup Permutations(Tasks)

=============================================================================
