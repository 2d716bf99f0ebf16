------------------------------ MODULE Recency ------------------------------
(***************************************************************************)
(* What it means to keep the newest Limit rows of a table whose rows carry *)
(* a time `at`.                                                            *)
(***************************************************************************)
EXTENDS Integers, FiniteSets

CONSTANT Limit      \* rows kept per partner (DELIVERY_RETENTION_PER_PARTNER)

ASSUME LimitAssumption == Limit \in Nat \ {0}

Later(S, e) == {f \in S : f.at > e.at}

Newest(S) == {e \in S : Cardinality(Later(S, e)) < Limit}

=============================================================================
