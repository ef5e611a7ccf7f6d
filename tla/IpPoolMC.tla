------------------------------ MODULE IpPoolMC ------------------------------
\* Instances of IpPool for TLC.
EXTENDS IpPool, TLC

CONSTANTS o1, o2, c1, c2, w1, w2, m1

MCPurpose == (w1 :> "internet") @@ (w2 :> "internet") @@ (m1 :> "management")
Symmetry == Permutations(Onus) \union Permutations(Calls)

=============================================================================
