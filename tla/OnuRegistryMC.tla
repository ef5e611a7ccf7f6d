---------------------------- MODULE OnuRegistryMC ----------------------------
\* Instances of OnuRegistry for TLC.
EXTENDS OnuRegistry, TLC

Symmetry == Permutations(Slots) \union Permutations(Calls)

=============================================================================
