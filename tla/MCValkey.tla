------------------------------ MODULE MCValkey ------------------------------
EXTENDS Valkey, TLC

Symmetry == Permutations(Callers) \cup Permutations(Keys)

=============================================================================
