-------------------------- MODULE MCTemporalClient --------------------------
EXTENDS TemporalClient, TLC

Symmetry == Permutations(Callers) \cup Permutations(Queues)

=============================================================================
