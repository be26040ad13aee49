---------------------------- MODULE MCPresenter ----------------------------
EXTENDS Presenter, TLC

Symmetry == Permutations(Resolvers) \cup Permutations(Keys)

=============================================================================
