--------------------------- MODULE MCRepositories ---------------------------
EXTENDS Repositories, TLC
CONSTANTS n1, n2
NameSymmetry == Permutations(Name)
TwoNodes == <<n1, n2>>
=============================================================================
