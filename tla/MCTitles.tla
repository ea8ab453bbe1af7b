------------------------------ MODULE MCTitles ------------------------------
EXTENDS Titles, TLC

CONSTANTS Alice, Bob, l1, l2, m1, m2

\* Either transaction may be the first.
Interchangeable == Permutations(Movers)
=============================================================================
