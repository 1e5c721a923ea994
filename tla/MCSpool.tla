------------------------------ MODULE MCSpool ------------------------------
EXTENDS Spool, TLC

\* Ids are interchangeable in every definition of Spool.
Symmetry == Permutations(Ids)
============================================================================
