-------------------------- MODULE MCPayloadStore --------------------------
EXTENDS PayloadStore, TLC

\* Payloads, and the files of a payload, are interchangeable.
Symmetry == Permutations(Ids) \cup Permutations(Files)
============================================================================
