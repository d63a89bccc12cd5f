------------------------------ MODULE MCSignal ------------------------------
(* Signal on small sets of threads and ids.                                *)
EXTENDS Signal, TLC

\* Threads of a role do the same, and ids are only stored and compared.
Symmetry == Permutations(Callers) \cup Permutations(Readers) \cup Permutations(Ids)
=============================================================================
