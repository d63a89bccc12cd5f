------------------------------ MODULE MCBuffer ------------------------------
(* Buffer on two objects, a few addresses and short item sequences.        *)
EXTENDS Buffer, TLC

\* Objects are alike, and addresses are only compared.
Symmetry == Permutations(Objects) \cup Permutations(Blocks)
MCArgs == {<<"x">>, <<"x", "-">>}
=============================================================================
