------------------------------- MODULE MCFsm -------------------------------
(* A small machine: any tables over a few states.                          *)
EXTENDS Fsm, TLC

\* States are only stored and compared.
Symmetry == Permutations(States)

\* Events are numbers; a cfg cannot write the negative one.
SomeEvents == {-1, 0, 1, 2}
=============================================================================
