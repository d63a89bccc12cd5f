------------------------------ MODULE MCTower ------------------------------
(* The tower with the proportions of the example's intervals.              *)
EXTENDS SignalTower

Seconds == [green |-> 3, yellow |-> 1, red |-> 2]
=============================================================================
