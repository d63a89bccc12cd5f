------------------------------- MODULE MCPort -------------------------------
(* Conditions that set up every parity and every flow control after every   *)
(* other, and a device found as a terminal.                                 *)
EXTENDS Port, TLC

FastOrSlow == {"115200 8N1", "9600 7N2"}

SomeConditions ==
    {[frame |-> "115200 8N1", parity |-> "NONE", flow |-> "RTS_CTS"],
     [frame |-> "115200 8N1", parity |-> "ODD", flow |-> "NONE"],
     [frame |-> "9600 7N2", parity |-> "EVEN", flow |-> "XON_XOFF"]}

Terminal ==
    {[frame |-> "9600 7N2", raw |-> FALSE, parenb |-> FALSE, parodd |-> FALSE,
      crtscts |-> FALSE, ixon |-> TRUE, startstop |-> TRUE, hupcl |-> TRUE]}

Symmetry == Permutations(Ports)
=============================================================================
