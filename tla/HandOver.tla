------------------------------ MODULE HandOver ------------------------------
(* What the serial example promises: messages handed over one at a time,    *)
(* each taken whole and in order before the next one is put. The taker      *)
(* makes fewer rounds than the putter.                                      *)
EXTENDS Naturals, Sequences

CONSTANTS
    Puts, Takes,    \* the rounds of each side
    Length          \* the bytes of a message, its terminator included

VARIABLES
    put,            \* how many messages have been put
    received        \* the messages taken

\* The bytes of message n, known by the message and the place in it.
Wire(n) == [k \in 1..Length |-> <<n, k>>]
Terminator(byte) == byte[2] = Length
Body(n) == SubSeq(Wire(n), 1, Length - 1)

Init == put = 0 /\ received = <<>>

Put ==
    /\ put < Puts /\ put = Len(received)
    /\ put' = put + 1
    /\ UNCHANGED received

Take ==
    /\ Len(received) < Takes /\ Len(received) < put
    /\ received' = Append(received, Body(Len(received) + 1))
    /\ UNCHANGED put

Spec == Init /\ [][Put \/ Take]_<<put, received>>
=============================================================================
