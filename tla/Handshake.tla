----------------------------- MODULE Handshake ------------------------------
(* The serial example (examples/io/serial/example.cpp): main connects the   *)
(* ports at the two ends of one line, runs a Writer and a Reader thread on  *)
(* them and disconnects. The flag done is between the threads (Flag<bool>   *)
(* of include/flag.hpp, whose every read and write is a critical section of *)
(* its own).                                                                *)
EXTENDS Naturals, Sequences, FiniteSetsExt

CONSTANTS
    LOOP_MAX,       \* 1000 in the code
    Length,         \* the bytes of the message; its terminator is the last
    Capacity        \* the bytes that one read asks for

ASSUME HandshakeAssumption ==
    LOOP_MAX \in Nat \ {0} /\ Length \in Nat \ {0} /\ Capacity \in Nat \ {0}

VARIABLES
    done,           \* the flag
    line,           \* the bytes written and not yet read
    lc,             \* lc[t]: the round of thread t
    pc,             \* pc[t]: the statement of thread t
    main,           \* the statement of main
    connected,      \* the threads whose port is connected
    ddd,            \* the bytes that the reader has collected
    put,            \* history: how many messages have been put
    received,       \* history: what the reader took the messages for
    truncated       \* history: has a write left bytes behind?

vars == <<done, line, lc, pc, main, connected, ddd, put, received, truncated>>

H == INSTANCE HandOver WITH Puts <- LOOP_MAX, Takes <- LOOP_MAX - 1

Threads == {"writer", "reader"}

Init ==
    /\ done = FALSE /\ line = <<>> /\ ddd = <<>>
    /\ lc = [t \in Threads |-> 0]
    /\ pc = [t \in Threads |-> "unborn"]
    /\ main = "connect" /\ connected = {}
    /\ put = 0 /\ received = <<>> /\ truncated = FALSE

At(t, label) == pc[t] = label
Goto(t, label) == pc' = [pc EXCEPT ![t] = label]

\* Flag<bool>: operator bool and operator=.
value == done
update(v) == done' = v

-----------------------------------------------------------------------------
(* main.                                                                    *)

\* Either connect may fail, and then no thread starts.
Connect ==
    /\ main = "connect"
    /\ connected' \in SUBSET Threads
    /\ IF connected' = Threads
       THEN /\ main' = "join writer"
            /\ pc' = [t \in Threads |-> "loop"]
       ELSE main' = "disconnect" /\ UNCHANGED pc
    /\ UNCHANGED <<done, line, lc, ddd, put, received, truncated>>

\* The writer is joined before the reader.
Join ==
    /\ \/ main = "join writer" /\ At("writer", "end") /\ main' = "join reader"
       \/ main = "join reader" /\ At("reader", "end") /\ main' = "disconnect"
    /\ UNCHANGED <<done, line, lc, pc, connected, ddd, put, received, truncated>>

\* A port that is not connected is left as it is.
Disconnect ==
    /\ main = "disconnect"
    /\ connected' = {} /\ main' = "end"
    /\ UNCHANGED <<done, line, lc, pc, ddd, put, received, truncated>>

-----------------------------------------------------------------------------
(* The threads.                                                             *)

\* Mutant: lc++ <= LOOP_MAX in both loops.
HasRound_OrEqual(t) == lc[t] <= LOOP_MAX

\* Mutant: the two loop conditions are the wrong way round.
HasRound_Swapped(t) == IF t = "writer" THEN lc[t] + 1 # LOOP_MAX ELSE lc[t] < LOOP_MAX

\* lc++ < LOOP_MAX for the writer, ++lc != LOOP_MAX for the reader.
HasRound(t) == IF t = "writer" THEN lc[t] < LOOP_MAX ELSE lc[t] + 1 # LOOP_MAX

Loop(t) ==
    /\ At(t, "loop")
    /\ lc' = [lc EXCEPT ![t] = @ + 1]
    /\ Goto(t, IF HasRound(t) THEN "wait" ELSE "end")
    /\ UNCHANGED <<done, line, main, connected, ddd, put, received, truncated>>

\* The value of done that thread t waits for.
Turn(t) == value = (t = "reader")

\* A thread whose turn it is not sleeps and looks again.
Wait(t) ==
    /\ At(t, "wait") /\ Turn(t)
    /\ Goto(t, "test")
    /\ UNCHANGED <<done, line, lc, main, connected, ddd, put, received, truncated>>

\* The flag is read again, and without luck the round is over.
Test(t) ==
    /\ At(t, "test")
    /\ Goto(t, IF Turn(t) THEN "transfer" ELSE "loop")
    /\ UNCHANGED <<done, line, lc, main, connected, ddd, put, received, truncated>>

\* Port::write takes as many bytes as there is room for.
write(bytes) ==
    \E n \in 0..Len(bytes) :
        /\ line' = line \o SubSeq(bytes, 1, n)
        /\ truncated' = (truncated \/ n < Len(bytes))

\* The code ignores how many bytes were taken.
Write ==
    /\ At("writer", "transfer")
    /\ write(H!Wire(put + 1))
    /\ Goto("writer", "hand")
    /\ UNCHANGED <<done, lc, main, connected, ddd, put, received>>

\* The places of the terminators in a chunk.
Terminators(chunk) == {i \in DOMAIN chunk : H!Terminator(chunk[i])}

\* Mutant: one read is taken for the message.
Ends_WithRead(chunk) == TRUE

Ends(chunk) == Terminators(chunk) # {}

\* What is collected of a chunk; what follows a terminator is dropped.
UpToTerminator(chunk) ==
    IF Terminators(chunk) = {} THEN chunk
    ELSE SubSeq(chunk, 1, Min(Terminators(chunk)) - 1)

\* Port::read takes n bytes of what has arrived, up to the capacity of
\* the buffer.
read(n) ==
    /\ n <= Capacity
    /\ line' = SubSeq(line, n + 1, Len(line))

\* A read that finds nothing, or fails, is made again.
Read ==
    /\ At("reader", "transfer")
    /\ \E n \in 1..Len(line) :
        LET chunk == SubSeq(line, 1, n) IN
        /\ read(n)
        /\ ddd' = ddd \o UpToTerminator(chunk)
        /\ Goto("reader", IF Ends(chunk) THEN "hand" ELSE "transfer")
    /\ UNCHANGED <<done, lc, main, connected, put, received, truncated>>

\* done = true and done = false.
Hand(t) ==
    /\ At(t, "hand")
    /\ update(t = "writer")
    /\ IF t = "writer"
       THEN put' = put + 1 /\ UNCHANGED <<received, ddd>>
       ELSE received' = Append(received, ddd) /\ ddd' = <<>> /\ UNCHANGED put
    /\ Goto(t, "loop")
    /\ UNCHANGED <<line, lc, main, connected, truncated>>

Step(t) ==
    \/ Loop(t) \/ Wait(t) \/ Test(t) \/ Hand(t)
    \/ t = "writer" /\ Write
    \/ t = "reader" /\ Read

Main == Connect \/ Join \/ Disconnect

Next == Main \/ \E t \in Threads : Step(t)

Spec == Init /\ [][Next]_vars

\* main and both threads run, and what was written arrives.
FairSpec == Spec /\ WF_vars(Main) /\ \A t \in Threads : WF_vars(Step(t))

-----------------------------------------------------------------------------

\* Types: no thread goes past its last round, the line never holds more than
\* the message being handed over, and a thread only runs on connected ports.
TypeOK ==
    /\ done \in BOOLEAN /\ truncated \in BOOLEAN
    /\ lc \in [Threads -> 0..LOOP_MAX + 1] /\ lc["reader"] <= LOOP_MAX
    /\ pc \in [Threads -> {"unborn", "loop", "wait", "test", "transfer", "hand", "end"}]
    /\ main \in {"connect", "join writer", "join reader", "disconnect", "end"}
    /\ connected \subseteq Threads
    /\ \A t \in Threads : pc[t] \in {"unborn", "end"} \/ connected = Threads
    /\ put \in 0..LOOP_MAX
    /\ Len(line) <= Length
    /\ \A i \in DOMAIN line : line[i][1] \in 1..LOOP_MAX

\* The handshake hands over: each message is taken whole, once and in order,
\* before the next is put, whatever pieces the line delivers it in and however
\* much of it a write leaves behind.
ImplementsHandOver == H!Spec

\* Both threads come to the end of their rounds, and main after them, unless a
\* write left bytes behind: its result is ignored, and then all wait for ever.
RoundsEnd == <>(truncated \/ main = "end")
=============================================================================
