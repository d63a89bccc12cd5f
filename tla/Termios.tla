------------------------------ MODULE Termios ------------------------------
(* Terminal settings and iosys::setup (include/io/serial/params.hpp), which *)
(* turns the conditions of a connection into settings, on top of whatever   *)
(* the last setup left in m_termios. What setup copies without looking at   *)
(* it, the speed, the width and the stop bits, is one value, the frame; what *)
(* it sets the same in all cases is the flag raw.                           *)
CONSTANT Frames         \* the combinations of speed, width and stop bits

Parities == {"NONE", "ODD", "EVEN"}
FlowControls == {"NONE", "XON_XOFF", "RTS_CTS"}

\* ConnectionConditions; the XON and XOFF characters are the two of the struct.
ConnectionConditions == [frame : Frames, parity : Parities, flow : FlowControls]

\* struct termios. startstop: VSTART and VSTOP hold these two, and not zero.
Settings ==
    [frame : Frames, raw : BOOLEAN, parenb : BOOLEAN, parodd : BOOLEAN,
     crtscts : BOOLEAN, ixon : BOOLEAN, startstop : BOOLEAN, hupcl : BOOLEAN]

\* Mutant: EVEN does not clear PARODD.
OddBit_Kept(t, parity) == parity = "ODD" \/ t.parodd

\* PARODD is left alone without parity.
OddBit(t, parity) == IF parity = "NONE" THEN t.parodd ELSE parity = "ODD"

\* cfmakeraw and setup leave HUPCL alone: it is off in an m_termios, which
\* begins with all flags off and is never read from a device.
setup(t, params) ==
    [t EXCEPT
        !.frame = params.frame,
        !.raw = TRUE,
        !.parenb = params.parity # "NONE",
        !.parodd = OddBit(t, params.parity),
        !.crtscts = params.flow = "RTS_CTS",
        !.ixon = params.flow = "XON_XOFF",
        !.startstop = params.flow = "XON_XOFF"]

\* An m_termios or m_save before its first use.
Blank ==
    [frame |-> CHOOSE f \in Frames : TRUE, raw |-> FALSE, parenb |-> FALSE,
     parodd |-> FALSE, crtscts |-> FALSE, ixon |-> FALSE, startstop |-> FALSE,
     hupcl |-> FALSE]

\* The conditions under which a line with settings t works; the characters
\* matter with XON/XOFF only, where they must be set.
Means(t) ==
    [frame |-> t.frame,
     parity |-> IF ~t.parenb THEN "NONE" ELSE IF t.parodd THEN "ODD" ELSE "EVEN",
     flow |-> IF t.crtscts THEN "RTS_CTS"
              ELSE IF t.ixon THEN (IF t.startstop THEN "XON_XOFF" ELSE "broken")
              ELSE "NONE"]

\* The settings that restoreTermios writes back for those it has saved.
Released(t) == [t EXCEPT !.hupcl = FALSE]
=============================================================================
