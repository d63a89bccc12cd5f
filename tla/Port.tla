-------------------------------- MODULE Port --------------------------------
(* Sml::IO::Serial::Port over ChannelBase, Parameters and iosys: ports of   *)
(* one process on one serial device. A connect or disconnect takes several  *)
(* steps between which another port, or the end of the process, may come;   *)
(* the two directions of a port may be asked by two threads at once.        *)
(* Device, descriptor table and pselect are the system's.                   *)
EXTENDS Integers, Termios, Flag

CONSTANTS
    Ports,
    Conditions,     \* the ConnectionConditions that the application uses
    Found,          \* the settings a device may have at the beginning
    MaxFd,          \* bound: the last descriptor of the process
    Careless        \* calls made without their precondition

ASSUME PortAssumption ==
    /\ Conditions # {} /\ Conditions \subseteq ConnectionConditions
    /\ Found \subseteq Settings
    /\ MaxFd \in Nat \ {0, 1}

VARIABLES
    device,         \* the settings of the device
    descriptors,    \* the open descriptors of the process
    inherited,      \* history: those it began with
    port,           \* port[p]: the members of port p and where its call is
    asked,          \* history: asked[p], the conditions of the last connect
    ready,          \* history: ready[p][d], did the last isReady(d) find it so
    failed,         \* history: failed[p], an IO_FAILURE not yet put aside
    first           \* history: the device before this process used it

histories == <<asked, ready, failed>>
origin == <<first, inherited>>
vars == <<device, descriptors, port, asked, ready, failed, first, inherited>>

VoidFd == -1
StandardFds == {0, 1, 2}
\* in_out is not a direction a caller can ask with (see Ask).
Directions == {"in", "out", "in_out"}
Outcomes == {"ready", "timeout", "error"}

\* Where a call is; what a disconnect goes on with.
Steps == {"none", "idle", "opening", "setup", "restoring", "closing"}
Sequels == {"return", "connect", "destroy"}

Fresh(c) ==
    [step |-> "idle", then |-> "return", asking |-> {}, m_fd |-> VoidFd,
     m_status |-> cleared, m_termios |-> Blank, m_save |-> Blank, m_property |-> c]

Absent == [Fresh(CHOOSE c \in Conditions : TRUE) EXCEPT !.step = "none"]

NotReady == [d \in Directions |-> FALSE]

Careful(call) == call \notin Careless

Init ==
    /\ device \in Found /\ first = device
    /\ descriptors \in IF Careful("std") THEN {StandardFds} ELSE SUBSET StandardFds
    /\ inherited = descriptors
    /\ port = [p \in Ports |-> Absent]
    /\ asked = [p \in Ports |-> Absent.m_property]
    /\ ready = [p \in Ports |-> NotReady]
    /\ failed = [p \in Ports |-> FALSE]

-----------------------------------------------------------------------------
(* Preconditions of the calls; "std" is in Init, and "tty", that the device *)
(* is a terminal and its settings can be read and changed, in Put and Got.  *)

Idle(p) == port[p].step = "idle"
Detached(p) == port[p].step \in {"none", "idle"} /\ port[p].m_fd = VoidFd

\* The device is no other port's, no thread is in isReady of this one while
\* it connects or disconnects, and none asks a port that has no descriptor.
Exclusive(p) == Careful("overlap") => \A q \in Ports \ {p} : Detached(q)
Unasked(p) == Careful("busy") => port[p].asking = {}
MayAsk(p) ==
    /\ Careful("busy") => Idle(p)
    /\ Careful("connected") => port[p].m_fd # VoidFd

-----------------------------------------------------------------------------
(* Construction, destruction and change of conditions.                      *)

Construct(p) ==
    /\ port[p].step = "none"
    /\ \E c \in Conditions : port' = [port EXCEPT ![p] = Fresh(c)]
    /\ ready' = [ready EXCEPT ![p] = NotReady]
    /\ failed' = [failed EXCEPT ![p] = FALSE]
    /\ UNCHANGED <<device, descriptors, asked, origin>>

\* Parameters::change or attachConnectionConditions: for the next connect.
Change(p) ==
    /\ Idle(p)
    /\ \E c \in Conditions : port' = [port EXCEPT ![p].m_property = c]
    /\ UNCHANGED <<device, descriptors, histories, origin>>

-----------------------------------------------------------------------------
(* disconnect, its steps, and what goes on after it.                        *)

HasFd(p) == port[p].m_fd > 2

\* Mutant: disconnect leaves the status to the next connect.
disconnect_KeepStatus(p, sequel) ==
    /\ port' = [port EXCEPT ![p].step = "restoring", ![p].then = sequel]
    /\ ready' = [ready EXCEPT ![p] = NotReady]
    /\ failed' = [failed EXCEPT ![p] = FALSE]
    /\ UNCHANGED <<device, descriptors, asked, origin>>

disconnect(p, sequel) ==
    /\ port' = [port EXCEPT ![p].step = "restoring", ![p].then = sequel,
                            ![p].m_status = cleared]
    /\ ready' = [ready EXCEPT ![p] = NotReady]
    /\ failed' = [failed EXCEPT ![p] = FALSE]
    /\ UNCHANGED <<device, descriptors, asked, origin>>

\* A call without a descriptor returns FAILURE and changes nothing.
Disconnect(p) ==
    /\ Idle(p) /\ Unasked(p) /\ HasFd(p)
    /\ disconnect(p, "return")

\* What a device has after tcsetattr, whose result nobody looks at.
Put(current, new) == IF Careful("tty") THEN {new} ELSE {current, new}

restoreTermios(p) ==
    /\ port[p].step = "restoring"
    /\ port' = [port EXCEPT ![p].step = "closing", ![p].m_save = Released(@)]
    /\ device' \in Put(device, Released(port[p].m_save))
    /\ UNCHANGED <<descriptors, histories, origin>>

After(sequel) ==
    CASE sequel = "return" -> "idle"
      [] sequel = "connect" -> "opening"
      [] sequel = "destroy" -> "none"

\* Mutant: m_fd keeps the descriptor.
Closed_KeepFd(q) == [q EXCEPT !.step = After(q.then)]

Closed(q) ==
    IF q.then = "destroy" THEN Absent
    ELSE [q EXCEPT !.step = After(q.then), !.m_fd = VoidFd]

Close(p) ==
    /\ port[p].step = "closing"
    /\ descriptors' = descriptors \ {port[p].m_fd}
    /\ port' = [port EXCEPT ![p] = Closed(@)]
    /\ UNCHANGED <<device, histories, origin>>

\* ~Port: a descriptor below three is never closed.
Destroy(p) ==
    /\ Idle(p) /\ Unasked(p)
    /\ IF HasFd(p) THEN disconnect(p, "destroy")
       ELSE /\ port' = [port EXCEPT ![p] = Absent]
            /\ UNCHANGED <<device, descriptors, histories, origin>>

-----------------------------------------------------------------------------
(* connect: a connected port disconnects first.                             *)

Connect(p) ==
    /\ Idle(p) /\ Unasked(p) /\ Exclusive(p)
    /\ IF is_set(port[p].m_status, {"opened"}) THEN disconnect(p, "connect")
       ELSE /\ port' = [port EXCEPT ![p].step = "opening"]
            /\ UNCHANGED <<device, descriptors, histories, origin>>

Lowest(S) == {n \in S : \A m \in S : n <= m}
Free == 0..MaxFd \ descriptors

\* ::open gives the lowest free descriptor, or fails.
Open(p) ==
    /\ port[p].step = "opening"
    /\ \E fd \in {VoidFd} \cup Lowest(Free) :
        /\ descriptors' = descriptors \cup ({fd} \ {VoidFd})
        /\ IF fd < 3
           THEN /\ port' = [port EXCEPT ![p].m_fd = fd, ![p].step = "idle",
                                        ![p].m_status = set_reset(@, {"failure"}, {"opened"})]
                /\ failed' = [failed EXCEPT ![p] = TRUE]
           ELSE /\ port' = [port EXCEPT ![p].m_fd = fd, ![p].step = "setup"]
                /\ UNCHANGED failed
    /\ UNCHANGED <<device, asked, ready, origin>>

\* Mutant: the settings are read after they were changed.
Saved_After(current, new) == new

\* tcgetattr before tcsetattr.
Saved(current, new) == current

\* What m_save holds after tcgetattr, whose result nobody looks at either.
Got(save, current) == IF Careful("tty") THEN {current} ELSE {save, current}

\* Parameters::setup, changeTermios and the status.
SetUp(p) ==
    /\ port[p].step = "setup"
    /\ LET new == setup(port[p].m_termios, port[p].m_property) IN
        /\ \E save \in Got(port[p].m_save, Saved(device, new)) :
            port' = [port EXCEPT
                        ![p].step = "idle", ![p].m_termios = new, ![p].m_save = save,
                        ![p].m_status = set(reset_error(@), {"opened"})]
        /\ device' \in Put(device, new)
    /\ asked' = [asked EXCEPT ![p] = port[p].m_property]
    /\ ready' = [ready EXCEPT ![p] = NotReady]
    /\ failed' = [failed EXCEPT ![p] = FALSE]
    /\ UNCHANGED <<descriptors, origin>>

-----------------------------------------------------------------------------
(* ChannelBase::isReady. For both directions it never asks, and takes the   *)
(* errno of some earlier call for the answer. FD_SET of a void m_fd is      *)
(* undefined; of what may come of it only the answers are modelled.         *)

ReadyBit(d) ==
    CASE d = "in" -> {"ready_read"}
      [] d = "out" -> {"ready_write"}
      [] d = "in_out" -> {"failure"}

Ask(p, d) ==
    /\ port[p].step # "none" /\ d \notin port[p].asking
    /\ MayAsk(p)
    /\ d = "in_out" => ~Careful("in_out")
    /\ port' = [port EXCEPT ![p].asking = @ \cup {d}]
    /\ UNCHANGED <<device, descriptors, histories, origin>>

\* Mutant: a failure leaves the ready bit as it was.
Answered_FailureOnly(status, d, outcome) ==
    CASE outcome = "ready" -> set_reset(status, ReadyBit(d), {"timeouted"})
      [] outcome = "timeout" -> set_reset(status, {"timeouted"}, ReadyBit(d))
      [] outcome = "error" -> set(status, {"failure"})

Answered(status, d, outcome) ==
    CASE outcome = "ready" -> set_reset(status, ReadyBit(d), {"timeouted"})
      [] outcome = "timeout" -> set_reset(status, {"timeouted"}, ReadyBit(d))
      [] outcome = "error" -> set_reset(status, {"failure"}, ReadyBit(d))

Answer(p, d) ==
    /\ d \in port[p].asking
    /\ \E outcome \in IF d = "in_out" THEN {"timeout", "error"} ELSE Outcomes :
        /\ port' = [port EXCEPT ![p].asking = @ \ {d},
                                ![p].m_status = Answered(@, d, outcome)]
        /\ ready' = [ready EXCEPT ![p][d] = (outcome = "ready")]
        /\ failed' = [failed EXCEPT ![p] = @ \/ outcome = "error"]
    /\ UNCHANGED <<device, descriptors, asked, origin>>

\* status().reset_error(), by the application.
ResetError(p) ==
    /\ Idle(p)
    /\ port' = [port EXCEPT ![p].m_status = reset_error(@)]
    /\ failed' = [failed EXCEPT ![p] = FALSE]
    /\ UNCHANGED <<device, descriptors, asked, ready, origin>>

-----------------------------------------------------------------------------

\* The process ends anywhere and another one begins: the system closes the
\* descriptors and leaves the settings as they are.
Crash ==
    /\ port' = [p \in Ports |-> Absent]
    /\ descriptors' = StandardFds
    /\ ready' = [p \in Ports |-> NotReady]
    /\ failed' = [p \in Ports |-> FALSE]
    /\ first' = device /\ inherited' = StandardFds
    /\ UNCHANGED <<device, asked>>

Call(p) ==
    \/ Construct(p) \/ Change(p) \/ Destroy(p)
    \/ Connect(p) \/ Open(p) \/ SetUp(p)
    \/ Disconnect(p) \/ restoreTermios(p) \/ Close(p)
    \/ ResetError(p)
    \/ \E d \in Directions : Ask(p, d) \/ Answer(p, d)

Next == (\E p \in Ports : Call(p)) \/ Crash

Spec == Init /\ [][Next]_vars

-----------------------------------------------------------------------------

Members ==
    [step : Steps, then : Sequels, asking : SUBSET Directions, m_fd : {VoidFd} \cup 0..MaxFd,
     m_status : SUBSET StatusBits, m_termios : Settings, m_save : Settings,
     m_property : Conditions]

\* Types: every m_fd is void or a descriptor that the process has open, so no
\* call ever works on one that was given back.
TypeOK ==
    /\ device \in Settings /\ first \in Settings
    /\ descriptors \subseteq 0..MaxFd /\ inherited \subseteq 0..MaxFd
    /\ port \in [Ports -> Members]
    /\ \A p \in Ports : port[p].m_fd \in {VoidFd} \cup descriptors
    /\ asked \in [Ports -> Conditions]
    /\ ready \in [Ports -> [Directions -> BOOLEAN]]
    /\ failed \in [Ports -> BOOLEAN]

\* Between calls a port says opened exactly while it has a descriptor of its
\* own, and no descriptor that the process opened is left without its port,
\* over any number of connects, reconnects, failures and destructions.
OpenedHasFd ==
    /\ \A p \in Ports : Idle(p) => (is_set(port[p].m_status, {"opened"}) <=> HasFd(p))
    /\ \A fd \in descriptors \ inherited : \E p \in Ports : port[p].m_fd = fd
    /\ \A p, q \in Ports : p # q /\ HasFd(p) => port[p].m_fd # port[q].m_fd

\* Whenever no port holds the device, its settings are those it had before
\* the process used it, with HUPCL off at most: the last disconnect, the
\* disconnect inside connect, and the destructor restore what was found.
SettingsPutBack ==
    (\A p \in Ports : Detached(p)) => device \in {first, Released(first)}

\* A connected device is raw and works as the conditions of its connect say,
\* whatever conditions the same m_termios was set up for before.
WorksAsAsked ==
    \A p \in Ports : Idle(p) /\ HasFd(p) => device.raw /\ Means(device) = asked[p]

\* The ready bits show what isReady last answered for their direction since
\* connect, and the failure bit a failure that nobody has put aside, with both
\* directions asked at once.
BitsShowAnswers ==
    \A p \in Ports : Idle(p) =>
        /\ \A d \in {"in", "out"} :
            is_set(port[p].m_status, ReadyBit(d)) <=> ready[p][d]
        /\ is_set(port[p].m_status, {"failure"}) <=> failed[p]
=============================================================================
