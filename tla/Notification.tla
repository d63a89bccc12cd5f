---------------------------- MODULE Notification ----------------------------
(* Sml::Notification (include/notification.hpp): an owner connects          *)
(* receivers and starts threads that notify them. The receiver is kept as a *)
(* raw pointer even when it was given as a shared_ptr, and nothing is       *)
(* locked, so the owner has to know what it has connected and who runs. In  *)
(* examples/notification it does not: main releases the callee while the    *)
(* caller's thread is still notifying it.                                   *)
EXTENDS Naturals, Sequences

CONSTANTS
    Notifications, Receivers, Threads,
    Null,           \* no receiver
    Gone,           \* no Notification
    Results,        \* what a receiver may return
    FAILURE,
    Careless        \* calls made without their precondition

ASSUME NotificationAssumption ==
    /\ FAILURE \in Results
    /\ {Null, Gone} \cap Receivers = {} /\ Null # Gone
    /\ "throw" \notin Results

VARIABLES
    m_reciver,      \* m_reciver[n]: the receiver bound in n
    live,           \* the receivers that exist
    running,        \* the threads that may notify
    call,           \* call[t]: the notify in which thread t is
    fault,          \* has something undefined happened?
    connected       \* history: connected[n], what the owner connected to n

vars == <<m_reciver, live, running, call, fault, connected>>

Steps == {"out", "call", "inside", "return"}
Calls == [step : Steps, n : Notifications \cup {Null}, ret : Results,
          heard : Seq(Receivers), reply : Results \cup {"throw"}]
NoCall(n) == [step |-> "out", n |-> n, ret |-> FAILURE, heard |-> <<>>, reply |-> FAILURE]

Init ==
    /\ m_reciver = [n \in Notifications |-> Gone]
    /\ live = {} /\ running = {} /\ fault = FALSE
    /\ call = [t \in Threads |-> NoCall(Null)]
    /\ connected = [n \in Notifications |-> Null]

Careful(what) == what \notin Careless

Exists(n) == m_reciver[n] # Gone
InNotify(n) == \E t \in Threads : call[t].n = n /\ call[t].step # "out"

\* The owner changes nothing while a thread that may notify runs.
Quiet == Careful("quiet") => running = {}

\* It starts no thread while a receiver it has connected is gone.
Sound == Careful("sound") => \A n \in Notifications : connected[n] \in live \cup {Null}

-----------------------------------------------------------------------------
(* The owner.                                                               *)

Bind(n, r) ==
    /\ m_reciver' = [m_reciver EXCEPT ![n] = r]
    /\ connected' = [connected EXCEPT ![n] = r]

\* The constructors, with a receiver and without.
Construct(n) ==
    /\ Quiet /\ ~Exists(n)
    /\ \E r \in live \cup {Null} : Bind(n, r)
    /\ UNCHANGED <<live, running, call, fault>>

\* connect replaces a function that another thread may be calling.
connect(n, r) ==
    /\ Quiet /\ Exists(n) /\ r \in live
    /\ Bind(n, r)
    /\ fault' = (fault \/ InNotify(n))
    /\ UNCHANGED <<live, running, call>>

\* Mutant: the source keeps its receiver.
MovedFrom_Copied(r) == r

\* swap with a new and empty m_reciver.
MovedFrom(r) == Null

MoveConstruct(n, rhs) ==
    /\ Quiet /\ ~Exists(n) /\ Exists(rhs)
    /\ m_reciver' = [m_reciver EXCEPT ![n] = m_reciver[rhs], ![rhs] = MovedFrom(@)]
    /\ connected' = [connected EXCEPT ![n] = connected[rhs], ![rhs] = Null]
    /\ fault' = (fault \/ InNotify(rhs))
    /\ UNCHANGED <<live, running, call>>

Destroy(n) ==
    /\ Quiet /\ Exists(n)
    /\ m_reciver' = [m_reciver EXCEPT ![n] = Gone]
    /\ connected' = [connected EXCEPT ![n] = Null]
    /\ fault' = (fault \/ InNotify(n))
    /\ UNCHANGED <<live, running, call>>

\* A new receiver: not where an old one is still pointed to.
Create(r) ==
    /\ r \notin live /\ \A n \in Notifications : m_reciver[n] # r
    /\ live' = live \cup {r}
    /\ UNCHANGED <<m_reciver, running, call, fault, connected>>

\* The owner's last shared_ptr: the Notification holds none.
Release(r) ==
    /\ Quiet /\ r \in live
    /\ live' = live \ {r}
    /\ fault' = (fault \/ \E t \in Threads : call[t].step = "inside" /\ call[t].heard = <<r>>)
    /\ UNCHANGED <<m_reciver, running, call, connected>>

Start(t) ==
    /\ Sound /\ t \notin running
    /\ running' = running \cup {t}
    /\ UNCHANGED <<m_reciver, live, call, fault, connected>>

-----------------------------------------------------------------------------
(* notify, in the threads.                                                  *)

\* Mutant: ret starts as the code for success.
NotHeard_Success == CHOOSE r \in Results : r # FAILURE

\* What notify returns when no receiver has answered.
NotHeard == FAILURE

notify(t, n) ==
    /\ t \in running /\ call[t].step = "out" /\ Exists(n)
    /\ call' = [call EXCEPT ![t] =
                    [NoCall(n) EXCEPT !.step = IF m_reciver[n] # Null THEN "call" ELSE "return",
                                      !.ret = NotHeard]]
    /\ UNCHANGED <<m_reciver, live, running, fault, connected>>

\* An m_reciver emptied meanwhile throws bad_function_call.
Enter(t) ==
    /\ call[t].step = "call"
    /\ LET r == m_reciver[call[t].n] IN
        /\ call' = [call EXCEPT ![t] =
                        IF r \in Receivers
                        THEN [@ EXCEPT !.step = "inside", !.heard = Append(call[t].heard, r)]
                        ELSE [@ EXCEPT !.step = "return"]]
        /\ fault' = (fault \/ r \notin live \cup {Null})
    /\ UNCHANGED <<m_reciver, live, running, connected>>

\* Mutant: the exception leaves notify.
Caught_Not(reply) == reply

\* Any exception of the receiver is caught.
Caught(reply) == IF reply = "throw" THEN NotHeard ELSE reply

Leave(t) ==
    /\ call[t].step = "inside"
    /\ \E reply \in Results \cup {"throw"} :
        call' = [call EXCEPT ![t] =
                    [@ EXCEPT !.step = "return", !.ret = Caught(reply), !.reply = reply]]
    /\ UNCHANGED <<m_reciver, live, running, fault, connected>>

Return(t) ==
    /\ call[t].step = "return"
    /\ call' = [call EXCEPT ![t] = NoCall(Null)]
    /\ UNCHANGED <<m_reciver, live, running, fault, connected>>

\* The entry point of the thread returns, and the owner has joined it.
End(t) ==
    /\ t \in running /\ call[t].step = "out"
    /\ running' = running \ {t}
    /\ UNCHANGED <<m_reciver, live, call, fault, connected>>

OwnerStep ==
    \/ \E n \in Notifications :
        \/ Construct(n) \/ Destroy(n)
        \/ \E r \in Receivers : connect(n, r)
        \/ \E rhs \in Notifications : MoveConstruct(n, rhs)
    \/ \E r \in Receivers : Create(r) \/ Release(r)

ThreadStep(t) ==
    \/ Start(t) \/ End(t)
    \/ \E n \in Notifications : notify(t, n)
    \/ Enter(t) \/ Leave(t) \/ Return(t)

Next == OwnerStep \/ \E t \in Threads : ThreadStep(t)

Spec == Init /\ [][Next]_vars

-----------------------------------------------------------------------------

\* Types: whatever a receiver does, notify returns a code.
TypeOK ==
    /\ m_reciver \in [Notifications -> Receivers \cup {Null, Gone}]
    /\ live \subseteq Receivers /\ running \subseteq Threads
    /\ fault \in BOOLEAN
    /\ connected \in [Notifications -> Receivers \cup {Null}]
    /\ call \in [Threads -> Calls]

\* An owner that changes nothing while threads run, and starts none with a
\* connected receiver gone, never has a receiver called after its end or a
\* function replaced in its call. It may release a receiver that only a
\* Notification moved from, or destroyed, was connected to.
NoFault == ~fault

\* A notify calls the receiver that the owner connected last, once, and
\* returns its answer, or FAILURE after an exception; without a receiver it
\* calls nobody and returns FAILURE. Many threads may do so at once.
Delivered ==
    \A t \in Threads : call[t].step = "return" =>
        LET r == connected[call[t].n] IN
        /\ call[t].heard = IF r = Null THEN <<>> ELSE <<r>>
        /\ call[t].ret = IF r = Null \/ call[t].reply = "throw" THEN FAILURE ELSE call[t].reply
=============================================================================
