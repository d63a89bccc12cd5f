------------------------------- MODULE Thread -------------------------------
(* Sml::Thread (include/thread.hpp): an object that starts its runnable in *)
(* a std::thread and joins it. The owner calls the object; the thread it   *)
(* started reads the object's m_runnable when it gets to run, which may be *)
(* long after start returned. A call made without the precondition that    *)
(* the code leaves unchecked is named in Careless.                         *)
CONSTANTS
    Runnables,      \* the runnables, each a RunnableAdapter on an instance
    OSThreads,      \* the threads of execution
    Null,           \* nullptr
    Careless,       \* see above
    OK, FAILURE, NO_RESOURCE    \* return codes

ASSUME ThreadAssumption ==
    /\ Null \notin Runnables \cup OSThreads
    /\ FAILURE # OK

VARIABLES
    alive,          \* the Thread object is constructed
    m_runnable, m_thread, m_started,    \* its members; m_thread names the thread
    joinable,       \* joinable() of the std::thread that m_thread points to
    pc,             \* where the owner is in start, join or the destructor
    fresh,          \* the thread that start has launched and not yet stored
    exec,           \* exec[t]: "idle", "launched" or "running"
    body,           \* body[t]: the runnable that t runs
    held,           \* runnables that the application keeps a shared_ptr to
    stopped,        \* runnables whose stop was called
    ret,            \* what the owner's last call returned
    fault           \* "none", or why the program is no longer defined

members == <<m_runnable, m_thread, m_started, joinable>>
threads == <<exec, body>>
application == <<held, stopped>>
vars == <<alive, members, pc, fresh, threads, application, ret, fault>>

Careful(call) == call \notin Careless
Active == {t \in OSThreads : exec[t] # "idle"}
Crash(why) == fault' = why

Init ==
    /\ alive = FALSE
    /\ m_runnable = Null /\ m_thread = Null /\ m_started = FALSE /\ joinable = FALSE
    /\ pc = "idle"
    /\ fresh = Null
    /\ exec = [t \in OSThreads |-> "idle"]
    /\ body = [t \in OSThreads |-> Null]
    /\ held = {}
    /\ stopped = {}
    /\ ret = OK
    /\ fault = "none"

-----------------------------------------------------------------------------
(* The owner's calls.                                                      *)

Construct(r) ==
    /\ ~alive
    /\ r \in held \cup {Null}
    /\ alive' = TRUE
    /\ m_runnable' = r
    /\ m_thread' = Null /\ m_started' = FALSE /\ joinable' = FALSE
    /\ UNCHANGED <<pc, fresh, threads, application, ret, fault>>

Idle == alive /\ pc = "idle"

\* Some thread is inside run of r.
InUse(r) == \E t \in OSThreads : exec[t] = "running" /\ body[t] = r

\* A thread that is about to read m_runnable must not see it change, and one
\* that runs it must not have it destroyed.
MaySwap ==
    /\ \A t \in OSThreads : exec[t] # "launched"
    /\ InUse(m_runnable) => m_runnable \in held

runnable(r) ==
    /\ Idle
    /\ r \in held \cup {Null}
    /\ Careful("swap") => MaySwap
    /\ m_runnable' = r
    /\ IF r # m_runnable /\ ~MaySwap THEN Crash("freed") ELSE UNCHANGED fault
    /\ UNCHANGED <<alive, m_thread, m_started, joinable, pc, fresh, threads, application, ret>>

\* Mutant: start does not ask whether there is a runnable.
start_Unchecked ==
    /\ Idle
    /\ Careful("start_again") => ~joinable
    /\ \E t \in OSThreads \ (Active \cup {m_thread}) :
          /\ m_started' = TRUE
          /\ exec' = [exec EXCEPT ![t] = "launched"]
          /\ fresh' = t
          /\ pc' = "reset"
    /\ UNCHANGED <<alive, m_runnable, m_thread, joinable, body, application, ret, fault>>

\* The new thread exists before m_thread.reset takes it in.
start ==
    /\ Idle
    /\ Careful("start_again") => ~joinable
    /\ IF m_runnable = Null
       THEN ret' = NO_RESOURCE /\ UNCHANGED <<m_started, exec, fresh, pc>>
       ELSE \E t \in OSThreads \ (Active \cup {m_thread}) :
               /\ m_started' = TRUE
               /\ exec' = [exec EXCEPT ![t] = "launched"]
               /\ fresh' = t
               /\ pc' = "reset"
               /\ UNCHANGED ret
    /\ UNCHANGED <<alive, m_runnable, m_thread, joinable, body, application, fault>>

\* A std::thread that is still joinable must not be destroyed.
Reset ==
    /\ pc = "reset"
    /\ IF joinable THEN Crash("terminate") ELSE UNCHANGED fault
    /\ m_thread' = fresh
    /\ fresh' = Null
    /\ joinable' = TRUE
    /\ ret' = OK
    /\ pc' = "idle"
    /\ UNCHANGED <<alive, m_runnable, m_started, threads, application>>

\* Mutant: join leaves m_started set.
BeginJoin_Started(then, otherwise) ==
    /\ Careful("never_started") => m_thread # Null
    /\ IF m_thread = Null THEN Crash("null") /\ UNCHANGED <<alive, m_started, joinable, pc, ret>>
       ELSE IF joinable /\ m_started
       THEN pc' = then /\ UNCHANGED <<alive, m_started, joinable, ret, fault>>
       ELSE otherwise

\* join up to the point where it waits, as the owner's call of it or as the
\* destructor's. m_thread is used without a look at whether there is one.
BeginJoin(then, otherwise) ==
    /\ Careful("never_started") => m_thread # Null
    /\ IF m_thread = Null THEN Crash("null") /\ UNCHANGED <<alive, m_started, joinable, pc, ret>>
       ELSE IF joinable /\ m_started
       THEN m_started' = FALSE /\ pc' = then /\ UNCHANGED <<alive, joinable, ret, fault>>
       ELSE otherwise

join ==
    /\ Idle
    /\ BeginJoin("join", ret' = FAILURE /\ UNCHANGED <<alive, m_started, joinable, pc, fault>>)
    /\ UNCHANGED <<m_runnable, m_thread, fresh, threads, application>>

\* Mutants: joined, the std::thread stays joinable; or m_started, which join
\* has just reset, is looked at again.
Joined_StillJoinable ==
    /\ pc = "join"
    /\ exec[m_thread] = "idle"
    /\ ret' = OK
    /\ pc' = "idle"
    /\ UNCHANGED <<alive, members, fresh, threads, application, fault>>
Joined_IfStarted ==
    /\ pc = "join"
    /\ exec[m_thread] = "idle" /\ m_started
    /\ joinable' = FALSE
    /\ ret' = OK
    /\ pc' = "idle"
    /\ UNCHANGED <<alive, m_runnable, m_thread, m_started, fresh, threads, application, fault>>

Joined ==
    /\ pc = "join"
    /\ exec[m_thread] = "idle"
    /\ joinable' = FALSE
    /\ ret' = OK
    /\ pc' = "idle"
    /\ UNCHANGED <<alive, m_runnable, m_thread, m_started, fresh, threads, application, fault>>

\* The destructor joins, but it does not stop the runnable.
Destroy ==
    /\ Idle
    /\ BeginJoin("destroy",
          /\ IF joinable THEN Crash("terminate") ELSE UNCHANGED fault
          /\ alive' = FALSE
          /\ UNCHANGED <<m_started, joinable, pc, ret>>)
    /\ UNCHANGED <<m_runnable, m_thread, fresh, threads, application>>

\* Mutant: the destructor does not wait for the thread.
Destroyed_NoWait ==
    /\ pc = "destroy"
    /\ joinable' = FALSE
    /\ alive' = FALSE
    /\ pc' = "idle"
    /\ UNCHANGED <<m_runnable, m_thread, m_started, fresh, threads, application, ret, fault>>

Destroyed ==
    /\ pc = "destroy"
    /\ exec[m_thread] = "idle"
    /\ joinable' = FALSE
    /\ alive' = FALSE
    /\ pc' = "idle"
    /\ UNCHANGED <<m_runnable, m_thread, m_started, fresh, threads, application, ret, fault>>

-----------------------------------------------------------------------------
(* The application, on any thread: it makes runnables, stops them and lets  *)
(* go of them.                                                             *)

Exists(r) == r \in held \/ (alive /\ r = m_runnable)

Create(r) ==
    /\ ~Exists(r) /\ ~InUse(r)
    /\ held' = held \cup {r}
    /\ stopped' = stopped \ {r}
    /\ UNCHANGED <<alive, members, pc, fresh, threads, ret, fault>>

\* The last shared_ptr to a runnable must not go while a thread is inside it.
Release(r) ==
    /\ r \in held
    /\ Careful("release") => (InUse(r) => r = m_runnable)
    /\ held' = held \ {r}
    /\ IF InUse(r) /\ r # m_runnable THEN Crash("freed") ELSE UNCHANGED fault
    /\ UNCHANGED <<alive, members, pc, fresh, threads, stopped, ret>>

\* RunnableAdapter::stop passes the call on to the instance.
stop(r) ==
    /\ Exists(r)
    /\ stopped' = stopped \cup {r}
    /\ UNCHANGED <<alive, members, pc, fresh, threads, held, ret, fault>>

-----------------------------------------------------------------------------
(* The started threads.                                                    *)

\* Mutant: the thread empties the object's pointer when it has read it.
Run_Reset(t) ==
    /\ exec[t] = "launched"
    /\ IF ~alive \/ m_runnable = Null THEN Crash("freed") ELSE UNCHANGED fault
    /\ exec' = [exec EXCEPT ![t] = "running"]
    /\ body' = [body EXCEPT ![t] = m_runnable]
    /\ m_runnable' = Null
    /\ UNCHANGED <<alive, m_thread, m_started, joinable, pc, fresh, application, ret>>

\* The started thread enters the lambda: it reads m_runnable of the object.
Run(t) ==
    /\ exec[t] = "launched"
    /\ IF ~alive \/ m_runnable = Null THEN Crash("freed") ELSE UNCHANGED fault
    /\ exec' = [exec EXCEPT ![t] = "running"]
    /\ body' = [body EXCEPT ![t] = m_runnable]
    /\ UNCHANGED <<alive, members, pc, fresh, application, ret>>

End(t) ==
    /\ exec[t] = "running"
    /\ exec' = [exec EXCEPT ![t] = "idle"]
    /\ body' = [body EXCEPT ![t] = Null]
    /\ UNCHANGED <<alive, members, pc, fresh, application, ret, fault>>

\* An entry point that joins its own Thread: std::thread::join throws, and
\* FAIL_JOIN is returned with m_started reset. While the owner waits in join,
\* m_started is reset already and the answer is FAILURE.
JoinOwn(t) ==
    /\ exec[t] = "running"
    /\ Careful("join_own") => ~m_started
    /\ IF m_thread = Null THEN Crash("null") /\ UNCHANGED m_started
       ELSE m_started' = (m_started /\ ~joinable) /\ UNCHANGED fault
    /\ UNCHANGED <<alive, m_runnable, m_thread, joinable, pc, fresh, threads, application, ret>>

\* The entry point sees that it is to stop, or it comes to its own end.
EndStopped(t) == body[t] \in stopped /\ End(t)
EndByItself(t) == End(t)

-----------------------------------------------------------------------------
Owner ==
    \/ \E r \in Runnables \cup {Null} : Construct(r) \/ runnable(r)
    \/ start \/ Reset \/ join \/ Joined \/ Destroy \/ Destroyed

Others ==
    \/ \E r \in Runnables : Create(r) \/ Release(r) \/ stop(r)
    \/ \E t \in OSThreads : Run(t) \/ JoinOwn(t) \/ EndStopped(t) \/ EndByItself(t)

Next == Owner \/ Others

Spec == Init /\ [][Next]_vars

(* The scheduler runs every thread, and a stopped entry point returns. An  *)
(* entry point that nobody stops may run for ever, and the owner need not  *)
(* make another call.                                                      *)
Fairness ==
    /\ WF_vars(Reset) /\ WF_vars(Joined) /\ WF_vars(Destroyed)
    /\ \A t \in OSThreads : WF_vars(Run(t)) /\ WF_vars(EndStopped(t))

FairSpec == Spec /\ Fairness

-----------------------------------------------------------------------------
\* The types; a thread runs a runnable, and no null one, exactly while it is
\* in one. (start has asked for one long before.)
TypeOK ==
    /\ alive \in BOOLEAN /\ m_started \in BOOLEAN /\ joinable \in BOOLEAN
    /\ m_runnable \in Runnables \cup {Null}
    /\ m_thread \in OSThreads \cup {Null}
    /\ fresh \in OSThreads \cup {Null}
    /\ pc \in {"idle", "reset", "join", "destroy"}
    /\ exec \in [OSThreads -> {"idle", "launched", "running"}]
    /\ body \in [OSThreads -> Runnables \cup {Null}]
    /\ \A t \in OSThreads : exec[t] = "running" <=> body[t] # Null
    /\ held \subseteq Runnables
    /\ stopped \subseteq Runnables
    /\ ret \in {OK, FAILURE, NO_RESOURCE}
    /\ fault \in {"none", "null", "terminate", "freed"}

(* Nothing undefined happens, and std::terminate is not called.            *)
NoFault == fault = "none"

(* A thread that is active belongs to an object that is alive, and the     *)
(* object can still join it. So when join has returned OK, or the          *)
(* destructor is over, nothing of the runnable runs any more.              *)
Attached ==
    \A t \in Active :
        /\ alive
        /\ IF pc = "reset" THEN t = fresh ELSE t = m_thread /\ joinable

(* started() tells whether there is a thread to join: it is true from      *)
(* start until join or the destructor is called.                           *)
StartedIsJoinable ==
    alive => CASE pc = "idle" -> m_started <=> joinable
               [] pc = "reset" -> m_started /\ ~joinable
               [] OTHER -> ~m_started /\ joinable

(* Every active thread runs, or is about to run, a runnable that exists:   *)
(* one that the object or the application still refers to.                 *)
RunnableExists ==
    \A t \in Active :
        IF exec[t] = "running" THEN body[t] \in held \cup {m_runnable} ELSE m_runnable # Null

(* A join, and the destructor, return once the runnable is told to stop.   *)
Runs == IF exec[m_thread] = "running" THEN body[m_thread] ELSE m_runnable
StopEndsJoin == (pc \in {"join", "destroy"} /\ Runs \in stopped) ~> pc = "idle"

(* thread.hpp:202 counts a Thread that was not run among those for which   *)
(* join returns FAILURE: the null m_thread is never used.                  *)
NotRunIsFailure == fault # "null"
=============================================================================
