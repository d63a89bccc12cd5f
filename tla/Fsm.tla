-------------------------------- MODULE Fsm --------------------------------
(* Sml::State and Sml::Fsm (include/fsm.hpp): a machine whose states are    *)
(* objects of the application. The machine owns the current state, the     *)
(* tables of next states own nothing, the application owns what it likes.  *)
(* exit, entry and doActivity are callbacks of the application: while one  *)
(* runs the application may change the tables, let go of a state, or call  *)
(* dispatch again. A call made without the precondition that the code      *)
(* leaves unchecked is named in Careless.                                  *)
EXTENDS Integers, Sequences

CONSTANTS
    States,         \* the state objects
    Events,         \* event codes: 0 is stay, negative ones are void
    Null,           \* nullptr
    Careless,       \* see above
    MaxDepth        \* bound: calls of dispatch inside each other

ASSUME FsmAssumption ==
    /\ Events \subseteq Int
    /\ Null \notin States
    /\ MaxDepth \in Nat

VARIABLES
    m_current,      \* the current state
    m_states,       \* m_states[s][e]: the next state of s for e, or Null
    held,           \* states that the application keeps a shared_ptr to
    alive,          \* states that are not destroyed
    stack,          \* the calls of dispatch in progress, the innermost last
    inside          \* states that were entered, or made initial, and not left

vars == <<m_current, m_states, held, alive, stack, inside>>

\* Next states can be stored for other codes too, and are never looked up.
Lookups == {e \in Events : e > 0}

Careful(call) == call \notin Careless

\* A dispatch of event that is inside a callback of state.
Call(callback, event, state) == [at |-> callback, event |-> event, state |-> state]
Top == stack[Len(stack)]
InCallback == stack # <<>>
Running == {stack[i].state : i \in 1..Len(stack)}

Init ==
    /\ m_current = Null
    /\ m_states = [s \in States |-> [e \in Lookups |-> Null]]
    /\ held = States
    /\ alive = States
    /\ stack = <<>>
    /\ inside = {}

-----------------------------------------------------------------------------
(* Setting the machine up.                                                 *)

addTransition(from, e, to) ==
    /\ from \in held /\ to \in held
    /\ m_states' = [m_states EXCEPT ![from][e] = to]
    /\ UNCHANGED <<m_current, held, alive, stack, inside>>

\* What is left of the states when only those of owners have a shared_ptr.
Owned(owners) == alive \cap owners

\* initial runs no callback: called later it would leave the old state
\* without exit, and destroy it if nobody else owns it.
initial(s) ==
    /\ s \in held
    /\ Careful("initial") => m_current = Null
    /\ m_current' = s
    /\ alive' = Owned(held \cup {s})
    /\ inside' = (inside \ {m_current}) \cup {s}
    /\ UNCHANGED <<m_states, held, stack>>

\* The application gives up its pointer to s, which it must not do to a state
\* that is in the middle of a callback.
Release(s) ==
    /\ s \in held
    /\ Careful("release") => s \notin Running
    /\ held' = held \ {s}
    /\ alive' = Owned(held' \cup {m_current})
    /\ UNCHANGED <<m_current, m_states, stack, inside>>

-----------------------------------------------------------------------------
(* dispatch.                                                               *)

\* Mutant: the weak pointer is not asked whether it has expired.
next_Raw(s, e) == m_states[s][e]

\* Null without a next state, and with one that is gone.
next(s, e) == IF m_states[s][e] \in alive THEN m_states[s][e] ELSE Null

\* exit must not dispatch: the event in progress would then be looked up in
\* another state's table. A state that dispatches from its callback must be
\* owned by the application, or the machine may destroy it on the way.
MayDispatch == InCallback => Top.at # "exit" /\ Top.state \in held

\* The first callback of a dispatch.
Begin(e) == Call(IF e = 0 THEN "doActivity" ELSE "exit", e, m_current)

\* Mutant: a machine without a state is not asked for.
dispatch_Unchecked(e) ==
    /\ Len(stack) < MaxDepth
    /\ Careful("dispatch") => MayDispatch
    /\ IF e < 0
       THEN UNCHANGED <<stack, inside>>
       ELSE /\ stack' = Append(stack, Begin(e))
            /\ inside' = IF Begin(e).at = "exit" THEN inside \ {m_current} ELSE inside
    /\ UNCHANGED <<m_current, m_states, held, alive>>

dispatch(e) ==
    /\ Len(stack) < MaxDepth
    /\ Careful("dispatch") => MayDispatch
    /\ IF m_current = Null \/ e < 0
       THEN UNCHANGED <<stack, inside>>
       ELSE /\ stack' = Append(stack, Begin(e))
            /\ inside' = IF Begin(e).at = "exit" THEN inside \ {m_current} ELSE inside
    /\ UNCHANGED <<m_current, m_states, held, alive>>

\* The innermost dispatch goes on to another callback of the current state,
\* which need not be the state whose callback has just returned.
GoOn(callback, s) == stack' = [stack EXCEPT ![Len(stack)] = Call(callback, @.event, s)]

\* Mutant: a state that the event does not leave is not entered again.
Exited_SelfSkipped ==
    /\ InCallback /\ Top.at = "exit"
    /\ LET p == next(m_current, Top.event)
       IN  IF p = Null
           THEN GoOn("doActivity", m_current) /\ UNCHANGED <<m_current, alive, inside>>
           ELSE /\ m_current' = p
                /\ alive' = Owned(held \cup {p})
                /\ inside' = inside \cup {p}
                /\ GoOn("entry", p)
    /\ UNCHANGED <<m_states, held>>

\* exit has returned: go to the next state, or enter the same one again.
Exited ==
    /\ InCallback /\ Top.at = "exit"
    /\ LET p == next(m_current, Top.event)
           s == IF p # Null THEN p ELSE m_current
       IN  /\ m_current' = s
           /\ alive' = Owned(held \cup {s})
           /\ inside' = inside \cup {s}
           /\ GoOn("entry", s)
    /\ UNCHANGED <<m_states, held>>

Entered ==
    /\ InCallback /\ Top.at = "entry"
    /\ GoOn("doActivity", m_current)
    /\ UNCHANGED <<m_current, m_states, held, alive, inside>>

Done ==
    /\ InCallback /\ Top.at = "doActivity"
    /\ stack' = SubSeq(stack, 1, Len(stack) - 1)
    /\ UNCHANGED <<m_current, m_states, held, alive, inside>>

Next ==
    \/ \E from, to \in States, e \in Lookups : addTransition(from, e, to)
    \/ \E s \in States : initial(s) \/ Release(s)
    \/ \E e \in Events : dispatch(e)
    \/ Exited \/ Entered \/ Done

Spec == Init /\ [][Next]_vars

-----------------------------------------------------------------------------
Frame == [at : {"exit", "entry", "doActivity"}, event : Events, state : States]

\* The types of the members and of the calls in progress.
TypeOK ==
    /\ m_current \in States \cup {Null}
    /\ m_states \in [States -> [Lookups -> States \cup {Null}]]
    /\ held \subseteq alive
    /\ alive \subseteq States
    /\ stack \in Seq(Frame)
    /\ inside \subseteq States

\* No callback runs, at any depth, on a state object that is destroyed, and
\* the current state is never one.
RunningStateExists ==
    /\ Running \subseteq alive
    /\ m_current # Null => m_current \in alive

\* entry and exit come in pairs, whatever dispatches happen inside callbacks:
\* between callbacks the machine is inside its current state and no other, and
\* inside none only while exit runs.
InsideCurrent ==
    inside = IF m_current = Null \/ (InCallback /\ Top.at = "exit")
             THEN {} ELSE {m_current}
=============================================================================
