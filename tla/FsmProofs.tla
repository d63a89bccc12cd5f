----------------------------- MODULE FsmProofs ------------------------------
(* Theorems about Fsm, for any states, events and depth of dispatches. The  *)
(* types hold whatever the application does; that no callback runs on a     *)
(* destroyed state and that entry and exit pair up hold for one that keeps  *)
(* the preconditions, that is with Careless = {}.                           *)
EXTENDS Fsm, SequenceTheorems, TLAPS

\* While a callback runs there is a current state.
Typed == TypeOK /\ (InCallback => m_current # Null)

LEMMA TopOfStack ==
  ASSUME TypeOK, InCallback
  PROVE  /\ Len(stack) \in Nat \ {0}
         /\ Len(stack) \in 1..Len(stack)
         /\ Top \in Frame
<1>1. stack \in Seq(Frame) /\ stack # <<>>
  BY DEF TypeOK, InCallback
<1>2. Len(stack) \in Nat \ {0}
  BY <1>1, EmptySeq
<1>3. Len(stack) \in 1..Len(stack)
  BY <1>2
<1> QED
  BY <1>1, <1>2, <1>3, ElementOfSeq DEF Top

\* What the three ways to change the stack leave of it.
LEMMA Pushed ==
  ASSUME NEW s \in Seq(Frame), NEW f \in Frame, NEW t, t = Append(s, f)
  PROVE  /\ t \in Seq(Frame) /\ t # <<>>
         /\ Len(s) \in Nat /\ Len(t) = Len(s) + 1
         /\ t[Len(t)] = f
         /\ \A i \in 1..Len(s) : t[i] = s[i]
<1>1. Len(s) \in Nat
  BY LenProperties
<1>2. /\ t \in Seq(Frame) /\ Len(t) = Len(s) + 1
      /\ t[Len(s) + 1] = f
      /\ \A i \in 1..Len(s) : t[i] = s[i]
  BY AppendProperties
<1>3. t # <<>>
  BY <1>1, <1>2, EmptySeq
<1> QED
  BY <1>1, <1>2, <1>3

LEMMA Replaced ==
  ASSUME NEW s \in Seq(Frame), s # <<>>, NEW f \in Frame, NEW t,
         t = [s EXCEPT ![Len(s)] = f]
  PROVE  /\ t \in Seq(Frame) /\ t # <<>>
         /\ Len(s) \in Nat /\ Len(t) = Len(s)
         /\ t[Len(t)] = f
         /\ \A i \in 1..Len(s) - 1 : t[i] = s[i]
<1>1. Len(s) \in Nat \ {0}
  BY EmptySeq
<1>2. Len(s) \in 1..Len(s)
  BY <1>1
<1>3. /\ t \in Seq(Frame) /\ Len(t) = Len(s)
      /\ \A i \in 1..Len(s) : t[i] = IF i = Len(s) THEN f ELSE s[i]
  BY <1>2, ExceptSeq
<1>4. t # <<>>
  BY <1>1, <1>3, EmptySeq
<1>5. t[Len(t)] = f
  BY <1>2, <1>3
<1>6. ASSUME NEW i \in 1..Len(s) - 1 PROVE t[i] = s[i]
  <2>1. i \in 1..Len(s) /\ i # Len(s)
    BY <1>1
  <2> QED
    BY <1>3, <2>1
<1> QED
  BY <1>1, <1>3, <1>4, <1>5, <1>6

LEMMA Popped ==
  ASSUME NEW s \in Seq(Frame), s # <<>>, NEW t, t = SubSeq(s, 1, Len(s) - 1)
  PROVE  /\ t \in Seq(Frame)
         /\ Len(s) \in Nat \ {0} /\ Len(t) = Len(s) - 1
         /\ \A i \in 1..Len(t) : t[i] = s[i]
<1>1. Len(s) \in Nat \ {0}
  BY EmptySeq
<1>2. \A i \in 1..Len(s) - 1 : s[i] \in Frame
  BY <1>1, ElementOfSeq
<1>3. /\ t \in Seq(Frame)
      /\ Len(t) = IF 1 <= Len(s) - 1 THEN Len(s) - 1 - 1 + 1 ELSE 0
      /\ \A i \in 1..Len(s) - 1 - 1 + 1 : t[i] = s[1 + i - 1]
  BY <1>1, <1>2, SubSeqProperties
<1>4. Len(t) = Len(s) - 1
  <2>1. ASSUME NEW m \in Nat \ {0}
        PROVE  (IF 1 <= m - 1 THEN m - 1 - 1 + 1 ELSE 0) = m - 1
    OBVIOUS
  <2> QED
    BY <1>1, <1>3, <2>1
<1>5. ASSUME NEW i \in 1..Len(t) PROVE t[i] = s[i]
  <2>1. i \in 1..Len(s) - 1 - 1 + 1 /\ 1 + i - 1 = i
    BY <1>1, <1>4
  <2>2. t[i] = s[1 + i - 1]
    BY <1>3, <2>1
  <2> QED
    BY <2>1, <2>2
<1> QED
  BY <1>1, <1>3, <1>4, <1>5

\* The call that the innermost dispatch goes on to.
LEMMA GoesOn ==
  ASSUME TypeOK, InCallback, NEW callback \in {"exit", "entry", "doActivity"},
         NEW s \in States, GoOn(callback, s)
  PROVE  /\ Call(callback, Top.event, s) \in Frame
         /\ stack' = [stack EXCEPT ![Len(stack)] = Call(callback, Top.event, s)]
         /\ stack \in Seq(Frame) /\ stack # <<>>
<1>1. Top \in Frame
  BY TopOfStack
<1>2. Call(callback, Top.event, s) \in Frame
  BY <1>1 DEF Frame, Call
<1>3. stack' = [stack EXCEPT ![Len(stack)] = Call(callback, Top.event, s)]
  BY TopOfStack DEF GoOn, Top, TypeOK
<1> QED
  BY <1>2, <1>3 DEF TypeOK, InCallback

\* The state that Exited goes to.
LEMMA NextOrSame ==
  ASSUME TypeOK, NEW e
  PROVE  next(m_current, e) # Null =>
            /\ next(m_current, e) = m_states[m_current][e]
            /\ next(m_current, e) \in alive
            /\ next(m_current, e) \in States
BY DEF next, TypeOK

LEMMA ExitedTo ==
  ASSUME Typed, Exited
  PROVE  /\ InCallback /\ Top.at = "exit"
         /\ m_current' \in States
         /\ m_current' \in alive \cup {m_current}
         /\ m_current' # m_current => m_current' = m_states[m_current][Top.event]
         /\ alive' = alive \cap (held \cup {m_current'})
         /\ inside' = inside \cup {m_current'}
         /\ GoOn("entry", m_current')
         /\ m_states' = m_states /\ held' = held
<1> DEFINE p == next(m_current, Top.event)
           s == IF p # Null THEN p ELSE m_current
<1>1. InCallback /\ Top.at = "exit"
  BY DEF Exited
<1>2. m_current \in States
  BY <1>1 DEF Typed, TypeOK
<1>3. /\ m_current' = s
      /\ alive' = alive \cap (held \cup {s})
      /\ inside' = inside \cup {s}
      /\ GoOn("entry", s)
      /\ m_states' = m_states /\ held' = held
  BY DEF Exited, Owned
<1>4. p # Null => p = m_states[m_current][Top.event] /\ p \in alive /\ p \in States
  BY NextOrSame DEF Typed
<1> HIDE DEF p
<1> QED
  BY <1>1, <1>2, <1>3, <1>4

-----------------------------------------------------------------------------
(* Types.                                                                   *)

LEMMA InitTyped == Init => Typed
BY FsmAssumption, EmptySeq DEF Init, Typed, TypeOK, InCallback

LEMMA TypedStep == Typed /\ [Next]_vars => Typed'
<1> SUFFICES ASSUME Typed, [Next]_vars PROVE Typed'
  OBVIOUS
<1> USE FsmAssumption
<1>0. TypeOK
  BY DEF Typed
<1>1. CASE UNCHANGED vars
  BY <1>1 DEF vars, Typed, TypeOK, InCallback
<1>2. ASSUME NEW from \in States, NEW to \in States, NEW e \in Lookups,
             addTransition(from, e, to)
      PROVE  Typed'
  <2>1. m_states' \in [States -> [Lookups -> States \cup {Null}]]
    BY <1>0, <1>2 DEF addTransition, TypeOK
  <2> QED
    BY <1>2, <2>1 DEF addTransition, Typed, TypeOK, InCallback
<1>3. ASSUME NEW s \in States, initial(s) PROVE Typed'
  BY <1>3 DEF initial, Owned, Typed, TypeOK, InCallback
<1>4. ASSUME NEW s \in States, Release(s) PROVE Typed'
  BY <1>4 DEF Release, Owned, Typed, TypeOK, InCallback
<1>5. ASSUME NEW e \in Events, dispatch(e) PROVE Typed'
  <2>1. UNCHANGED <<m_current, m_states, held, alive>> /\ inside' \subseteq States
    BY <1>0, <1>5 DEF dispatch, TypeOK
  <2>2. CASE m_current = Null \/ e < 0
    BY <1>5, <2>1, <2>2 DEF dispatch, Typed, TypeOK, InCallback
  <2>3. CASE ~(m_current = Null \/ e < 0)
    <3>1. Begin(e) \in Frame
      BY <1>0, <2>3 DEF Begin, Call, Frame, TypeOK
    <3>2. stack' = Append(stack, Begin(e)) /\ stack \in Seq(Frame)
      BY <1>0, <1>5, <2>3 DEF dispatch, TypeOK
    <3>3. stack' \in Seq(Frame)
      BY <3>1, <3>2, Pushed
    <3> QED
      BY <2>1, <2>3, <3>3 DEF Typed, TypeOK, InCallback
  <2> QED
    BY <2>2, <2>3
<1>6. CASE Exited
  <2>1. /\ m_current' \in States
        /\ InCallback
        /\ GoOn("entry", m_current')
        /\ alive' = alive \cap (held \cup {m_current'})
        /\ inside' = inside \cup {m_current'}
        /\ m_states' = m_states /\ held' = held
    BY <1>6, ExitedTo
  <2>2. stack' \in Seq(Frame)
    BY <1>0, <2>1, GoesOn, Replaced
  <2> QED
    BY <2>1, <2>2 DEF Typed, TypeOK
<1>7. CASE Entered
  <2>1. InCallback /\ m_current \in States /\ GoOn("doActivity", m_current)
    BY <1>7 DEF Entered, Typed, TypeOK
  <2>2. stack' \in Seq(Frame)
    BY <1>0, <2>1, GoesOn, Replaced
  <2> QED
    BY <1>7, <2>1, <2>2 DEF Entered, Typed, TypeOK
<1>8. CASE Done
  <2>1. InCallback /\ stack' = SubSeq(stack, 1, Len(stack) - 1)
    BY <1>8 DEF Done
  <2>2. stack' \in Seq(Frame)
    BY <1>0, <2>1, Popped DEF TypeOK, InCallback
  <2> QED
    BY <1>8, <2>1, <2>2 DEF Done, Typed, TypeOK
<1> QED
  BY <1>1, <1>2, <1>3, <1>4, <1>5, <1>6, <1>7, <1>8 DEF Next

(* Fsm keeps its types whatever the application does.                       *)
THEOREM TypeCorrect == Spec => []TypeOK
<1>1. Typed => TypeOK
  BY DEF Typed
<1> QED
  BY <1>1, InitTyped, TypedStep, PTL DEF Spec

-----------------------------------------------------------------------------
(* A careful application.                                                   *)

\* The calls of dispatch that wait for an inner one are in entry or doActivity
\* of states that the application owns; the innermost one is in a callback of
\* such a state or of the current one, and in exit of the current one only.
CallsOwned ==
    /\ \A i \in 1..Len(stack) - 1 : stack[i].state \in held /\ stack[i].at # "exit"
    /\ InCallback => /\ Top.state \in held \cup {m_current}
                     /\ Top.at = "exit" => Top.state = m_current

CurrentExists == m_current # Null => m_current \in alive

\* What is inductive: InsideCurrent needs to know that only the innermost
\* dispatch can be in exit, and the states of the calls exist because those
\* that are not the current one are owned by the application.
IInv == Typed /\ CallsOwned /\ CurrentExists /\ InsideCurrent

LEMMA InitIInv == Init => IInv
<1> SUFFICES ASSUME Init PROVE IInv
  OBVIOUS
<1>1. Len(stack) = 0 /\ ~InCallback
  BY EmptySeq DEF Init, InCallback
<1> QED
  BY <1>1, InitTyped DEF Init, IInv, CallsOwned, CurrentExists, InsideCurrent

LEMMA addTransitionKeeps ==
  ASSUME IInv, NEW from \in States, NEW to \in States, NEW e \in Lookups,
         addTransition(from, e, to)
  PROVE  CallsOwned' /\ CurrentExists' /\ InsideCurrent'
BY DEF addTransition, IInv, CallsOwned, CurrentExists, InsideCurrent, InCallback, Top

\* The first state is set while nothing runs.
LEMMA initialKeeps ==
  ASSUME Careless = {}, IInv, NEW s \in States, initial(s)
  PROVE  CallsOwned' /\ CurrentExists' /\ InsideCurrent'
<1>1. /\ m_current = Null /\ m_current' = s /\ s # Null
      /\ alive' = alive \cap (held \cup {s}) /\ s \in held
      /\ inside' = (inside \ {m_current}) \cup {s}
      /\ stack' = stack /\ held' = held
  BY FsmAssumption DEF initial, Careful, Owned
<1>2. ~InCallback /\ inside = {}
  BY <1>1 DEF IInv, Typed, InsideCurrent
<1>3. stack = <<>> /\ Len(stack) = 0 /\ ~InCallback'
  BY <1>1, <1>2, EmptySeq DEF InCallback
<1>4. CallsOwned'
  BY <1>1, <1>3 DEF CallsOwned
<1>5. CurrentExists'
  BY <1>1 DEF CurrentExists, IInv, Typed, TypeOK
<1>6. InsideCurrent'
  BY <1>1, <1>2, <1>3 DEF InsideCurrent
<1> QED
  BY <1>4, <1>5, <1>6

\* The state that is let go of is in no callback.
LEMMA ReleaseKeeps ==
  ASSUME Careless = {}, IInv, NEW s \in States, Release(s)
  PROVE  CallsOwned' /\ CurrentExists' /\ InsideCurrent'
<1>1. /\ s \notin Running /\ held' = held \ {s}
      /\ alive' = alive \cap (held' \cup {m_current})
      /\ UNCHANGED <<m_current, stack, inside>>
  BY DEF Release, Careful, Owned
<1>2. \A i \in 1..Len(stack) : stack[i].state # s
  BY <1>1 DEF Running
<1>3. CallsOwned'
  <2>1. Len(stack) \in Nat
    BY LenProperties DEF IInv, Typed, TypeOK
  <2>2. ASSUME NEW i \in 1..Len(stack) - 1
        PROVE  stack[i].state \in held' /\ stack[i].at # "exit"
    <3>1. i \in 1..Len(stack)
      BY <2>1
    <3> QED
      BY <1>1, <1>2, <3>1 DEF IInv, CallsOwned
  <2>3. ASSUME InCallback
        PROVE  /\ Top.state \in held' \cup {m_current}
               /\ Top.at = "exit" => Top.state = m_current
    <3>1. Len(stack) \in 1..Len(stack)
      BY <2>3, TopOfStack DEF IInv, Typed
    <3> QED
      BY <1>1, <1>2, <2>3, <3>1 DEF IInv, CallsOwned, Top
  <2> QED
    BY <1>1, <2>2, <2>3 DEF CallsOwned, InCallback, Top
<1>4. CurrentExists' /\ InsideCurrent'
  BY <1>1 DEF IInv, CurrentExists, InsideCurrent, InCallback, Top
<1> QED
  BY <1>3, <1>4

\* A dispatch inside a callback finds it in no exit, and owned.
LEMMA dispatchKeeps ==
  ASSUME Careless = {}, IInv, NEW e \in Events, dispatch(e)
  PROVE  CallsOwned' /\ CurrentExists' /\ InsideCurrent'
<1> USE FsmAssumption
<1>1. UNCHANGED <<m_current, held, alive>> /\ MayDispatch
  BY DEF dispatch, Careful
<1>2. CurrentExists'
  BY <1>1 DEF IInv, CurrentExists
<1>3. CASE m_current = Null \/ e < 0
  <2>1. UNCHANGED <<stack, inside>>
    BY <1>3 DEF dispatch
  <2> QED
    BY <1>1, <1>2, <2>1 DEF IInv, CallsOwned, InsideCurrent, InCallback, Top
<1>4. CASE ~(m_current = Null \/ e < 0)
  <2> DEFINE f == Begin(e)
  <2>1. /\ f \in Frame /\ f.state = m_current
        /\ f.at = IF e = 0 THEN "doActivity" ELSE "exit"
    BY <1>4 DEF Begin, Call, Frame, IInv, Typed, TypeOK
  <2>2. /\ stack \in Seq(Frame) /\ stack' = Append(stack, f)
        /\ inside' = IF f.at = "exit" THEN inside \ {m_current} ELSE inside
    BY <1>4 DEF dispatch, IInv, Typed, TypeOK
  <2> HIDE DEF f
  <2>3. /\ stack' # <<>> /\ Len(stack) \in Nat /\ Len(stack') = Len(stack) + 1
        /\ stack'[Len(stack')] = f
        /\ \A i \in 1..Len(stack) : stack'[i] = stack[i]
    BY <2>1, <2>2, Pushed
  <2>4. InCallback' /\ Top' = f
    BY <2>3 DEF InCallback, Top
  <2>5. ASSUME NEW i \in 1..Len(stack') - 1
        PROVE  stack'[i].state \in held' /\ stack'[i].at # "exit"
    <3>1. i \in 1..Len(stack) /\ stack'[i] = stack[i]
      BY <2>3
    <3>2. CASE i = Len(stack)
      <4>1. InCallback /\ Top = stack[i]
        BY <3>1, <3>2, EmptySeq DEF InCallback, Top
      <4> QED
        BY <1>1, <3>1, <4>1 DEF MayDispatch
    <3>3. CASE i # Len(stack)
      <4>1. i \in 1..Len(stack) - 1
        BY <2>3, <3>1, <3>3
      <4> QED
        BY <1>1, <3>1, <4>1 DEF IInv, CallsOwned
    <3> QED
      BY <3>2, <3>3
  <2>6. CallsOwned'
    BY <1>1, <2>1, <2>4, <2>5 DEF CallsOwned
  <2>7. inside = {m_current}
    BY <1>1, <1>4 DEF IInv, InsideCurrent, MayDispatch
  <2>8. InsideCurrent'
    BY <1>1, <1>4, <2>1, <2>2, <2>4, <2>7 DEF InsideCurrent
  <2> QED
    BY <1>2, <2>6, <2>8
<1> QED
  BY <1>3, <1>4

\* The innermost dispatch goes on to another callback of state s, which is or
\* becomes the current one.
LEMMA GoOnKeeps ==
  ASSUME IInv, InCallback, NEW callback \in {"entry", "doActivity"},
         NEW s \in States, GoOn(callback, s), m_current' = s, held' = held
  PROVE  CallsOwned' /\ InCallback' /\ Top'.at = callback
<1> DEFINE f == Call(callback, Top.event, s)
<1>1. /\ f \in Frame /\ stack \in Seq(Frame) /\ stack # <<>>
      /\ stack' = [stack EXCEPT ![Len(stack)] = f]
  BY GoesOn DEF IInv, Typed
<1>2. f.at = callback /\ f.state = s
  BY DEF Call
<1> HIDE DEF f
<1>3. /\ stack' # <<>> /\ Len(stack) \in Nat /\ Len(stack') = Len(stack)
      /\ stack'[Len(stack')] = f
      /\ \A i \in 1..Len(stack) - 1 : stack'[i] = stack[i]
  BY <1>1, Replaced
<1>4. InCallback' /\ Top' = f
  BY <1>3 DEF InCallback, Top
<1>5. \A i \in 1..Len(stack') - 1 : stack'[i].state \in held' /\ stack'[i].at # "exit"
  BY <1>3 DEF IInv, CallsOwned
<1>6. CallsOwned'
  BY <1>2, <1>4, <1>5 DEF CallsOwned
<1> QED
  BY <1>2, <1>4, <1>6

LEMMA ExitedKeeps ==
  ASSUME IInv, Exited
  PROVE  CallsOwned' /\ CurrentExists' /\ InsideCurrent'
<1>1. /\ InCallback /\ Top.at = "exit"
      /\ m_current' \in States
      /\ m_current' \in alive \cup {m_current}
      /\ alive' = alive \cap (held \cup {m_current'})
      /\ inside' = inside \cup {m_current'}
      /\ GoOn("entry", m_current')
      /\ held' = held
  BY ExitedTo DEF IInv
<1>2. CallsOwned' /\ InCallback' /\ Top'.at = "entry"
  BY <1>1, GoOnKeeps
<1>3. CurrentExists'
  BY <1>1 DEF IInv, Typed, CurrentExists
<1>4. inside = {} /\ m_current' # Null
  BY <1>1, FsmAssumption DEF IInv, InsideCurrent
<1>5. InsideCurrent'
  BY <1>1, <1>2, <1>4 DEF InsideCurrent
<1> QED
  BY <1>2, <1>3, <1>5

LEMMA EnteredKeeps ==
  ASSUME IInv, Entered
  PROVE  CallsOwned' /\ CurrentExists' /\ InsideCurrent'
<1>1. /\ InCallback /\ Top.at = "entry" /\ GoOn("doActivity", m_current)
      /\ m_current \in States /\ m_current # Null
      /\ UNCHANGED <<m_current, held, alive, inside>>
  BY DEF Entered, IInv, Typed, TypeOK
<1>2. CallsOwned' /\ InCallback' /\ Top'.at = "doActivity"
  BY <1>1, GoOnKeeps
<1>3. CurrentExists' /\ InsideCurrent'
  BY <1>1, <1>2 DEF IInv, CurrentExists, InsideCurrent
<1> QED
  BY <1>2, <1>3

\* What an inner dispatch returns to is no exit.
LEMMA DoneKeeps ==
  ASSUME IInv, Done
  PROVE  CallsOwned' /\ CurrentExists' /\ InsideCurrent'
<1>1. /\ InCallback /\ Top.at = "doActivity"
      /\ stack' = SubSeq(stack, 1, Len(stack) - 1)
      /\ UNCHANGED <<m_current, held, alive, inside>>
      /\ stack \in Seq(Frame) /\ stack # <<>>
  BY DEF Done, IInv, Typed, TypeOK, InCallback
<1>2. /\ stack' \in Seq(Frame)
      /\ Len(stack) \in Nat \ {0} /\ Len(stack') = Len(stack) - 1
      /\ \A i \in 1..Len(stack') : stack'[i] = stack[i]
  BY <1>1, Popped
<1>3. \A i \in 1..Len(stack') : stack'[i].state \in held' /\ stack'[i].at # "exit"
  BY <1>1, <1>2 DEF IInv, CallsOwned
<1>4. InCallback' => Top'.state \in held' /\ Top'.at # "exit"
  <2> SUFFICES ASSUME InCallback' PROVE Top'.state \in held' /\ Top'.at # "exit"
    OBVIOUS
  <2>1. Len(stack') \in Nat \ {0}
    BY <1>2, EmptySeq DEF InCallback
  <2>2. Len(stack') \in 1..Len(stack')
    BY <2>1
  <2> QED
    BY <1>3, <2>2 DEF Top
<1>5. CallsOwned'
  <2>1. \A i \in 1..Len(stack') - 1 : i \in 1..Len(stack')
    BY <1>2
  <2> QED
    BY <1>3, <1>4, <2>1 DEF CallsOwned
<1>6. CurrentExists' /\ InsideCurrent'
  BY <1>1, <1>4 DEF IInv, CurrentExists, InsideCurrent
<1> QED
  BY <1>5, <1>6

LEMMA IInvStep ==
  ASSUME Careless = {}, IInv, [Next]_vars
  PROVE  IInv'
<1>1. Typed'
  BY TypedStep DEF IInv
<1>2. CASE UNCHANGED vars
  BY <1>1, <1>2 DEF vars, IInv, CallsOwned, CurrentExists, InsideCurrent, InCallback, Top
<1>3. CASE Next
  BY <1>1, <1>3, addTransitionKeeps, initialKeeps, ReleaseKeeps, dispatchKeeps,
     ExitedKeeps, EnteredKeeps, DoneKeeps DEF Next, IInv
<1> QED
  BY <1>2, <1>3

(* A careful application keeps the whole invariant.                         *)
THEOREM Invariance == ASSUME Careless = {} PROVE Spec => []IInv
<1>1. IInv /\ [Next]_vars => IInv'
  BY IInvStep
<1> QED
  BY <1>1, InitIInv, PTL DEF Spec

LEMMA RunningOwned == IInv => RunningStateExists
<1> SUFFICES ASSUME IInv PROVE RunningStateExists
  OBVIOUS
<1>1. held \subseteq alive /\ Len(stack) \in Nat
  BY LenProperties DEF IInv, Typed, TypeOK
<1>2. ASSUME NEW i \in 1..Len(stack) PROVE stack[i].state \in alive
  <2>1. CASE i = Len(stack)
    <3>1. InCallback /\ Top = stack[i]
      BY <1>1, <1>2, <2>1, EmptySeq DEF InCallback, Top
    <3>2. m_current \in alive
      BY <3>1 DEF IInv, Typed, CurrentExists
    <3> QED
      BY <1>1, <3>1, <3>2 DEF IInv, CallsOwned
  <2>2. CASE i # Len(stack)
    <3>1. i \in 1..Len(stack) - 1
      BY <1>1, <2>2
    <3> QED
      BY <1>1, <3>1 DEF IInv, CallsOwned
  <2> QED
    BY <2>1, <2>2
<1> QED
  BY <1>2 DEF RunningStateExists, Running, IInv, CurrentExists

(* No callback of a careful application runs on a destroyed state.          *)
THEOREM StatesOutliveCallbacks == ASSUME Careless = {} PROVE Spec => []RunningStateExists
BY Invariance, RunningOwned, PTL

(* entry and exit come in pairs: between callbacks the machine is inside    *)
(* its current state only.                                                  *)
THEOREM EntryExitPair == ASSUME Careless = {} PROVE Spec => []InsideCurrent
<1>1. IInv => InsideCurrent
  BY DEF IInv
<1> QED
  BY <1>1, Invariance, PTL
=============================================================================
