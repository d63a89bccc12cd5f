---------------------------- MODULE TowerProofs -----------------------------
(* Theorems about SignalTower, for any intervals, limit of cycles and       *)
(* behaviour of the owner: that the lamps show the state and that in the    *)
(* loop each is lit its time. That the loop always has something to come    *)
(* needs the owner to enter it so; that the count of cycles keeps its limit *)
(* needs it to dispatch nothing by hand once all cycles are counted.        *)
EXTENDS SignalTower, SequenceTheorems, TLAPS

Callbacks == {"exit", "entry", "doActivity"}

InExit == F!InCallback /\ F!Top.at = "exit"
InEntry == F!InCallback /\ F!Top.at = "entry"

-----------------------------------------------------------------------------
(* The inductive invariant.                                                 *)

\* One dispatch is in progress at most, in a callback of the current state.
Machine ==
    /\ m_current \in TowerStates
    /\ m_states = Assigned /\ held = TowerStates /\ alive = TowerStates
    /\ \/ stack = <<>>
       \/ \E at \in Callbacks, e \in Codes : stack = <<F!Call(at, e, m_current)>>
    /\ inside = IF InExit THEN {} ELSE {m_current}

Context ==
    /\ lamp \in [Colours -> {"off", "on", "flick"}]
    /\ burnt \in [Colours -> 0..MaxAge]
    /\ timer \in [Colours -> T!Timer]
    /\ m_event \in Codes
    /\ m_count \in Nat
    /\ pc \in {"main", "loop"}

\* The timer of a state that was entered is as old as the light of its lamp.
Timed == m_current \in Colours /\ ~InExit => timer[m_current].age = burnt[m_current]

\* An event that waits for the next dispatch comes from a timer that expired,
\* once the state has looked at its timer.
Due_Expired ==
    m_current \in Colours /\ ~InExit /\ ~InEntry /\ m_event > 0
        => burnt[m_current] > Interval[m_current]

IInv == Machine /\ Context /\ LampsShowState /\ Timed /\ Due_Expired

-----------------------------------------------------------------------------
(* The machine.                                                             *)

LEMMA CallFacts ==
  ASSUME NEW x, NEW at, NEW e, NEW s, x = <<F!Call(at, e, s)>>
  PROVE  /\ x # <<>> /\ Len(x) = 1
         /\ x[1] = F!Call(at, e, s) /\ x[Len(x)] = F!Call(at, e, s)
         /\ x[1].at = at /\ x[Len(x)].at = at
BY DEF F!Call

\* What a dispatch does: nothing, or the first callback of the current state.
LEMMA DispatchEffect ==
  ASSUME Machine, NEW e \in Codes, Dispatch(e)
  PROVE  /\ stack = <<>> /\ UNCHANGED <<m_current, m_states, held, alive>>
         /\ \/ e < 0 /\ UNCHANGED <<stack, inside, context>>
            \/ /\ e = 0 /\ stack' = <<F!Call("doActivity", e, m_current)>>
               /\ inside' = inside /\ doActivity(m_current)
            \/ /\ e > 0 /\ stack' = <<F!Call("exit", e, m_current)>>
               /\ inside' = inside \ {m_current} /\ exit(m_current)
<1>1. stack = <<>> /\ m_current # "none" /\ e \in Int
  BY DEF Dispatch, F!InCallback, Machine, TowerStates, Colours, Codes,
     void, stay, green, yellow, red, broken
<1>2. /\ UNCHANGED <<m_current, m_states, held, alive>>
      /\ e < 0 => UNCHANGED <<stack, inside>>
      /\ e >= 0 => /\ stack' = <<F!Begin(e)>>
                   /\ inside' = IF F!Begin(e).at = "exit" THEN inside \ {m_current} ELSE inside
  BY <1>1 DEF Dispatch, F!dispatch
<1>3. CASE e < 0
  BY <1>1, <1>2, <1>3 DEF Dispatch
<1>4. CASE e = 0
  <2>1. F!Begin(e) = F!Call("doActivity", e, m_current)
    BY <1>4 DEF F!Begin
  <2>2. stack' = <<F!Call("doActivity", e, m_current)>>
    BY <1>2, <1>4, <2>1
  <2>3. stack' # stack /\ stack'[1].at = "doActivity"
    BY <1>1, <2>2, CallFacts
  <2>4. Callback("doActivity", m_current)
    BY <2>3 DEF Dispatch
  <2>5. F!Begin(e).at = "doActivity"
    BY <2>1 DEF F!Call
  <2> QED
    BY <1>1, <1>2, <1>4, <2>2, <2>4, <2>5 DEF Callback
<1>5. CASE e > 0
  <2>1. F!Begin(e) = F!Call("exit", e, m_current)
    BY <1>5 DEF F!Begin
  <2>2. stack' = <<F!Call("exit", e, m_current)>>
    BY <1>1, <1>2, <1>5, <2>1
  <2>3. stack' # stack /\ stack'[1].at = "exit"
    BY <1>1, <2>2, CallFacts
  <2>4. Callback("exit", m_current)
    BY <2>3 DEF Dispatch
  <2>5. F!Begin(e).at = "exit"
    BY <2>1 DEF F!Call
  <2> QED
    BY <1>1, <1>2, <1>5, <2>2, <2>4, <2>5 DEF Callback
<1> QED
  BY <1>1, <1>3, <1>4, <1>5

\* What the rest of a dispatch does.
LEMMA ContinueEffect ==
  ASSUME Machine, Continue
  PROVE  /\ UNCHANGED <<m_states, held, alive, pc>>
         /\ \E at \in Callbacks, e \in Codes :
              /\ stack = <<F!Call(at, e, m_current)>>
              /\ \/ /\ at = "exit" /\ m_current' \in TowerStates
                    /\ stack' = <<F!Call("entry", e, m_current')>>
                    /\ inside' = inside \cup {m_current'} /\ entry(m_current')
                 \/ /\ at = "entry" /\ m_current' = m_current
                    /\ stack' = <<F!Call("doActivity", e, m_current)>>
                    /\ inside' = inside /\ doActivity(m_current)
                 \/ /\ at = "doActivity" /\ m_current' = m_current
                    /\ stack' = <<>> /\ inside' = inside /\ UNCHANGED context
<1>1. F!InCallback
  BY DEF Continue, F!Exited, F!Entered, F!Done
<1>2. PICK at \in Callbacks, e \in Codes : stack = <<F!Call(at, e, m_current)>>
  BY <1>1 DEF Machine, F!InCallback
<1>3. /\ Len(stack) = 1 /\ stack[1] = F!Call(at, e, m_current)
      /\ F!Top = F!Call(at, e, m_current) /\ F!Top.at = at /\ F!Top.event = e
  BY <1>2, CallFacts DEF F!Top, F!Call
<1>4. \A c, s : F!GoOn(c, s) => stack' = <<F!Call(c, e, s)>>
  <2> SUFFICES ASSUME NEW c, NEW s, F!GoOn(c, s) PROVE stack' = <<F!Call(c, e, s)>>
    OBVIOUS
  <2>1. stack' = [stack EXCEPT ![1] = F!Call(c, stack[1].event, s)]
    BY <1>3 DEF F!GoOn
  <2>2. stack[1].event = e
    BY <1>3 DEF F!Call
  <2>3. stack' = [stack EXCEPT ![1] = F!Call(c, e, s)]
    BY <2>1, <2>2
  <2> QED
    BY <1>2, <2>3
<1>5. CASE F!Exited
  <2>1. at = "exit"
    BY <1>3, <1>5 DEF F!Exited
  <2>2. /\ m_current' \in TowerStates
        /\ alive' = TowerStates \cap (TowerStates \cup {m_current'})
        /\ inside' = inside \cup {m_current'}
        /\ F!GoOn("entry", m_current')
        /\ m_states' = m_states /\ held' = held
    BY <1>5 DEF F!Exited, F!next, F!Owned, Machine
  <2>3. alive' = alive
    BY <2>2 DEF Machine
  <2>4. stack' = <<F!Call("entry", e, m_current')>>
    BY <1>4, <2>2
  <2>5. stack'[1].at = "entry"
    BY <2>4, CallFacts
  <2>6. ~F!Done
    BY <1>3, <2>1 DEF F!Done
  <2>7. Callback("entry", m_current') /\ pc' = pc
    BY <2>5, <2>6 DEF Continue
  <2>8. entry(m_current')
    BY <2>7 DEF Callback
  <2> QED
    BY <1>2, <2>1, <2>2, <2>3, <2>4, <2>7, <2>8
<1>6. CASE F!Entered
  <2>1. at = "entry"
    BY <1>3, <1>6 DEF F!Entered
  <2>2. F!GoOn("doActivity", m_current) /\ UNCHANGED <<m_current, m_states, held, alive, inside>>
    BY <1>6 DEF F!Entered
  <2>3. stack' = <<F!Call("doActivity", e, m_current)>>
    BY <1>4, <2>2
  <2>4. stack'[1].at = "doActivity"
    BY <2>3, CallFacts
  <2>5. ~F!Done
    BY <1>3, <2>1 DEF F!Done
  <2>6. Callback("doActivity", m_current') /\ pc' = pc
    BY <2>4, <2>5 DEF Continue
  <2>7. doActivity(m_current)
    BY <2>2, <2>6 DEF Callback
  <2> QED
    BY <1>2, <2>1, <2>2, <2>3, <2>6, <2>7
<1>7. CASE F!Done
  <2>1. at = "doActivity"
    BY <1>3, <1>7 DEF F!Done
  <2>2. UNCHANGED <<m_current, m_states, held, alive, inside>>
    BY <1>7 DEF F!Done
  <2>3. stack' = SubSeq(stack, 1, 0)
    BY <1>3, <1>7 DEF F!Done
  <2>4. stack' = <<>>
    BY <2>3
  <2>5. ~F!Exited /\ ~F!Entered
    BY <1>3, <2>1 DEF F!Exited, F!Entered
  <2>6. UNCHANGED context /\ pc' = pc
    BY <2>5 DEF Continue
  <2> QED
    BY <1>2, <2>1, <2>2, <2>4, <2>6
<1> QED
  BY <1>5, <1>6, <1>7 DEF Continue

\* Where the dispatch is, before and after a step.
LEMMA Where ==
  /\ stack = <<>> => ~InExit /\ ~InEntry
  /\ \A at \in Callbacks : \A e, s : stack = <<F!Call(at, e, s)>> =>
        (InExit <=> at = "exit") /\ (InEntry <=> at = "entry")
  /\ stack' = <<>> => ~InExit' /\ ~InEntry'
  /\ \A at \in Callbacks : \A e, s : stack' = <<F!Call(at, e, s)>> =>
        (InExit' <=> at = "exit") /\ (InEntry' <=> at = "entry")
<1>1. ASSUME NEW at \in Callbacks, NEW e, NEW s, stack = <<F!Call(at, e, s)>>
      PROVE  (InExit <=> at = "exit") /\ (InEntry <=> at = "entry")
  BY <1>1, CallFacts DEF InExit, InEntry, F!InCallback, F!Top
<1>2. ASSUME NEW at \in Callbacks, NEW e, NEW s, stack' = <<F!Call(at, e, s)>>
      PROVE  (InExit' <=> at = "exit") /\ (InEntry' <=> at = "entry")
  BY <1>2, CallFacts DEF InExit, InEntry, F!InCallback, F!Top
<1>3. /\ stack = <<>> => ~InExit /\ ~InEntry
      /\ stack' = <<>> => ~InExit' /\ ~InEntry'
  BY DEF InExit, InEntry, F!InCallback
<1> QED
  BY <1>1, <1>2, <1>3

-----------------------------------------------------------------------------
(* The callbacks.                                                           *)

LEMMA turnFacts ==
  ASSUME Context, NEW c \in Colours, NEW e \in {0, 1}, turn(c, e)
  PROVE  /\ lamp' \in [Colours -> {"off", "on", "flick"}]
         /\ burnt' \in [Colours -> 0..MaxAge]
         /\ Lit' = IF e = 0 THEN Lit \ {c} ELSE Lit \cup {c}
         /\ burnt'[c] = 0
         /\ \A d \in Colours \ {c} : burnt'[d] = burnt[d] /\ lamp'[d] = lamp[d]
<1>1. LightDispatch(e) = (IF e = 0 THEN "off" ELSE "on")
  BY DEF LightDispatch
<1>2. /\ lamp' = [lamp EXCEPT ![c] = IF e = 0 THEN "off" ELSE "on"]
      /\ burnt' = [burnt EXCEPT ![c] = 0]
  BY <1>1 DEF turn
<1>3. 0 \in 0..MaxAge
  BY TowerAssumption
<1>4. /\ lamp'[c] = (IF e = 0 THEN "off" ELSE "on") /\ burnt'[c] = 0
      /\ \A d \in Colours \ {c} : burnt'[d] = burnt[d] /\ lamp'[d] = lamp[d]
  BY <1>2 DEF Context
<1>5. Lit' = IF e = 0 THEN Lit \ {c} ELSE Lit \cup {c}
  BY <1>4 DEF Lit
<1> QED
  BY <1>2, <1>3, <1>4, <1>5 DEF Context

\* exit switches the lamp of s off and leaves the timers alone.
LEMMA exitFacts ==
  ASSUME Context, NEW s \in TowerStates, exit(s), UNCHANGED pc
  PROVE  /\ Context'
         /\ Lit' = Lit \ {s} /\ timer' = timer
         /\ \A c \in Colours \ {s} : burnt'[c] = burnt[c] /\ lamp'[c] = lamp[c]
         /\ m_count' = m_count \/ m_count' = m_count + 1
<1>1. /\ timer' = timer /\ m_event' \in Codes
      /\ m_count' = m_count \/ m_count' = m_count + 1
      /\ m_count' \in Nat
  BY DEF exit, Context, Codes
<1>2. CASE s \in Colours
  <2>1. turn(s, 0)
    BY <1>2 DEF exit, off
  <2>2. /\ lamp' \in [Colours -> {"off", "on", "flick"}]
        /\ burnt' \in [Colours -> 0..MaxAge] /\ Lit' = Lit \ {s}
        /\ \A c \in Colours \ {s} : burnt'[c] = burnt[c] /\ lamp'[c] = lamp[c]
    BY <1>2, <2>1, turnFacts
  <2> QED
    BY <1>1, <2>2 DEF Context
<1>3. CASE s \notin Colours
  <2>1. UNCHANGED <<lamp, burnt>>
    BY <1>3 DEF exit, NoTurn
  <2> QED
    BY <1>1, <1>3, <2>1 DEF Context, Lit
<1> QED
  BY <1>2, <1>3

\* entry switches the lamp of s on and starts the timer with it.
LEMMA entryFacts ==
  ASSUME Context, NEW s \in TowerStates, entry(s), UNCHANGED pc
  PROVE  /\ Context'
         /\ Lit' = Lit \cup ({s} \cap Colours)
         /\ s \in Colours => timer'[s].age = burnt'[s]
         /\ \A c \in Lit : lamp'[c] # "off"
         /\ m_count' = m_count
<1>1. m_event' = m_event /\ m_count' = m_count
  BY DEF entry
<1>2. CASE s \in Colours
  <2>1. turn(s, 1) /\ timer' = [timer EXCEPT ![s] = T!Started]
    BY <1>2 DEF entry, on, T!start
  <2>2. /\ lamp' \in [Colours -> {"off", "on", "flick"}]
        /\ burnt' \in [Colours -> 0..MaxAge] /\ Lit' = Lit \cup {s} /\ burnt'[s] = 0
    BY <1>2, <2>1, turnFacts
  <2>3. T!Started \in T!Timer /\ T!Started.age = 0
    BY TowerAssumption DEF T!Started, T!Timer
  <2>4. timer' \in [Colours -> T!Timer] /\ timer'[s].age = 0
    BY <1>2, <2>1, <2>3 DEF Context
  <2>5. \A c \in Lit : lamp'[c] # "off"
    BY <2>2 DEF Lit
  <2> QED
    BY <1>1, <1>2, <2>2, <2>4, <2>5 DEF Context
<1>3. CASE s \notin Colours
  <2>1. UNCHANGED <<lamp, burnt, timer>>
    BY <1>3 DEF entry, NoTurn
  <2> QED
    BY <1>1, <1>3, <2>1 DEF Context, Lit
<1> QED
  BY <1>2, <1>3

\* doActivity finds an event when the timer of s is older than its interval,
\* and leaves lamps and ages alone.
LEMMA doActivityFacts ==
  ASSUME Context, NEW s \in TowerStates, doActivity(s), UNCHANGED pc
  PROVE  /\ Context'
         /\ UNCHANGED <<lamp, burnt, m_count>>
         /\ s \in Colours => /\ timer'[s].age = timer[s].age
                             /\ m_event' > 0 => timer[s].age > Interval[s]
<1>1. UNCHANGED <<lamp, burnt, m_count>>
  BY DEF doActivity, NoTurn
<1>2. CASE s \in Colours
  <2>1. /\ m_event' = IF T!Expired(timer[s], Interval[s]) THEN Due(s) ELSE stay
        /\ timer' = [timer EXCEPT ![s] = T!isExpire(timer[s], Interval[s], FALSE)]
    BY <1>2 DEF doActivity
  <2>2. timer[s] \in T!Timer
    BY <1>2 DEF Context
  <2>3. /\ T!isExpire(timer[s], Interval[s], FALSE) \in T!Timer
        /\ T!isExpire(timer[s], Interval[s], FALSE).age = timer[s].age
    BY <2>2 DEF T!isExpire, T!Timer
  <2>4. timer' \in [Colours -> T!Timer] /\ timer'[s].age = timer[s].age
    BY <1>2, <2>1, <2>3 DEF Context
  <2>5. Due(s) \in Codes /\ stay \in Codes
    BY <1>2 DEF Due, Colours, Codes
  <2>6. m_event' > 0 => T!Expired(timer[s], Interval[s])
    BY <2>1 DEF stay
  <2>7. m_event' > 0 => timer[s].age > Interval[s]
    <3>1. timer[s].age \in 0..MaxAge /\ Interval[s] \in 0..MaxAge - 1
      BY <1>2, <2>2, TowerAssumption DEF T!Timer, Colours
    <3> QED
      BY <2>6, <3>1 DEF T!Expired
  <2> QED
    BY <1>1, <1>2, <2>1, <2>4, <2>5, <2>7 DEF Context
<1>3. CASE s \notin Colours
  BY <1>1, <1>3 DEF doActivity, Context
<1> QED
  BY <1>2, <1>3

-----------------------------------------------------------------------------
(* Each step preserves the invariant.                                       *)

LEMMA InitIInv == Init => IInv
<1> SUFFICES ASSUME Init PROVE IInv
  OBVIOUS
<1> USE TowerAssumption DEF Init
<1>1. ~InExit /\ ~InEntry
  BY Where
<1>2. Machine
  BY <1>1 DEF Machine, TowerStates
<1>3. MaxAge \in Nat /\ 0 \in 0..MaxAge
  OBVIOUS
<1>4. T!Started \in T!Timer
  BY <1>3 DEF T!Started, T!Timer
<1>5. Context
  BY <1>3, <1>4 DEF Context, Codes, LightDispatch, off
<1>6. "idle" \notin Colours
  BY DEF Colours
<1>7. LampsShowState
  BY <1>6 DEF LampsShowState, Lit, LightDispatch, off
<1> QED
  BY <1>2, <1>5, <1>6, <1>7 DEF IInv, Timed, Due_Expired

LEMMA DispatchStep ==
  ASSUME IInv, NEW e \in Codes, Dispatch(e), UNCHANGED pc
  PROVE  IInv'
<1> USE DEF IInv
<1>1. /\ stack = <<>> /\ UNCHANGED <<m_current, m_states, held, alive>>
      /\ m_current \in TowerStates /\ ~InExit /\ ~InEntry /\ inside = {m_current}
  BY DispatchEffect, Where DEF Machine
<1>2. CASE e < 0 /\ UNCHANGED <<stack, inside, context>>
  BY <1>1, <1>2 DEF context, Machine, Context, LampsShowState, Lit, Timed,
     Due_Expired, InExit, InEntry, F!InCallback, F!Top
<1>3. CASE /\ e = 0 /\ stack' = <<F!Call("doActivity", e, m_current)>>
           /\ inside' = inside /\ doActivity(m_current)
  <2>1. ~InExit' /\ ~InEntry'
    BY <1>3, Where DEF Callbacks
  <2>2. Machine'
    BY <1>1, <1>3, <2>1 DEF Machine, Callbacks
  <2>3. /\ Context' /\ UNCHANGED <<lamp, burnt>>
        /\ m_current \in Colours => /\ timer'[m_current].age = timer[m_current].age
                                    /\ m_event' > 0 => timer[m_current].age > Interval[m_current]
    BY <1>1, <1>3, doActivityFacts
  <2>4. LampsShowState'
    BY <1>3, <2>3 DEF LampsShowState, Lit
  <2>5. Timed' /\ Due_Expired'
    BY <1>1, <2>3 DEF Timed, Due_Expired
  <2> QED
    BY <2>2, <2>3, <2>4, <2>5
<1>4. CASE /\ e > 0 /\ stack' = <<F!Call("exit", e, m_current)>>
           /\ inside' = inside \ {m_current} /\ exit(m_current)
  <2>1. InExit'
    BY <1>4, Where DEF Callbacks
  <2>2. Machine'
    BY <1>1, <1>4, <2>1 DEF Machine, Callbacks
  <2>3. Context' /\ Lit' = Lit \ {m_current}
    BY <1>1, <1>4, exitFacts
  <2>4. LampsShowState'
    BY <1>1, <1>4, <2>3 DEF LampsShowState
  <2> QED
    BY <2>1, <2>2, <2>3, <2>4 DEF Timed, Due_Expired
<1> QED
  BY <1>2, <1>3, <1>4, DispatchEffect

LEMMA ContinueStep == ASSUME IInv, Continue PROVE IInv'
<1> USE DEF IInv
<1>1. UNCHANGED <<m_states, held, alive, pc>> /\ m_current \in TowerStates
  BY ContinueEffect DEF Machine
<1>2. PICK at \in Callbacks, e \in Codes :
         /\ stack = <<F!Call(at, e, m_current)>>
         /\ \/ /\ at = "exit" /\ m_current' \in TowerStates
               /\ stack' = <<F!Call("entry", e, m_current')>>
               /\ inside' = inside \cup {m_current'} /\ entry(m_current')
            \/ /\ at = "entry" /\ m_current' = m_current
               /\ stack' = <<F!Call("doActivity", e, m_current)>>
               /\ inside' = inside /\ doActivity(m_current)
            \/ /\ at = "doActivity" /\ m_current' = m_current
               /\ stack' = <<>> /\ inside' = inside /\ UNCHANGED context
  BY ContinueEffect
<1>3. (InExit <=> at = "exit") /\ (InEntry <=> at = "entry")
  BY <1>2, Where
<1>4. CASE at = "exit"
  <2>1. inside = {} /\ Lit = {}
    BY <1>3, <1>4 DEF Machine, LampsShowState
  <2>2. ~InExit' /\ InEntry'
    BY <1>2, <1>4, Where DEF Callbacks
  <2>3. Machine'
    BY <1>1, <1>2, <1>4, <2>1, <2>2 DEF Machine, Callbacks
  <2>4. /\ Context' /\ Lit' = Lit \cup ({m_current'} \cap Colours)
        /\ m_current' \in Colours => timer'[m_current'].age = burnt'[m_current']
    <3>1. m_current' \in TowerStates /\ entry(m_current') /\ UNCHANGED pc
      BY <1>1, <1>2, <1>4
    <3> QED
      BY <3>1, entryFacts
  <2>5. LampsShowState'
    BY <1>2, <1>4, <2>1, <2>4 DEF LampsShowState
  <2>6. Timed' /\ Due_Expired'
    BY <2>2, <2>4 DEF Timed, Due_Expired
  <2> QED
    BY <2>3, <2>4, <2>5, <2>6
<1>5. CASE at = "entry"
  <2>1. inside = {m_current} /\ ~InExit
    BY <1>3, <1>5 DEF Machine
  <2>2. ~InExit' /\ ~InEntry'
    BY <1>2, <1>5, Where DEF Callbacks
  <2>3. Machine'
    BY <1>1, <1>2, <1>5, <2>1, <2>2 DEF Machine, Callbacks
  <2>4. /\ Context' /\ UNCHANGED <<lamp, burnt>>
        /\ m_current \in Colours => /\ timer'[m_current].age = timer[m_current].age
                                    /\ m_event' > 0 => timer[m_current].age > Interval[m_current]
    BY <1>1, <1>2, <1>5, doActivityFacts
  <2>5. LampsShowState'
    BY <1>2, <1>5, <2>4 DEF LampsShowState, Lit
  <2>6. Timed' /\ Due_Expired'
    BY <1>2, <1>5, <2>1, <2>4 DEF Timed, Due_Expired
  <2> QED
    BY <2>3, <2>4, <2>5, <2>6
<1>6. CASE at = "doActivity"
  <2>1. inside = {m_current} /\ ~InExit /\ ~InEntry
    BY <1>3, <1>6 DEF Machine
  <2>2. ~InExit' /\ ~InEntry'
    BY <1>2, <1>6, Where
  <2>3. m_current' = m_current /\ stack' = <<>> /\ inside' = inside /\ UNCHANGED context
    BY <1>2, <1>6
  <2>4. Machine'
    BY <1>1, <2>1, <2>2, <2>3 DEF Machine
  <2>5. Context' /\ LampsShowState'
    BY <1>1, <2>3 DEF context, Context, LampsShowState, Lit
  <2>6. Timed' /\ Due_Expired'
    BY <2>1, <2>3 DEF context, Timed, Due_Expired
  <2> QED
    BY <2>4, <2>5, <2>6
<1> QED
  BY <1>4, <1>5, <1>6 DEF Callbacks

\* The timer of a lit lamp and its light age together.
LEMMA TickStep == ASSUME IInv, Tick PROVE IInv'
<1> USE TowerAssumption DEF IInv
<1>1. /\ timer' = [c \in Colours |-> T!Older(timer[c])]
      /\ burnt' = [c \in Colours |-> IF c \in Lit /\ burnt[c] < MaxAge
                                     THEN burnt[c] + 1 ELSE burnt[c]]
      /\ UNCHANGED <<machine, lamp, m_event, m_count, pc>>
  BY DEF Tick
<1>2. Machine' /\ InExit' = InExit /\ InEntry' = InEntry
  BY <1>1 DEF machine, Machine, InExit, InEntry, F!InCallback, F!Top
<1>3. ASSUME NEW c \in Colours
      PROVE  /\ timer'[c] \in T!Timer
             /\ timer'[c].age = IF timer[c].age < MaxAge THEN timer[c].age + 1 ELSE timer[c].age
             /\ burnt'[c] \in 0..MaxAge /\ burnt[c] <= burnt'[c]
             /\ c \in Lit => burnt'[c] = IF burnt[c] < MaxAge THEN burnt[c] + 1 ELSE burnt[c]
  <2>1. timer[c] \in T!Timer /\ burnt[c] \in 0..MaxAge /\ timer'[c] = T!Older(timer[c])
    BY <1>1 DEF Context
  <2>2. /\ T!Older(timer[c]) \in T!Timer
        /\ T!Older(timer[c]).age = IF timer[c].age < MaxAge THEN timer[c].age + 1 ELSE timer[c].age
    BY <2>1 DEF T!Older, T!Timer
  <2> QED
    BY <1>1, <2>1, <2>2
<1>4. Context'
  BY <1>1, <1>3 DEF Context
<1>5. LampsShowState'
  BY <1>1 DEF machine, LampsShowState, Lit
<1>6. Timed'
  <2> SUFFICES ASSUME m_current \in Colours, ~InExit
               PROVE  timer'[m_current].age = burnt'[m_current]
    BY <1>1, <1>2 DEF machine, Timed
  <2>1. m_current \in Lit /\ timer[m_current].age = burnt[m_current]
    BY DEF Machine, LampsShowState, Timed
  <2> QED
    BY <1>3, <2>1
<1>7. Due_Expired'
  <2> SUFFICES ASSUME m_current \in Colours, ~InExit, ~InEntry, m_event > 0
               PROVE  burnt'[m_current] > Interval[m_current]
    BY <1>1, <1>2 DEF machine, Due_Expired
  <2>1. burnt[m_current] > Interval[m_current] /\ burnt[m_current] <= burnt'[m_current]
    BY <1>3 DEF Due_Expired
  <2>2. burnt[m_current] \in Int /\ burnt'[m_current] \in Int /\ Interval[m_current] \in Int
    BY <1>3 DEF Context, Colours
  <2> QED
    BY <2>1, <2>2
<1> QED
  BY <1>2, <1>4, <1>5, <1>6, <1>7

\* A step that leaves machine and context alone.
LEMMA OwnerStep ==
  ASSUME IInv, UNCHANGED <<machine, context>>, pc' \in {"main", "loop"}
  PROVE  IInv'
<1>1. InExit' = InExit /\ InEntry' = InEntry
  BY DEF machine, InExit, InEntry, F!InCallback, F!Top
<1>2. Machine'
  BY <1>1 DEF IInv, machine, Machine
<1>3. Context' /\ LampsShowState'
  BY DEF IInv, machine, context, Context, LampsShowState, Lit
<1>4. Timed' /\ Due_Expired'
  BY <1>1 DEF IInv, machine, context, Timed, Due_Expired
<1> QED
  BY <1>2, <1>3, <1>4 DEF IInv

\* What the owner and the clock do, as cases.
LEMMA StepCases ==
  ASSUME IInv, [Next]_vars
  PROVE  \/ \E e \in Codes : Dispatch(e) /\ UNCHANGED pc /\ (pc = "main" => ByHand(e))
                              /\ (pc = "loop" => e = m_event /\ counter)
         \/ Continue
         \/ Tick
         \/ UNCHANGED <<machine, context>> /\ pc' \in {"main", "loop"}
<1>1. CASE \E e \in Codes : ByHand(e)
  BY <1>1 DEF ByHand
<1>2. CASE onAnyEvent
  BY <1>2 DEF onAnyEvent
<1>3. CASE Loop
  BY <1>3 DEF Loop, IInv, Context
<1>4. CASE UNCHANGED vars
  BY <1>4 DEF vars, IInv, Context
<1> QED
  BY <1>1, <1>2, <1>3, <1>4 DEF Next

LEMMA NextIInv == IInv /\ [Next]_vars => IInv'
BY StepCases, DispatchStep, ContinueStep, TickStep, OwnerStep

\* IInv always holds, whatever the owner dispatches.
THEOREM Invariance == Spec => []IInv
BY InitIInv, NextIInv, PTL DEF Spec

-----------------------------------------------------------------------------
(* The properties.                                                          *)

\* The lamps show the state, whatever is dispatched when.
THEOREM LampsAreRight == Spec => []LampsShowState
<1>1. IInv => LampsShowState
  BY DEF IInv
<1> QED
  BY <1>1, Invariance, PTL

\* A count that has its limit is only counted up while it is below.
LEMMA CountStep ==
  ASSUME "by_hand" \notin Careless, CountLimit \in Nat, IInv,
         m_count \in 0..CountLimit, [Next]_vars
  PROVE  m_count' \in 0..CountLimit
<1>1. ASSUME NEW e \in Codes, Dispatch(e), UNCHANGED pc,
             pc = "main" => ByHand(e), pc = "loop" => e = m_event /\ counter
      PROVE  m_count' \in 0..CountLimit
  <2>1. m_count # CountLimit
    BY <1>1 DEF ByHand, Careful, counter, IInv, Context
  <2>2. m_count' = m_count \/ m_count' = m_count + 1
    <3>1. \/ m_count' = m_count
          \/ doActivity(m_current)
          \/ exit(m_current)
      BY <1>1, DispatchEffect DEF IInv, context
    <3> QED
      BY <3>1 DEF doActivity, exit
  <2> QED
    BY <2>1, <2>2
<1>2. CASE Continue
  <2>1. m_count' = m_count
    BY <1>2, ContinueEffect DEF IInv, context, entry, doActivity
  <2> QED
    BY <2>1
<1>3. CASE Tick
  BY <1>3 DEF Tick
<1>4. CASE UNCHANGED <<machine, context>>
  BY <1>4 DEF context
<1> QED
  BY <1>1, <1>2, <1>3, <1>4, StepCases

\* The tower keeps its types, and the count of cycles its limit, when nothing
\* is dispatched by hand once all cycles are counted.
THEOREM TypeCorrect == "by_hand" \notin Careless /\ Spec => []TypeOK
<1> SUFFICES ASSUME "by_hand" \notin Careless PROVE Spec => []TypeOK
  OBVIOUS
<1> DEFINE Counted == m_count \in 0..CountLimit
<1>1. Init => Counted
  BY TowerAssumption DEF Init
<1>2. IInv /\ Counted /\ [Next]_vars => Counted'
  BY CountStep, TowerAssumption
<1>3. IInv /\ Counted => TypeOK
  <2> SUFFICES ASSUME IInv, Counted PROVE TypeOK
    OBVIOUS
  <2>1. stack \in Seq(F!Frame)
    <3>1. CASE stack = <<>>
      BY <3>1, EmptySeq
    <3>2. ASSUME NEW at \in Callbacks, NEW e \in Codes, stack = <<F!Call(at, e, m_current)>>
          PROVE  stack \in Seq(F!Frame)
      <4>1. F!Call(at, e, m_current) \in F!Frame
        BY DEF F!Call, F!Frame, Callbacks, IInv, Machine
      <4> QED
        BY <3>2, <4>1
    <3> QED
      BY <3>1, <3>2 DEF IInv, Machine
  <2>2. Assigned \in [TowerStates -> [F!Lookups -> TowerStates \cup {"none"}]]
    BY DEF Assigned, TowerStates, Colours
  <2>3. F!TypeOK
    BY <2>1, <2>2 DEF IInv, Machine, F!TypeOK
  <2> QED
    BY <2>3 DEF IInv, Context, TypeOK
<1> QED
  BY <1>1, <1>2, <1>3, Invariance, PTL DEF Spec

\* In the loop only the lamp of the current state goes off, by an event that
\* its expired timer gave: it was lit longer than its interval.
LEMMA LitStep ==
  ASSUME IInv, [Next]_vars, pc = "loop", NEW c \in Lit, lamp'[c] = "off"
  PROVE  burnt[c] > Interval[c]
<1>0. c \in Colours /\ lamp[c] # "off"
  BY DEF Lit
<1>1. ASSUME NEW e \in Codes, Dispatch(e), UNCHANGED pc, e = m_event
      PROVE  burnt[c] > Interval[c]
  <2>1. /\ stack = <<>> /\ m_current \in TowerStates
        /\ UNCHANGED context \/ doActivity(m_current) \/ (e > 0 /\ exit(m_current))
    BY <1>1, DispatchEffect DEF IInv, Machine
  <2>2. e > 0 /\ exit(m_current)
    <3>1. lamp' # lamp
      BY <1>0
    <3> QED
      BY <2>1, <3>1 DEF context, doActivity, NoTurn
  <2>3. c = m_current
    <3>1. Context
      BY DEF IInv
    <3> QED
      BY <1>0, <1>1, <2>1, <2>2, <3>1, exitFacts
  <2>4. ~InExit /\ ~InEntry
    BY <2>1, Where
  <2> QED
    BY <1>0, <1>1, <2>2, <2>3, <2>4 DEF IInv, Due_Expired
<1>2. CASE Continue
  <2>1. /\ UNCHANGED pc
        /\ \/ m_current' \in TowerStates /\ entry(m_current')
           \/ doActivity(m_current)
           \/ UNCHANGED context
    BY <1>2, ContinueEffect DEF IInv
  <2>2. Context
    BY DEF IInv
  <2> QED
    BY <1>0, <2>1, <2>2, entryFacts DEF doActivity, NoTurn, context
<1>3. CASE Tick \/ UNCHANGED <<machine, context>>
  BY <1>0, <1>3 DEF Tick, context
<1> QED
  BY <1>1, <1>2, <1>3, StepCases

\* In the loop every lamp is lit its time, whatever was dispatched by hand
\* before and however late the timers are looked at.
THEOREM LampsAreLitTheirTime == Spec => LitItsTime
<1>1. IInv /\ [Next]_vars
      => [pc = "loop" => \A c \in Lit : lamp'[c] = "off" => burnt[c] > Interval[c]]_vars
  BY LitStep
<1> QED
  BY <1>1, Invariance, PTL DEF Spec, LitItsTime

-----------------------------------------------------------------------------
(* The loop always has something to come.                                   *)

\* While the loop runs every event is one that leads to a lamp. A state whose
\* entry is over has its timer running, or has put its event into the context.
Alarm ==
    /\ m_event \in {stay, green, yellow, red}
    /\ InEntry /\ m_current \in Colours => timer[m_current].m_flag
    /\ pc = "loop" =>
          /\ InExit => F!Top.event \in {green, yellow, red}
          /\ InEntry => m_current \in Colours
          /\ ~InExit /\ ~InEntry => Ready

\* A look at a running timer either leaves it running or finds the event.
LEMMA Looked ==
  ASSUME NEW s \in TowerStates, doActivity(s), m_event \in {stay, green, yellow, red}
  PROVE  /\ m_event' \in {stay, green, yellow, red}
         /\ s \in Colours /\ timer \in [Colours -> T!Timer] /\ timer[s].m_flag =>
               m_event' > 0 \/ (m_event' = stay /\ timer'[s].m_flag)
<1>1. CASE s \in Colours
  <2>1. /\ m_event' = IF T!Expired(timer[s], Interval[s]) THEN Due(s) ELSE stay
        /\ timer' = [timer EXCEPT ![s] = T!isExpire(timer[s], Interval[s], FALSE)]
    BY <1>1 DEF doActivity
  <2>2. Due(s) \in {green, yellow, red}
    BY <1>1 DEF Due, Colours
  <2>3. CASE T!Expired(timer[s], Interval[s])
    <3>1. m_event' \in {green, yellow, red}
      BY <2>1, <2>2, <2>3
    <3>2. m_event' > 0
      BY <3>1 DEF green, yellow, red
    <3> QED
      BY <3>1, <3>2
  <2>4. CASE ~T!Expired(timer[s], Interval[s])
    <3>1. T!isExpire(timer[s], Interval[s], FALSE) = timer[s]
      BY <2>4 DEF T!isExpire
    <3> QED
      BY <1>1, <2>1, <2>4, <3>1
  <2> QED
    BY <2>3, <2>4
<1>2. CASE s \notin Colours
  BY <1>2 DEF doActivity
<1> QED
  BY <1>1, <1>2

\* By one of its own events the tower goes from any state to one with a lamp.
LEMMA ToALamp ==
  ASSUME Machine, F!Exited, F!Top.event \in {green, yellow, red}
  PROVE  m_current' \in Colours
<1> DEFINE e == F!Top.event
           p == F!next(m_current, e)
<1>1. m_current' = (IF p # "none" THEN p ELSE m_current)
  BY DEF F!Exited
<1>2. e \in F!Lookups /\ e # broken
  BY DEF F!Lookups, Codes, green, yellow, red, broken
<1>3. p = IF Assigned[m_current][e] \in TowerStates THEN Assigned[m_current][e] ELSE "none"
  BY DEF F!next, Machine
<1>4. CASE m_current = "idle"
  <2>1. Assigned["idle"][e] \in Colours
    BY <1>2 DEF Assigned, TowerStates, Colours
  <2> QED
    BY <1>1, <1>3, <1>4, <2>1 DEF TowerStates, Colours
<1>5. CASE m_current \in Colours
  <2>1. Assigned[m_current][e] \in Colours \cup {"none"}
    BY <1>2, <1>5 DEF Assigned, TowerStates, Colours
  <2> QED
    BY <1>1, <1>3, <1>5, <2>1 DEF TowerStates, Colours
<1> QED
  BY <1>4, <1>5 DEF Machine, TowerStates

LEMMA DispatchAlarm ==
  ASSUME IInv, Alarm, NEW e \in Codes, Dispatch(e), UNCHANGED pc, pc = "loop" => e = m_event
  PROVE  Alarm'
<1>1. /\ stack = <<>> /\ m_current \in TowerStates /\ m_current' = m_current
      /\ ~InExit /\ ~InEntry /\ timer \in [Colours -> T!Timer]
  BY DispatchEffect, Where DEF IInv, Machine, Context
<1>2. CASE e < 0 /\ UNCHANGED <<stack, inside, context>>
  <2>1. /\ ~InExit' /\ ~InEntry' /\ m_event' = m_event /\ timer' = timer
        /\ pc # "loop"
    BY <1>1, <1>2, Where DEF Alarm, context, stay, green, yellow, red
  <2> QED
    BY <2>1 DEF Alarm
<1>3. CASE /\ e = 0 /\ stack' = <<F!Call("doActivity", e, m_current)>>
           /\ inside' = inside /\ doActivity(m_current)
  <2>1. ~InExit' /\ ~InEntry'
    BY <1>3, Where DEF Callbacks
  <2>2. m_event' \in {stay, green, yellow, red}
    BY <1>1, <1>3, Looked DEF Alarm
  <2>3. ASSUME pc = "loop" PROVE Ready'
    <3>1. m_current \in Colours /\ timer[m_current].m_flag
      BY <1>1, <1>3, <2>3 DEF Alarm, Ready
    <3>2. m_event' > 0 \/ (m_event' = stay /\ timer'[m_current].m_flag)
      BY <1>1, <1>3, <3>1, Looked DEF Alarm
    <3> QED
      BY <1>1, <3>1, <3>2 DEF Ready
  <2> QED
    BY <2>1, <2>2, <2>3 DEF Alarm
<1>4. CASE /\ e > 0 /\ stack' = <<F!Call("exit", e, m_current)>>
           /\ inside' = inside \ {m_current} /\ exit(m_current)
  <2>1. InExit' /\ ~InEntry' /\ F!Top'.event = e
    BY <1>4, Where, CallFacts DEF Callbacks, F!Top, F!Call
  <2>2. m_event' \in {stay, green, yellow, red}
    BY <1>4 DEF Alarm, exit
  <2>3. pc = "loop" => e \in {green, yellow, red}
    BY <1>4 DEF Alarm, stay
  <2> QED
    BY <2>1, <2>2, <2>3 DEF Alarm
<1> QED
  BY <1>2, <1>3, <1>4, DispatchEffect DEF IInv

LEMMA ContinueAlarm == ASSUME IInv, Alarm, Continue PROVE Alarm'
<1>1. pc' = pc /\ m_current \in TowerStates /\ timer \in [Colours -> T!Timer]
  BY ContinueEffect DEF IInv, Machine, Context
<1>2. PICK at \in Callbacks, e \in Codes :
         /\ stack = <<F!Call(at, e, m_current)>>
         /\ \/ /\ at = "exit" /\ m_current' \in TowerStates
               /\ stack' = <<F!Call("entry", e, m_current')>>
               /\ inside' = inside \cup {m_current'} /\ entry(m_current')
            \/ /\ at = "entry" /\ m_current' = m_current
               /\ stack' = <<F!Call("doActivity", e, m_current)>>
               /\ inside' = inside /\ doActivity(m_current)
            \/ /\ at = "doActivity" /\ m_current' = m_current
               /\ stack' = <<>> /\ inside' = inside /\ UNCHANGED context
  BY ContinueEffect DEF IInv
<1>3. (InExit <=> at = "exit") /\ (InEntry <=> at = "entry")
  BY <1>2, Where
<1>4. CASE at = "exit"
  <2>1. ~InExit' /\ InEntry'
    BY <1>2, <1>4, Where DEF Callbacks
  <2>2. m_event' = m_event /\ (m_current' \in Colours => timer'[m_current'].m_flag)
    BY <1>1, <1>2, <1>4 DEF entry, T!start, T!Started
  <2>3. pc = "loop" => m_current' \in Colours
    <3>1. F!Exited
      <4>1. F!Top.at = "exit"
        BY <1>3, <1>4 DEF InExit
      <4> QED
        BY <4>1 DEF Continue, F!Entered, F!Done
    <3> QED
      BY <1>3, <1>4, <3>1, ToALamp DEF IInv, Alarm
  <2> QED
    BY <1>1, <2>1, <2>2, <2>3 DEF Alarm
<1>5. CASE at = "entry"
  <2>1. ~InExit' /\ ~InEntry'
    BY <1>2, <1>5, Where DEF Callbacks
  <2>2. m_event' \in {stay, green, yellow, red}
    BY <1>1, <1>2, <1>5, Looked DEF Alarm
  <2>3. ASSUME pc = "loop" PROVE Ready'
    <3>1. m_current \in Colours /\ timer[m_current].m_flag
      BY <1>3, <1>5, <2>3 DEF Alarm
    <3>2. m_event' > 0 \/ (m_event' = stay /\ timer'[m_current].m_flag)
      BY <1>1, <1>2, <1>5, <3>1, Looked DEF Alarm
    <3>3. m_current' = m_current
      BY <1>2, <1>5
    <3> QED
      BY <3>1, <3>2, <3>3 DEF Ready
  <2> QED
    BY <1>1, <2>1, <2>2, <2>3 DEF Alarm
<1>6. CASE at = "doActivity"
  <2>1. ~InExit /\ ~InEntry /\ ~InExit' /\ ~InEntry'
    BY <1>2, <1>3, <1>6, Where
  <2>2. UNCHANGED <<m_current, m_event, timer, pc>>
    BY <1>1, <1>2, <1>6 DEF context
  <2> QED
    BY <2>1, <2>2 DEF Alarm, Ready
<1> QED
  BY <1>4, <1>5, <1>6 DEF Callbacks

\* The clock neither stops a timer nor takes an event away.
LEMMA TickAlarm == ASSUME IInv, Alarm, Tick PROVE Alarm'
<1>1. /\ UNCHANGED <<m_current, stack, m_event, pc>>
      /\ timer' = [c \in Colours |-> T!Older(timer[c])]
  BY DEF Tick, machine
<1>2. InExit' = InExit /\ InEntry' = InEntry /\ F!Top' = F!Top
  BY <1>1 DEF InExit, InEntry, F!InCallback, F!Top
<1>3. \A c \in Colours : timer'[c].m_flag = timer[c].m_flag
  BY <1>1 DEF IInv, Context, T!Older, T!Timer
<1>4. Ready' = Ready
  BY <1>1, <1>3 DEF Ready
<1> QED
  BY <1>1, <1>2, <1>3, <1>4 DEF Alarm

\* The owner enters the loop only when something is to come.
LEMMA OwnerAlarm ==
  ASSUME Alarm, UNCHANGED <<machine, context>>,
         pc' = "loop" /\ pc # "loop" => ~F!InCallback /\ Ready
  PROVE  Alarm'
<1>1. /\ InExit' = InExit /\ InEntry' = InEntry /\ F!Top' = F!Top /\ Ready' = Ready
      /\ UNCHANGED <<m_current, m_event, timer>>
  BY DEF machine, context, InExit, InEntry, F!InCallback, F!Top, Ready
<1>2. ~F!InCallback => ~InExit /\ ~InEntry
  BY DEF InExit, InEntry
<1> QED
  BY <1>1, <1>2 DEF Alarm

LEMMA NextAlarm ==
  ASSUME "onAnyEvent" \notin Careless, IInv, Alarm, [Next]_vars
  PROVE  Alarm'
<1>1. CASE \E e \in Codes : ByHand(e)
  BY <1>1, DispatchAlarm DEF ByHand
<1>2. CASE onAnyEvent
  BY <1>2, OwnerAlarm DEF onAnyEvent, Careful
<1>3. CASE Loop
  <2>1. CASE counter
    BY <1>3, <2>1, DispatchAlarm DEF Loop, IInv, Context
  <2>2. CASE ~counter
    BY <1>3, <2>2, OwnerAlarm DEF Loop
  <2> QED
    BY <2>1, <2>2
<1>4. CASE UNCHANGED vars
  BY <1>4, OwnerAlarm DEF vars
<1> QED
  BY <1>1, <1>2, <1>3, <1>4, ContinueAlarm, TickAlarm DEF Next

\* The loop never looks for an event when none is there and no timer runs,
\* if it is not entered so: the event of a timer that reports its end once
\* is in the context until the loop dispatches it.
THEOREM LoopHasNext == ASSUME "onAnyEvent" \notin Careless PROVE Spec => []LoopCanGoOn
<1>1. Init => Alarm
  BY Where DEF Init, Alarm
<1>2. IInv /\ Alarm /\ [Next]_vars => Alarm'
  BY NextAlarm
<1>3. Alarm => LoopCanGoOn
  BY DEF Alarm, LoopCanGoOn, InExit, InEntry
<1> QED
  BY <1>1, <1>2, <1>3, Invariance, PTL DEF Spec
=============================================================================
