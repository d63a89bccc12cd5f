---------------------------- MODULE SignalTower ----------------------------
(* The signal tower (examples/fsm): an Fsm whose states switch three lamps  *)
(* and whose next event comes from a timer of the state it is in. Its owner *)
(* runs onAnyEvent, which dispatches until ten cycles are counted, or calls *)
(* dispatch by hand. The machine is module Fsm; this module adds what the   *)
(* callbacks do, the context they share and the clock.                     *)
EXTENDS Integers

CONSTANTS
    Interval,       \* Interval[c]: how long lamp c is to be lit
    MaxAge,         \* bound: timers are compared with nothing older
    CountLimit,     \* ten in the code
    Careless        \* calls made without their precondition

ASSUME TowerAssumption ==
    /\ MaxAge \in Nat
    /\ Interval \in [{"green", "yellow", "red"} -> 0..MaxAge - 1]
    /\ CountLimit \in Nat

VARIABLES
    m_current, m_states, held, alive, stack, inside,    \* the Fsm
    lamp,           \* lamp[c]: what the light unit of colour c shows
    timer,          \* timer[c]: the MeasureTime of state c
    m_event,        \* the context's next event
    m_count,        \* the context's count of cycles
    burnt,          \* history: how long lamp c has been lit, up to MaxAge
    pc              \* where the owner is

machine == <<m_current, m_states, held, alive, stack, inside>>
context == <<lamp, burnt, timer, m_event, m_count>>
vars == <<machine, context, pc>>

Colours == {"green", "yellow", "red"}
TowerStates == Colours \cup {"idle"}

\* SignalEvent.
void == -1
stay == 0
green == 1
yellow == 2
red == 3
broken == 4
Codes == {void, stay, green, yellow, red, broken}

F == INSTANCE Fsm WITH States <- TowerStates, Events <- Codes, Null <- "none", MaxDepth <- 1
T == INSTANCE MeasureTime

Careful(call) == call \notin Careless

-----------------------------------------------------------------------------
(* The light units. LightFSM overrides dispatch and has no current state.  *)

LightDispatch(e) == CASE e = 0 -> "off" [] e = 1 -> "on" [] OTHER -> "flick"

turn(c, e) ==
    /\ lamp' = [lamp EXCEPT ![c] = LightDispatch(e)]
    /\ burnt' = [burnt EXCEPT ![c] = 0]

Lit == {c \in Colours : lamp[c] # "off"}
NoTurn == UNCHANGED <<lamp, burnt>>

off == 0
on == 1

-----------------------------------------------------------------------------
(* The callbacks. Each is conjoined with the step of the Fsm that calls it. *)

\* Mutant: one cycle too many.
counter_OrEqual == m_count <= CountLimit

\* Is there a cycle left? The code compares with one value only.
counter == m_count # CountLimit

\* Mutant: only red, the last of the cycle, switches its lamp off.
exit_RedOnly(s) ==
    /\ IF s = "red" THEN turn(s, off) ELSE NoTurn
    /\ m_event' = IF s = "idle" THEN green ELSE m_event
    /\ m_count' = IF s = "red" THEN m_count + 1 ELSE m_count
    /\ UNCHANGED timer

exit(s) ==
    /\ IF s \in Colours THEN turn(s, off) ELSE NoTurn
    /\ m_event' = IF s = "idle" THEN green ELSE m_event
    /\ m_count' = IF s = "red" THEN m_count + 1 ELSE m_count
    /\ UNCHANGED timer

\* Mutant: entry leaves the timer as the last visit has left it.
entry_NotStarted(s) ==
    /\ IF s \in Colours THEN turn(s, on) ELSE NoTurn
    /\ UNCHANGED <<timer, m_event, m_count>>

entry(s) ==
    /\ IF s \in Colours
       THEN turn(s, on) /\ timer' = [timer EXCEPT ![s] = T!start(@)]
       ELSE NoTurn /\ UNCHANGED timer
    /\ UNCHANGED <<m_event, m_count>>

\* The event that ends s.
Due(s) == CASE s = "green" -> yellow [] s = "yellow" -> red [] s = "red" -> green

doActivity(s) ==
    /\ IF s \in Colours
       THEN /\ m_event' = IF T!Expired(timer[s], Interval[s]) THEN Due(s) ELSE stay
            /\ timer' = [timer EXCEPT ![s] = T!isExpire(@, Interval[s], FALSE)]
       ELSE UNCHANGED <<m_event, timer>>
    /\ NoTurn
    /\ UNCHANGED m_count

Callback(at, s) ==
    CASE at = "exit" -> exit(s) [] at = "entry" -> entry(s) [] at = "doActivity" -> doActivity(s)

-----------------------------------------------------------------------------
(* Construction: what SignalFSM's constructor adds to the tables. The codes *)
(* for stay are stored and never looked up.                                *)

Assigned ==
    [s \in TowerStates |->
        [e \in F!Lookups |->
            CASE e = broken -> "idle"
              [] e = green /\ s \in {"idle", "red"} -> "green"
              [] e = yellow /\ s \in {"idle", "green"} -> "yellow"
              [] e = red /\ s \in {"idle", "yellow"} -> "red"
              [] OTHER -> "none"]]

Init ==
    /\ m_current = "idle" /\ inside = {"idle"}
    /\ m_states = Assigned
    /\ held = TowerStates /\ alive = TowerStates
    /\ stack = <<>>
    /\ lamp = [c \in Colours |-> LightDispatch(off)]
    /\ burnt = [c \in Colours |-> 0]
    /\ timer = [c \in Colours |-> T!Started]
    /\ m_event = green
    /\ m_count = 0
    /\ pc = "main"

-----------------------------------------------------------------------------
(* The owner.                                                              *)

\* A dispatch, and the callback that it runs first.
Dispatch(e) ==
    /\ ~F!InCallback
    /\ F!dispatch(e)
    /\ IF stack' # stack THEN Callback(stack'[1].at, m_current) ELSE UNCHANGED context

\* The rest of a dispatch.
Continue ==
    /\ \/ /\ F!Exited \/ F!Entered
          /\ Callback(stack'[1].at, m_current')
       \/ F!Done /\ UNCHANGED context
    /\ UNCHANGED pc

\* Dispatching by hand with all cycles counted would carry the count past
\* the value that counter() compares it with.
ByHand(e) ==
    /\ pc = "main"
    /\ Careful("by_hand") => counter
    /\ Dispatch(e)
    /\ UNCHANGED pc

\* Something will give the loop an event: it has one, or the timer of the
\* current state runs. A dispatch by hand may have left neither.
Ready ==
    \/ m_event > 0
    \/ m_event = stay /\ m_current \in Colours /\ timer[m_current].m_flag

onAnyEvent ==
    /\ pc = "main" /\ ~F!InCallback
    /\ Careful("onAnyEvent") => Ready
    /\ pc' = "loop"
    /\ UNCHANGED <<machine, context>>

\* The test of the loop, and its body or its end.
Loop ==
    /\ pc = "loop" /\ ~F!InCallback
    /\ IF counter THEN Dispatch(m_event) /\ UNCHANGED pc
                  ELSE pc' = "main" /\ UNCHANGED <<machine, context>>

\* The clock goes on, also between two callbacks.
Tick ==
    /\ timer' = [c \in Colours |-> T!Older(timer[c])]
    /\ burnt' = [c \in Colours |-> IF c \in Lit /\ burnt[c] < MaxAge
                                   THEN burnt[c] + 1 ELSE burnt[c]]
    /\ UNCHANGED <<machine, lamp, m_event, m_count, pc>>

Next ==
    \/ \E e \in Codes : ByHand(e)
    \/ onAnyEvent \/ Loop \/ Continue \/ Tick

Spec == Init /\ [][Next]_vars

\* The owner's thread runs on, and so does the clock.
FairSpec == Spec /\ WF_vars(Loop) /\ WF_vars(Continue) /\ WF_vars(Tick)

-----------------------------------------------------------------------------
\* The types, and a count that never passes the limit it is compared with.
TypeOK ==
    /\ F!TypeOK
    /\ lamp \in [Colours -> {"off", "on", "flick"}]
    /\ burnt \in [Colours -> 0..MaxAge]
    /\ timer \in [Colours -> T!Timer]
    /\ m_event \in Codes
    /\ m_count \in 0..CountLimit
    /\ pc \in {"main", "loop"}

\* The tower shows the state it is in: one lamp between the entry and the
\* exit of its state, also when an event leads back to the same state, and
\* none in idle or on the way from one state to the next.
LampsShowState == Lit = inside \cap Colours

\* In the loop a lamp goes off only when it has been lit its time, whatever
\* was dispatched by hand before, and however late the timers are looked at.
LitItsTime ==
    [][pc = "loop" => \A c \in Lit : lamp'[c] = "off" => burnt[c] > Interval[c]]_vars

\* The loop never runs on with nothing to come: whenever it looks for an
\* event there is one, or the timer of the current state will cause one,
\* although that timer reports its end only once.
LoopCanGoOn == pc = "loop" /\ ~F!InCallback => Ready

\* onAnyEvent returns: the event of an expired timer is not lost between
\* the state that found it and the loop that dispatches it.
LoopEnds == pc = "loop" ~> pc = "main"
=============================================================================
