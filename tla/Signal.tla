------------------------------- MODULE Signal -------------------------------
(* Sml::Signal (include/signal.hpp): one signal id, an update flag and a   *)
(* cancel flag behind a mutex, with a condition variable that readers      *)
(* sleep on. Callers run update, cancel and clear; readers run wait_update *)
(* and wait_for. A step is one statement of a critical section, so that    *)
(* what the mutex protects shows: update writes the flag before the id.    *)
CONSTANTS
    Callers,    \* threads that call update, cancel and clear
    Readers,    \* threads that call wait_update and wait_for
    Ids,        \* signal ids that callers send
    Ops,        \* the calls that callers make, of "update", "cancel", "clear"
    Free,       \* m_guard is held by no thread
    NoSignal,   \* no id: m_id before the first update, result of an open wait
    CANCELED,   \* the outcome of a wait that throws canceled_wait_event
    TIMEOUT     \* the outcome of wait_for when it returns Sml::TIMEOUT

Threads == Callers \cup Readers

\* TIMEOUT may be one of Ids: nothing stops a caller from sending it.
ASSUME SignalAssumption ==
    /\ Callers \cap Readers = {}
    /\ Free \notin Threads
    /\ NoSignal \notin Ids \cup {CANCELED, TIMEOUT}
    /\ Ops \subseteq {"update", "cancel", "clear"}

VARIABLES
    m_updated, m_canceled, m_id,  \* the members of the object
    m_guard,    \* the thread that holds the mutex, or Free
    pc,         \* pc[t]: the next statement of t; "asleep" is inside m_monitor
    arg,        \* arg[c]: the id that c passed to update
    timed,      \* timed[r]: r is in wait_for, not in wait_update
    expired,    \* expired[r]: the time of r's wait_for has run out
    result      \* result[r]: the outcome of r's last wait

members == <<m_updated, m_canceled, m_id>>
vars == <<m_updated, m_canceled, m_id, m_guard, pc, arg, timed, expired, result>>

\* Where a thread asks for the mutex, and the statement it then goes on with.
LockPC == {"lock_update", "lock_cancel", "lock_clear", "lock_wait", "relock"}
Entry(p) ==
    CASE p = "lock_update" -> "set_updated"
      [] p = "lock_cancel" -> "set_canceled"
      [] p = "lock_clear"  -> "clear_updated"
      [] OTHER             -> "test"

\* Statements that run with the mutex held.
CallerCS == {"set_updated", "set_id", "set_canceled", "notify",
             "clear_updated", "clear_canceled", "unlock"}
ReaderCS == {"test", "unlock"}
CallerPC == {"idle", "lock_update", "lock_cancel", "lock_clear"} \cup CallerCS
ReaderPC == {"idle", "lock_wait", "asleep", "relock"} \cup ReaderCS

Goto(t, p) == pc' = [pc EXCEPT ![t] = p]

Init ==
    /\ m_updated = FALSE
    /\ m_canceled = FALSE
    /\ m_id = NoSignal
    /\ m_guard = Free
    /\ pc = [t \in Threads |-> "idle"]
    /\ arg = [c \in Callers |-> NoSignal]
    /\ timed = [r \in Readers |-> FALSE]
    /\ expired = [r \in Readers |-> FALSE]
    /\ result = [r \in Readers |-> NoSignal]

-----------------------------------------------------------------------------
(* The mutex.                                                              *)

\* Mutant: the mutex is taken whether or not it is free.
Lock_Shared(t) ==
    /\ pc[t] \in LockPC
    /\ m_guard' = t
    /\ Goto(t, Entry(pc[t]))
    /\ UNCHANGED <<members, arg, timed, expired, result>>

Lock(t) ==
    /\ pc[t] \in LockPC
    /\ m_guard = Free
    /\ m_guard' = t
    /\ Goto(t, Entry(pc[t]))
    /\ UNCHANGED <<members, arg, timed, expired, result>>

\* The unique_lock goes out of scope and the call returns.
Unlock(t) ==
    /\ pc[t] = "unlock"
    /\ m_guard' = Free
    /\ Goto(t, "idle")
    /\ UNCHANGED <<members, arg, timed, expired, result>>

-----------------------------------------------------------------------------
(* update, cancel and clear.                                               *)

Update(c, x) ==
    /\ pc[c] = "idle"
    /\ "update" \in Ops
    /\ arg' = [arg EXCEPT ![c] = x]
    /\ Goto(c, "lock_update")
    /\ UNCHANGED <<members, m_guard, timed, expired, result>>

Cancel(c) ==
    /\ pc[c] = "idle"
    /\ "cancel" \in Ops
    /\ Goto(c, "lock_cancel")
    /\ UNCHANGED <<members, m_guard, arg, timed, expired, result>>

Clear(c) ==
    /\ pc[c] = "idle"
    /\ "clear" \in Ops
    /\ Goto(c, "lock_clear")
    /\ UNCHANGED <<members, m_guard, arg, timed, expired, result>>

SetUpdated(c) ==
    /\ pc[c] = "set_updated"
    /\ m_updated' = TRUE
    /\ Goto(c, "set_id")
    /\ UNCHANGED <<m_canceled, m_id, m_guard, arg, timed, expired, result>>

SetId(c) ==
    /\ pc[c] = "set_id"
    /\ m_id' = arg[c]
    /\ Goto(c, "notify")
    /\ UNCHANGED <<m_updated, m_canceled, m_guard, arg, timed, expired, result>>

\* Mutant: cancel forgets notify_all.
SetCanceled_Silent(c) ==
    /\ pc[c] = "set_canceled"
    /\ m_canceled' = TRUE
    /\ Goto(c, "unlock")
    /\ UNCHANGED <<m_updated, m_id, m_guard, arg, timed, expired, result>>

SetCanceled(c) ==
    /\ pc[c] = "set_canceled"
    /\ m_canceled' = TRUE
    /\ Goto(c, "notify")
    /\ UNCHANGED <<m_updated, m_id, m_guard, arg, timed, expired, result>>

\* Mutant: notify_all is left out.
Woken_None == {}

\* notify_all: every sleeper leaves the condition variable and asks for the mutex.
Woken == {r \in Readers : pc[r] = "asleep"}

Notify(c) ==
    /\ pc[c] = "notify"
    /\ pc' = [t \in Threads |-> IF t = c THEN "unlock"
                                ELSE IF t \in Woken THEN "relock" ELSE pc[t]]
    /\ UNCHANGED <<members, m_guard, arg, timed, expired, result>>

ClearUpdated(c) ==
    /\ pc[c] = "clear_updated"
    /\ m_updated' = FALSE
    /\ Goto(c, "clear_canceled")
    /\ UNCHANGED <<m_canceled, m_id, m_guard, arg, timed, expired, result>>

ClearCanceled(c) ==
    /\ pc[c] = "clear_canceled"
    /\ m_canceled' = FALSE
    /\ Goto(c, "unlock")
    /\ UNCHANGED <<m_updated, m_id, m_guard, arg, timed, expired, result>>

-----------------------------------------------------------------------------
(* wait_update and wait_for.                                               *)

BeginWait(r, withTimeout) ==
    /\ pc[r] = "idle"
    /\ timed' = [timed EXCEPT ![r] = withTimeout]
    /\ expired' = [expired EXCEPT ![r] = FALSE]
    /\ result' = [result EXCEPT ![r] = NoSignal]
    /\ Goto(r, "lock_wait")
    /\ UNCHANGED <<members, m_guard, arg>>

WaitUpdate(r) == BeginWait(r, FALSE)
WaitFor(r) == BeginWait(r, TRUE)

Pending == m_updated \/ m_canceled   \* the predicate both waits pass to m_monitor

Return(r, v) ==
    /\ pc[r] = "test"
    /\ result' = [result EXCEPT ![r] = v]
    /\ Goto(r, "unlock")

\* The cancel flag is looked at first; an update stays for the next wait.
TakeCancel(r) ==
    /\ m_canceled
    /\ Return(r, CANCELED)
    /\ m_canceled' = FALSE
    /\ UNCHANGED <<m_updated, m_id, m_guard, arg, timed, expired>>

TakeUpdate(r) ==
    /\ ~m_canceled
    /\ m_updated
    /\ Return(r, m_id)
    /\ m_updated' = FALSE
    /\ UNCHANGED <<m_canceled, m_id, m_guard, arg, timed, expired>>

\* Mutants: the outcome of a wait that ran out is stored in m_id; or the
\* answer of the timed-out wait is used without testing again.
GiveUp_Stored(r) ==
    /\ ~Pending
    /\ expired[r]
    /\ Return(r, TIMEOUT)
    /\ m_id' = TIMEOUT
    /\ UNCHANGED <<m_updated, m_canceled, m_guard, arg, timed, expired>>
GiveUp_Untested(r) ==
    /\ expired[r]
    /\ Return(r, TIMEOUT)
    /\ UNCHANGED <<members, m_guard, arg, timed, expired>>

\* The predicate is tested once more after the time has run out.
GiveUp(r) ==
    /\ ~Pending
    /\ expired[r]
    /\ Return(r, TIMEOUT)
    /\ UNCHANGED <<members, m_guard, arg, timed, expired>>

\* Mutants: a reader sleeps with the mutex held; or sleeps again after the deadline.
Sleep_Holding(r) ==
    /\ pc[r] = "test"
    /\ ~Pending
    /\ ~expired[r]
    /\ Goto(r, "asleep")
    /\ UNCHANGED <<members, m_guard, arg, timed, expired, result>>
Sleep_Again(r) ==
    /\ pc[r] = "test"
    /\ ~Pending
    /\ m_guard' = Free
    /\ Goto(r, "asleep")
    /\ UNCHANGED <<members, arg, timed, expired, result>>

Sleep(r) ==
    /\ pc[r] = "test"
    /\ ~Pending
    /\ ~expired[r]
    /\ m_guard' = Free
    /\ Goto(r, "asleep")
    /\ UNCHANGED <<members, arg, timed, expired, result>>

\* A condition variable may wake a sleeper that nobody notified.
SpuriousWakeup(r) ==
    /\ pc[r] = "asleep"
    /\ Goto(r, "relock")
    /\ UNCHANGED <<members, m_guard, arg, timed, expired, result>>

TimeOut(r) ==
    /\ pc[r] = "asleep"
    /\ timed[r]
    /\ expired' = [expired EXCEPT ![r] = TRUE]
    /\ Goto(r, "relock")
    /\ UNCHANGED <<members, m_guard, arg, timed, result>>

-----------------------------------------------------------------------------
CallerCall(c) == (\E x \in Ids : Update(c, x)) \/ Cancel(c) \/ Clear(c)
CallerStep(c) == SetUpdated(c) \/ SetId(c) \/ SetCanceled(c) \/ Notify(c)
                 \/ ClearUpdated(c) \/ ClearCanceled(c)
ReaderCall(r) == WaitUpdate(r) \/ WaitFor(r)
ReaderStep(r) == TakeCancel(r) \/ TakeUpdate(r) \/ GiveUp(r) \/ Sleep(r)

Next ==
    \/ \E t \in Threads : Lock(t) \/ Unlock(t)
    \/ \E c \in Callers : CallerCall(c) \/ CallerStep(c)
    \/ \E r \in Readers : ReaderCall(r) \/ ReaderStep(r)
                          \/ SpuriousWakeup(r) \/ TimeOut(r)

Spec == Init /\ [][Next]_vars

(* No thread stops inside a call. The mutex is strongly fair: a thread     *)
(* that asks for it again and again while it is free gets it. The deadline *)
(* of wait_for is absolute, so wakeups do not put it off. Nothing obliges  *)
(* a thread to make another call.                                          *)
Fairness ==
    /\ \A t \in Threads : SF_vars(Lock(t)) /\ WF_vars(Unlock(t))
    /\ \A c \in Callers : WF_vars(CallerStep(c))
    /\ \A r \in Readers : WF_vars(ReaderStep(r)) /\ SF_vars(TimeOut(r))

FairSpec == Spec /\ Fairness

-----------------------------------------------------------------------------
TypeOK ==
    /\ m_updated \in BOOLEAN
    /\ m_canceled \in BOOLEAN
    /\ m_id \in Ids \cup {NoSignal}
    /\ m_guard \in Threads \cup {Free}
    /\ pc \in [Threads -> CallerPC \cup ReaderPC]
    /\ \A c \in Callers : pc[c] \in CallerPC
    /\ \A r \in Readers : pc[r] \in ReaderPC
    /\ arg \in [Callers -> Ids \cup {NoSignal}]
    /\ timed \in [Readers -> BOOLEAN]
    /\ expired \in [Readers -> BOOLEAN]
    /\ result \in [Readers -> Ids \cup {NoSignal, CANCELED, TIMEOUT}]

(* A thread runs a statement of a critical section exactly while it holds  *)
(* the mutex, also across the release and re-acquisition inside the        *)
(* condition variable. (signal.hpp: every member takes a locker.)          *)
MutualExclusion ==
    \A t \in Threads : pc[t] \in CallerCS \cup ReaderCS <=> m_guard = t

(* No lost wakeup: while an update or a cancel waits to be read, no reader *)
(* sleeps in the condition variable, unless the caller that made it is     *)
(* still on its way to notify_all.                                         *)
NoLostWakeup ==
    Pending /\ Woken # {} => \E c \in Callers : pc[c] \in {"set_id", "notify"}

(* The object keeps the promise of Mailbox: every wait returns the newest  *)
(* id, an id is returned once, an update that comes while a timeout or a   *)
(* cancel is on its way is not lost, and TIMEOUT is returned only by a     *)
(* timed wait when nothing is there. An update takes effect when its flag  *)
(* is written, a clear when the update flag is.                            *)
At(p) == m_guard \in Callers /\ pc[m_guard] = p
slotBar == IF At("set_id") THEN arg[m_guard]
           ELSE IF m_updated THEN m_id ELSE NoSignal
canceledBar == m_canceled /\ ~At("clear_canceled")
waitBar == [r \in Readers |-> IF pc[r] \in {"idle", "unlock"} THEN "none"
                              ELSE IF timed[r] THEN "timed" ELSE "forever"]

MB == INSTANCE Mailbox WITH slot <- slotBar, canceled <- canceledBar, wait <- waitBar
ImplementsMailbox == MB!Spec

(* update, cancel and clear always return: a reader that waits, however    *)
(* long, does not keep them out.                                           *)
CallsReturn == \A c \in Callers : pc[c] # "idle" ~> pc[c] = "idle"

(* A wait_for always returns, whether or not anybody ever sends a signal.  *)
TimedWaitReturns ==
    \A r \in Readers : pc[r] # "idle" /\ timed[r] ~> pc[r] = "idle"

(* With one reader and nobody calling clear, a wait that has an update or  *)
(* a cancel to take returns.                                               *)
WaitReturns == \A r \in Readers : pc[r] # "idle" /\ Pending ~> pc[r] = "idle"
=============================================================================
