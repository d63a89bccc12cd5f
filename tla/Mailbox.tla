------------------------------ MODULE Mailbox ------------------------------
(* What a Signal promises, with no lock and no condition variable: a slot  *)
(* for one signal id, which a newer id overwrites, and a cancel mark.      *)
(* A wait ends by taking the cancel mark, by taking the slot when there is *)
(* no cancel mark, or, if it was given a timeout, by finding neither.      *)
CONSTANTS
    Readers,    \* threads that wait for a signal
    Ids,        \* signal ids that are sent
    NoSignal,   \* the empty slot, and the result of a wait still going on
    CANCELED,   \* the outcome of a wait that ends with canceled_wait_event
    TIMEOUT     \* the outcome of a timed wait that found nothing

VARIABLES
    slot,       \* the id that waits to be read, or NoSignal
    canceled,   \* a cancel that waits to be read
    wait,       \* wait[r]: "none", "forever" or "timed"
    result      \* result[r]: what r's last wait returned

mailboxVars == <<slot, canceled, wait, result>>

Init ==
    /\ slot = NoSignal
    /\ canceled = FALSE
    /\ wait = [r \in Readers |-> "none"]
    /\ result = [r \in Readers |-> NoSignal]

Put(x) ==
    /\ slot' = x
    /\ UNCHANGED <<canceled, wait, result>>

Cancel ==
    /\ canceled' = TRUE
    /\ UNCHANGED <<slot, wait, result>>

Clear ==
    /\ slot' = NoSignal
    /\ canceled' = FALSE
    /\ UNCHANGED <<wait, result>>

Wait(r) ==
    /\ wait[r] = "none"
    /\ \E m \in {"forever", "timed"} : wait' = [wait EXCEPT ![r] = m]
    /\ result' = [result EXCEPT ![r] = NoSignal]
    /\ UNCHANGED <<slot, canceled>>

\* The wait of r ends with the outcome v.
Return(r, v) ==
    /\ wait[r] # "none"
    /\ wait' = [wait EXCEPT ![r] = "none"]
    /\ result' = [result EXCEPT ![r] = v]

TakeCancel(r) ==
    /\ canceled
    /\ Return(r, CANCELED)
    /\ canceled' = FALSE
    /\ UNCHANGED slot

Take(r) ==
    /\ ~canceled
    /\ slot # NoSignal
    /\ Return(r, slot)
    /\ slot' = NoSignal
    /\ UNCHANGED canceled

GiveUp(r) ==
    /\ ~canceled
    /\ slot = NoSignal
    /\ wait[r] = "timed"
    /\ Return(r, TIMEOUT)
    /\ UNCHANGED <<slot, canceled>>

Next ==
    \/ \E x \in Ids : Put(x)
    \/ Cancel
    \/ Clear
    \/ \E r \in Readers : Wait(r) \/ TakeCancel(r) \/ Take(r) \/ GiveUp(r)

Spec == Init /\ [][Next]_mailboxVars
=============================================================================
